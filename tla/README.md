# Formal verification of the OneTap catalog backend

TLA+ modules for the Go program in `src/`: a publisher that probes public VLESS
routes and signs a catalog of those that work, the store that keeps the catalog,
and the HTTP API that serves it. The modules are translated from the code; TLC
checks them on small instances, TLAPS proves the most important results for every
instance.

## 1. Inventory

| component | state | operations | hard part |
| --- | --- | --- | --- |
| catalog store (`internal/catalog/store.go`) | `current` and a mutex per process, `revisionFile` and its `.tmp` shared by processes | `NewPersistentMemoryStore`, `Replace`, `Current` | file read outside the mutex; write-rename-assign with errors and crashes in between; two processes on one file |
| ranking (`store.go` 86-124, 272-395) | none: a batch in, an ordered catalog out | `faster`, `countryBucket`, `diverseCountryPool` | random map order and an unstable sort, duplicates, rounds by country, cap, floor fill |
| feed download (`importer.go` 147-196, 553-619) | `Runner.cache`: lines and validators | `fetch` with four slots | 304, failures that reuse old lines, restarts that lose the cache |
| candidate merge (205-256) | none | fold over the lines | provenance labels of routes listed twice |
| selection and rotation (305-446) | none: the hour selects the slice | `selectRefreshCandidates` and the samplers | coverage over many hours, boundary sizes |
| probe scheduler (448-539) | semaphore, wait group, result channel | `check` | retries, the deadline, termination |
| Xray probe (`internal/verify/xray.go`) | a process, a port and a context for each call | `Probe` | ports handed out before they are bound; cleanup |
| API catalog handler (`internal/api/server.go`) | the store | `GET /v1/catalog` | many handlers beside `Replace` |
| auth store (244-299) | codes, attempts, sessions | `issue`, `verify`, `session` | attempts, expiry, one-time codes |
| payment store (301-354), Crypto Pay client | invoices, processed updates, entitlements | `createInvoice`, `cryptoWebhook` | repeated updates, overlapping invoices, restarts |
| commands (`cmd/publish`, `cmd/api`) | the process | one refresh with a deadline of four minutes; serve | which process imports; exit codes |
| refresh workflow (`.github/workflows/refresh-catalog.yml`) | the branch, a run that waits, the checkout of the running one | hourly, by hand or by a push: two attempts, commit and push | checkouts that fell behind, refused pushes, dropped events, killed attempts |
| signing, parsing, model, keygen, Dockerfile, public data | none | pure functions and data | - |

`cmd/publish` (in the hourly workflow) builds a store on `public/catalog.json` and
calls `Refresh` once. `Refresh` downloads the feeds, takes the published routes from
`Current()`, merges, selects, probes through `XrayChecker` and calls `Replace`.
`cmd/api` serves `Current()`, and may refresh once, in the same process
(`ENABLE_IMPORTER`) or in a process of its own on the same file
(`RUN_IMPORTER_ONLY`).

What makes each correct: the store serves fresh, durable catalogs whose revisions a
client can order; a refresh publishes only what it probed completely and evicts only
what failed; what it publishes is the best offer of each route, with no country crowding
out another, whatever order results arrive in; sampling reaches every route in the end; a
probe judges its own route and cleans up; an update of a payment counts once; what phones download
goes forward and is renewed in time.

## 2. Modules

| module | models | abstract from |
| --- | --- | --- |
| `CatalogStore` | the store and the catalog handler, any number of processes, goroutines and importers | catalog = revision and body; signature checks = whether a file is restorable |
| `CatalogRegister` | what the store promises: one register, a forward-moving view per process | files, locks, calls |
| `CatalogStoreProofs` | theorems about `CatalogStore` | |
| `Refresh`, `RefreshProofs` | one `Refresh` after another, by workers with or without a checker, crashes included | routes and labels as sets; selection and ranking as the choices they allow |
| `Ranking`, `RankingProofs` | the order of servers, one server for each route, the choice by country | a route = a number in the order of IDs |
| `Publication`, `PublicationProofs` | lines, merge, results, `Replace`, composed with the operators of `Ranking` | goroutines and failures (in `Refresh`), revision and file (in `CatalogStore`) |
| `PublishWorkflow`, `PublishWorkflowProofs` | the hourly worker around `cmd/publish` and the catalog on the main branch | a catalog = revision and age in hours |
| `Sampling`, `SamplingProofs` | selection and rotation, exactly, and the workers of successive hours | time = hourly slot |
| `XrayProbe`, `XrayProbeProofs` | probes side by side on shared ports | metrics, configuration |
| `Payments`, `PaymentsProofs` | invoices, webhooks and entitlements, and the provider's side of the protocol | signatures, regions, rejected requests |
| `MC...` | instances for TLC | |

**CatalogStore.** A goroutine is at a step `pc`; steps are the file operations and
the critical sections. `Current` is `ReadFile` (outside the mutex), `Adopt`, `Return`;
the handler answers 503 while there are no servers. `Replace` is `Sign` (takes the
mutex), `OpenTmp`, `WriteTmp`, `RenameTmp`, `Assign`, with `PersistFails` at each
file operation. `fd` records what the inode a goroutine has open is linked as, which
is what makes two importers on one `.tmp` interesting: a rename by one makes the other
write the live file. `Stop` is a crash at any step; `Start` reads the file and refuses
one it cannot restore. `published`, `answers` and `answered` are history.

**Refresh.** `Begin`, the goroutine of each feed (`TakeFetchSlot`, `Downloads`,
`NotModified`, `Unavailable`), `Collect` (everything from `fetches.Wait()` to the start
of `check`), the goroutine of each candidate (`TakeSlot`, `Abandon`,
`RejectDestination`, `FailAttempt`, `PassAttempt`), `Decide`, `Replace` or
`ReplaceFails`; `Deadline` and `Crash` at any point. The store is atomic here
(`CatalogStore` shows what that takes), and `Kept` is what `diverseCountryPool` may
keep of the accepted routes.

**Sampling.** Operators for each function, loops as folds (`Those` is the loop that
appends what is among the chosen, which the code writes four times; `TakeNew` the one over
the choices of a source); `Refresh` is the worker of one hour, with unchanged feeds and
catalog, until as many hours have passed as routes are offered. Seconds within an hour do
not matter to the code either. `CuratedIsCovered` asks for a slot for each curated source
in the worker and in its reserve: with fewer, the first sources in string order take the
reserve in every hour and the other feeds the rest. The workflow has 16 slots free beside
a full catalog and 12 of them reserved, for five curated feeds.

**Ranking, Publication.** `Ranking` has an operator for each function: `Faster` with its
quality bands, `Unique` (the loop over the map of candidates, a fold of `Keep`) and
`DiverseCountryPool`. The pool is sorted again after it was chosen, so it is a set here,
chosen by position: the rounds over the countries take the servers in the order of
`RoundByRound`, by the number of the server within its country (`Turn`) and then by the
place of its country (`Place`); they take the first of those within the cap (`Due`), as
many as the limit allows (`FirstOf`), and the floor is filled by rank (`Pooled`). `sort.Slice` may return any arrangement in which no server precedes
one ranked before it (`Arrangements`), and its input comes out of a map, so `Catalogs` is
the set of what `Replace` may list. `Publication` takes one publication from `Download` over
`Merge` (the loop of `Refresh` as a fold) and `Check` to `Replace`; `CallReplace` is a
caller that does not come from `Refresh` (`ReplaceFromLines`, tests), whose batch may
repeat routes and carry no labels or countries.

**PublishWorkflow.** `HourStrikes`, `Dispatch` and `DeveloperPushes` put a run in the
concurrency group, where it replaces one that waits; `StartJob` checks out the commit of
its event; `Prepare`, two attempts (`AttemptPublishes`, `AttemptFails`, and `AttemptDies`
for a publisher killed after the rename), `PushCatalog`, and `JobFails` at any step. Only
the commits that matter are kept: a commit is the revision of its catalog, and whether main
has moved on, since git refuses a push from behind. Ages grow as hours strike and stop at
the lifetime; `silent` is the time since Actions last showed a green job. That GitHub
queues one run, drops scheduled events under load and checks out the commit of the event
is external, taken from how the workflow uses it. That ages stop at the lifetime is a bound
of the model.

**XrayProbe.** Each slot runs `PickPort` (`freePort` binds and closes), `StartXray`,
`Connect` (`waitForSocks`), `RequestYouTube`, `Kill`; `ReturnError` and `Expire` at
their points. Xray itself may bind late, never, fail to bind, or exit.

**Payments.** A request goes through `CreateDraft`, `ProviderCreates`, `Register`,
`Answer`, or `CreateFails`; the customer pays what was answered. An update has an ID of its
own (`Updates`) and is about an invoice (`InvoiceOf`), as in `cryptoUpdate`. `Pay` makes the
provider send one; `Announce` sends one that was accepted before, or another ID for the
same payment; `Webhook` is a delivery that is accepted, whose answer may be lost. A
rejected delivery (409) changes nothing. `Restart` empties the maps.

`markPaid` looks up the invoice by its ID, remembers the ID of the update, and leaves the
invoice as it is. So each update is credited once, and a payment announced under two IDs
is credited twice: `CreditedOnce` and `EntitlementIsWhatWasBought` are stated for updates,
and mean payments only as far as the provider sends one ID for each, which nothing in the
repository says.

## 3. Runs

| run | question | instance | states |
| --- | --- | --- | --- |
| `StoreOneImporter` | freshness, durability, one catalog per revision, restart, refinement of `CatalogRegister`; what is published is served | two processes, three goroutines, one importer, two bodies, 2 revisions | 23,049 |
| `StoreTwoImporters` | what still holds with two importing processes | three goroutines, two of them importers, 2 revisions | 579,250 |
| `Refresh` | the safety of publication, with and without a checker; every refresh ends | two feeds, three routes, limit = pool cap = 2, one download slot, two probe slots | 473,464 |
| `Publication` | provenance, the published order, the best offer of a route, the shares of countries | two feeds with up to two lines, three saved catalogs, four measurements; direct batches of three offers, or of six routes in any of four countries, or of a route with two flags; pool cap 4, two per country, floor 3 | 24,309 |
| `PublishWorkflow` | revisions go forward, green means fresh, the catalog is renewed | lifetime 6 hours, 4 revisions, 2 developer pushes | 19,423 |
| `SamplingHours` | coverage and fairness of the rotation | all sizes up to 5 published, 3+3 curated, 6 broader, limit 4 with 2 reserved, first hours 0..5 | 28,224 |
| `XrayProbe` | cleanup, the verdict of a probe alone on its port, every probe returns | two slots, two ports, a route that works and one that does not | 7,842 |
| `Payments` | each update counts once, they add up, and each payment is credited in the end | three invoices, one of them with two updates, two accounts, 3 instants | 717,648 |

Four runs end in a violation: they state what a comment or the README of the
repository says, and show that the code does otherwise.

- `XrayProbeShared`: `freePort` closes its listener before Xray binds the port; a second
  probe can be given it, and passes through the tunnel of the first (`xray.go:245`,
  against the comment at 105-107). It takes two of six slots inside the start-up time
  of one Xray and the kernel handing out the same ephemeral port twice.
- `SamplingReserved`: the loop of `samplePreferredBySource` ends on the first pass
  that adds no route; with 13 curated routes of one source and 12 reserved slots some
  slots go to broader routes although curated ones are left (`importer.go:376`). The
  instance uses the number of slots in the code, since the defect depends on the sizes.
- `SamplingFull`: a pool that fills the limit exactly makes a limit of zero, which
  `samplePreferredBySource` reads as no limit (`importer.go:345`).
- `RefreshTrace`: the exit country comes from a second HTTPS request through the tunnel, with
  1.5 seconds of its own (`xray.go:116-125`). When it fails, the country is empty,
  `PublishCountryAllowed` refuses it (`importer.go:495`), and a published route that answered
  YouTube is dropped without its second attempt. "A single transient HTTPS/Xray failure must
  not evict a route that passed the previous publication" (`importer.go:473-474`).

The texts of the repository disagree about such a route. `importer.go:504-507` would show it
as automatic, `store.go:369-371` gives it a bucket of its own until a later check finds its
exit, and `TestStoreDoesNotDropVerifiedRoutesWhenCountryTraceIsUnavailable` keeps it; the
comment of `PublishCountryAllowed` says that an unidentified country is not published. The
model does what the code does, and `RefreshTrace` shows it. The passing properties of
`Refresh` leave the case open: `EvictionIsEarned` says nothing of a route with an unknown
exit, and `PublicationIsFresh` would accept one. The branch for unknown countries at 504-513
and their bucket in `countryBucket` are never reached through a checked refresh;
`Publication` reaches them through direct callers of `Replace`.

A limit below the published pool is a divergence no run shows: `selectRefreshCandidates` then
samples the pool (`importer.go:321`, the second case of `Selections`) and drops the rest
unprobed, although the comment at 312-314 says that the entire pool is rechecked. It takes an
`IMPORTER_MAX_CANDIDATES` lowered between launches; in the workflow 80 exceeds the cap of 64.
`EvictionIsEarned` is checked and proved for a limit that holds the pool, and its mutant,
which samples the pool with the rest, violates it.

**Bounds.** `CatalogStore`: a file may start empty, legacy or complete at revision 0 or 1
and two more catalogs be signed, so that one goroutine holds a catalog while file and
memory move on; the second body lets two signings of the same revision differ. Two
goroutines beside the importer suffice for the races, which are between one reader and one
writer of each process. `Refresh`: two feeds (a curated one and another, with a route in
common) and three routes reach every cause of eviction, a pool over the cap, a pool that
fills the limit, and more candidates than slots; refreshes repeat without bound, so the
catalogs a refresh starts from are those that refreshes made.
`Publication`: a second line of a feed gives duplicates within a feed and between feeds, in
both orders and against a saved route with or without a curated label; six routes over
unknown, nearby and farther countries go beyond the pool cap, the cap of a country and the
floor separately and together. `PublishWorkflow`: with two developer pushes a run that waits
and a job that runs can both fall behind; four revisions let several jobs follow each other,
and the lifetime is that of the code. `MaxRevision` and `MaxPushes` are named bounds.
`Sampling`: sizes are small but all of them are checked; the coverage properties
quantify over the first hour, which is what the stride argument depends on. `XrayProbe`:
a port race needs two slots, and slots are reused for call after call.
`Payments`: three invoices allow two of one account to overlap beside another account's, and
the second update of one to come before, between and after theirs; `Credit` exceeds a clock step so that entitlements overlap, and the clock runs long enough
for one to run out. `CHECK_DEADLOCK FALSE` is used where the system may really stop: a
torn file with no process up (two importers), the last hour of `Sampling`, the end of the clock.

**Fairness.** Go schedules runnable goroutines and `sync.RWMutex` starves no waiter, so
a goroutine of `CatalogStore` that finds the mutex free again and again gets it (strong
fairness on `CurrentStep`); file operations return (weak fairness); a stopped process is
restarted by its runtime. In `Refresh` downloads end by the client's timeout of 12
seconds and attempts by theirs of 10; the deadline itself is not assumed to come. In
`XrayProbe` only the goroutine and its timeout are fair: Xray is not. In `Payments` only
the provider's retries are assumed, and `PaidIsCredited` excuses what a restart loses. In
`PublishWorkflow` the schedule fires again and again, what waits is started, and a job
always ends, by its timeout if nothing else (weak fairness). That an attempt, its
preparation and its push succeed in the end if they are tried again and again is strong
fairness on the environment; `CatalogIsRenewed` shows that the workflow adds no obstacle of
its own, such as jobs that always start from a commit main has left. Developers push finitely
often: a push during every job would refuse every catalog.

## 4. Proofs

`CatalogStoreProofs`. The invariant `IInv` is the type invariant and `MutexInv`: a
goroutine between `Sign` and `Assign` holds the mutex of its process, holds the successor
of the catalog in memory, and after `Adopt` memory is at least as new as what was read.
`MutexInv` is what makes `Assign` safe: without it, a catalog signed on top of an older
memory could overwrite a newer one. From `IInv` follow, for any constants, `TypeCorrect`,
`AnswersAreFresh` and `NeverRollsBack`.

The other results hold only where one process imports. They are stated under the
assumption `SingleWriter` (an assumption of each theorem, not of the module), and use
`WriterInv`: the temporary file belongs to the goroutine that has it open (`TmpInv`), the
file is the newest published catalog and nothing unreadable (`FileInv`), memory is a
published catalog not newer than the file (`ViewInv`), and answers are published
(`AnswerInv`). These give `SnapshotIsReadable`, `AnswersAreDurable`, `RevisionsAreUnique`,
`AnswersGoForward`, and, with the refinement mapping of `CatalogStore`,
`StoreImplementsRegister`: `RenameTmp` is `Publish`, an `Adopt` that moves memory is
`Advance`, `Start` and `Stop` are `Begin` and `End`, and everything else stutters.

`PaymentsProofs`. `CreditedOnce` is not inductive: `UncreditedInv` adds that an update
the store would still credit has never been credited, since only a request that has not
been answered registers an invoice, and only an answered invoice is paid. Any number of
updates for an invoice is allowed. It is kept
through restarts because a restart forgets invoices together with processed updates.
`PaymentsAddUp` keeps the first and the last credit of an account as witnesses (`SpanInv`):
no credit is later than the clock (`TimesInv`), so a new one is the last.

`RefreshProofs`. `RefreshInv` joins to the type invariant what the steps of one check owe
each other: before the check there are no verdicts (`QuietInv`, without which a check
could begin with those of the last one); nothing is judged late before the context is
done, and what reaches `Replace` is judged completely and in time (`LateInv`); the
attempts of a route are those it has left and those it used (`AttemptInv`, without which
"accepted with an attempt to spare" is not inductive). `NothingPartialIsPublished`
and `PublishedIsFresh` follow for any feeds, routes, limits and slots.

The second part of the module adds what a check owes the catalog it started from. `CandidateInv`:
every candidate has the curated label it had or was given, and a worker without a checker
has only candidates the feeds list; hence `CuratedLabelsAreKept` and `UncheckedListsOnly`.
`PoolInv`: the whole pool is selected, with two attempts for each route; it needs
`LimitHoldsThePool`, an assumption of the theorem (see section 3 for what a smaller limit
does). With `AttemptInv` it gives `EvictionsAreEarned`; that the pool is full enough
where accepted routes are left out is a cardinality argument about `Kept`.

`RankingProofs`. The comparison given to `sort.Slice` is a strict order, total over routes
(`RankingIsStrictOrder`), and so is, up to equally good offers, the comparison of duplicates
(`BetterIsStrictOrder`): quality bands, latencies and throughput are lexicographic, with
unknown latency last. `SortIsDetermined` then shows that two sorted sequences of the same
servers are equal, by the first place where they would differ.

The loops of `Replace` are folds. `FoldExists` shows that the function a fold chooses
exists, so that the state after each element can be named; what holds of it is shown by
`Induction`, the minimality of a first element that breaks it (the library's induction
theorems take a predicate as a parameter, which the provers cannot instantiate). In this way
`UniqueKeepsTheBest`: after the loop over the candidates each route has one server, that
of one of its offers, and no offer of the route is better; the loop keeps of the candidates
so far a best one, and `BetterIsStrictOrder` carries that over a replacement. And
`SortHasOneResult`: building a sorting from the front never gets stuck, since a finite set
has a server that none is ranked before, and ends in one sequence.

For the pool the positions of the sorted servers are counted. A set of positions that has
with each position the earlier ones of its country is, in each country, all turns up to
their number (`FirstOfACountry`); the rounds are a strict total order (`RoundsAreAnOrder`),
of which the first `n` are `n` or all (`FirstOfOrder`); and filling up to the floor keeps
both (`PooledPositions`). A country with two servers more than another, or one more although
farther, has a server that comes later in the rounds than one left out of the other, which
the order of the rounds forbids: `PoolSharesThePool`. `CatalogHasOneResult` puts the steps
together, and `OrderOfOffersDoesNotShow` compares two orders of the same offers: the kept
servers are similar route by route, hence similar in sorted order (`SimilarSortings`), in
the positions chosen, and in the catalog.

`PublicationProofs`. The inductive invariant is the type invariant and that there are
finitely many candidates; the assumptions on the constants are that what is saved,
offered or measured is what the code can save, offer or measure (`PublicationAssumption`).
`MergeContinues` shows that each line keeps the candidates a merge of the catalog and the
lines so far (`IsMergeOf`), hence `ProvenanceIsKept`; the other properties of the run
follow from the theorems about `Ranking` (`BestIsPublished`, `PoolIsShared`,
`PublicationHasOneResult`). `OneOrderIsEnough` justifies the model itself: a check returns no
route twice, so that the one order in which `Check` lists its results stands for all.

One result of the proof is a condition in `PublicationIsDetermined`. Of two offers of a
route that measured the same the first stays, and its flag with it; a caller that replaces
from lines, which are not measured, can so publish one country or the other, and with it
another pool, depending on which line came first. `Refresh` offers each route once and is
not affected. The run has such a batch (`TwoFlags`), which violates the property if the
condition is dropped.

`PublishWorkflowProofs`. `WorkflowInv` adds to the type invariant `CommitInv` (a commit that
has not fallen behind has main's revision, and no commit has a later one) and `TreeInv` (a
tree ready to be pushed was signed by its job, in this hour or the last, and each attempt
that ended signed at most once, without which a job could sign more than two revisions).
Without `CommitInv` a refused push could not be told from one that would overwrite; with it
`DownloadsGoForward` and `GreenMeansFresh` follow for any lifetime, revisions and pushes.

`XrayProbeProofs`. `ProcessInv`: a call has no process before it starts one or after it
killed it, and what listens on a port is the live process of a call that was given that
port. The second part makes a call that is alone on its port reach no tunnel but its own
(`AloneJudgesItself`).

`SamplingProofs`. `SelectionInv` says that catalog and feeds are lists that name no route
twice and share none, and that what is selected is the selection of the last hour;
`HoursInv`, that every hour since the first has left its routes in `tried`. Everything else
is about one selection, or about the selections of several hours.

- *One selection.* The places of a sample are spread (`SpreadPlaces`) and then moved by
  the offset of the hour, which keeps them apart (`SampleIsSpread`); a sample of the routes
  not yet taken fills what the limit leaves (`SampleOfOthers`); the three samples of a
  selection are added up in `Selection`. Hence `SelectionIsAlwaysFull`. The first pass over the
  curated sources takes the route of each, if there is room, since a source is never offered
  the route of another (`FirstPass`); later passes lose nothing (`SourcesPassKeeps`). Hence
  `EverySourceHasItsTurn`.
- *The hours.* The search of a stride ends, since one of its candidates is coprime with every length
  (`StrideIsCoprime`); a factor coprime with a number can be cancelled where the number divides a
  product (`CoprimeFactor`, by the least multiple, as in Euclid's lemma); so the multiples of
  the stride leave every remainder (`StrideReachesAll`), consecutive hours reach every offset,
  and the first place of the sample, which is at the offset, reaches every candidate
  (`SampleReachesAll`). Hence `RotationCoversTheFeed`; and, since the first pass samples one
  route of each source by the same rotation, `RotationCoversCuratedSources`.
- *Two hours.* The next hour moves every place on by the stride (`PlaceMoves`); a set of places which that
  leaves as it is has all of them (`NoSetStays`), and a feed that does not fit has
  more. Hence `NoHourRepeats`.

Two theorems tie the exact operators to the choices that `Refresh` leaves open, by an
instance of `Refresh` in each module. `SelectionIsAlwaysAllowed`: what `Sampling` selects is a
member of `Selections`, in each of its cases (a catalog beyond the limit, one that fills it
exactly, one that leaves room). `PoolIsAllowed`, in `PublicationProofs`: the routes a
replacement publishes are a member of `Kept`. So what is proved of `Refresh` for every choice
holds of the choices the code makes.

The lemmas about folds are stated there once more: a proof about `Sampling` does not see the
module `Ranking`. The assumptions on the constants are that the limit and the reserve are
positive, as in the code, and that the curated labels differ from each other and from the
two labels the model gives the other routes. Integers do not overflow: the product in the
offset is of two numbers below the length of a list.

Model-checked only: liveness, since fairness and `ENABLED` are outside TLAPS's reach here
(`PublishedIsServed`, `RefreshEnds`, `ProbesEnd`, `PaidIsCredited`, `CatalogIsRenewed`). Every
invariant and every other property of a passing run is proved.

## 5. Not modelled

Parsing of URIs and addresses, base64 feeds, signatures, JSON; metrics of a probe; the key
generator, the container image.

The auth store: its methods are critical sections over maps in memory, for the account
stubs only; how a new code and a count of attempts interact is promised nowhere.

Durations below an hour. The comment at `cmd/publish/main.go:31` says that four minutes
cover the worst planned pass; 64 published routes with two attempts of ten seconds and 16
new ones with one are 1,440 seconds of probing, 240 in six slots, and the downloads (ten
feeds, four at a time, up to 12 seconds each) come on top. A pass that slow ends at the
deadline and publishes nothing (`NoPartialPublication`).

Power loss (no `fsync`); a change of the signing key; a push that lands although its job is
reported as failed, which only makes the catalog fresher than the job says. An importer
without a checker loses an update when `Replace` fails after the cache was committed
(`importer.go:184`); no command runs one. With two importers on one file, the file can be
torn and a revision can be signed twice; the modules say what survives, and the properties
that do not are stated for one importer.

## 6. Plan

1. Done: store, register and their proofs; refresh, with all its safety properties proved;
   sampling; ranking and publication, with theirs; the workflow and its proofs; Xray probe; payments.
2. Next modules: a composition of `Refresh` and `CatalogStore` in which `Refresh`'s
   `Current()` and `Replace` are the store's steps, and of `CatalogStore` and
   `PublishWorkflow` over `CatalogRegister`; the auth store; the store without a file.
3. Next proofs: safety of the compositions of item 2, from the theorems of their parts.
