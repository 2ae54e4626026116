-------------------------- MODULE PublishWorkflow --------------------------
(***************************************************************************)
(* The worker that renews the published catalog: the steps of              *)
(* src/.github/workflows/refresh-catalog.yml around two runs of            *)
(* cmd/publish, and public/catalog.json on the main branch, which phones   *)
(* download.  A catalog is its revision and its age in whole hours, which  *)
(* is not counted beyond its lifetime.                                     *)
(***************************************************************************)
EXTENDS Integers

CONSTANTS
  Lifetime,    \* hours from IssuedAt to ExpiresAt
  MaxRevision, \* bound: revisions signed
  MaxPushes    \* bound: commits of developers

ASSUME WorkflowAssumption ==
  Lifetime \in Nat \ {0, 1} /\ MaxRevision \in Nat \ {0} /\ MaxPushes \in Nat

VARIABLES
  main,     \* revision and age of the catalog on the branch
  pushes,   \* commits of developers so far
  queued,   \* whether the concurrency group has a run waiting
  event,    \* the commit that run is for: its revision, and whether main has moved on
  stage,    \* "none", "prepare", "first", "second", "failed", "push": where the running job is
  base,     \* the commit it checked out
  tree,     \* its public/catalog.json; the age counts once the job has signed it
  straddles,\* whether an hour struck since it started
  silent    \* history: hours since a job was last reported green

job  == <<base, tree, straddles>>
vars == <<main, pushes, queued, event, stage, job, silent>>

-----------------------------------------------------------------------------
\* Bound: ages stop at the lifetime, which is all that matters to a catalog that expired.
Older(age) == IF age < Lifetime THEN age + 1 ELSE age

NoCommit == [revision |-> 0, behind |-> FALSE]
NoFile   == [revision |-> 0, age |-> 0]
Head     == [revision |-> main.revision, behind |-> FALSE]

Init ==
  /\ main \in [revision : {1}, age : 0..Lifetime]
  /\ pushes = 0
  /\ queued = FALSE /\ event = NoCommit
  /\ stage = "none" /\ base = NoCommit /\ tree = NoFile /\ straddles = FALSE
  /\ silent = Lifetime

\* A run for the head of main waits for the concurrency group; a run that waited
\* already gives way to it.
Trigger == queued' = TRUE /\ event' = Head

\* Main gets another commit than the one a run waits for.
EventFallsBehind == event' = [event EXCEPT !.behind = queued]

\* The cron expression fires once an hour, unless GitHub drops it under load.  A job
\* ends within its eleven minutes, so that no two hours strike while it runs.
HourStrikes(fires) ==
  /\ stage # "none" => ~straddles
  /\ main' = [main EXCEPT !.age = Older(@)]
  /\ tree' = IF stage = "none" THEN tree ELSE [tree EXCEPT !.age = Older(@)]
  /\ silent' = Older(silent)
  /\ straddles' = (stage # "none")
  /\ IF fires THEN Trigger ELSE UNCHANGED <<queued, event>>
  /\ UNCHANGED <<pushes, stage, base>>

\* A developer dispatches the workflow by hand.
Dispatch ==
  /\ Trigger
  /\ UNCHANGED <<main, pushes, stage, job, silent>>

\* A developer pushes: commits that are waiting or checked out fall behind.  Only a
\* push to the paths of the workflow starts it.
DeveloperPushes(matches) ==
  /\ pushes < MaxPushes
  /\ pushes' = pushes + 1
  /\ base' = [base EXCEPT !.behind = (stage # "none")]
  /\ IF matches THEN Trigger ELSE EventFallsBehind /\ UNCHANGED queued
  /\ UNCHANGED <<main, stage, tree, straddles, silent>>

\* One job of the concurrency group at a time; actions/checkout takes the commit of
\* the event, not the head of the branch.
StartJob ==
  /\ queued /\ stage = "none"
  /\ stage' = "prepare"
  /\ base' = event
  /\ tree' = [revision |-> event.revision, age |-> 0]
  /\ straddles' = FALSE
  /\ queued' = FALSE /\ event' = NoCommit
  /\ UNCHANGED <<main, pushes, silent>>

\* Go, the tests and the Xray core are in place.
Prepare ==
  /\ stage = "prepare"
  /\ stage' = "first"
  /\ UNCHANGED <<main, pushes, queued, event, job, silent>>

-----------------------------------------------------------------------------
(* Two attempts of cmd/publish.                                            *)

Attempting == stage \in {"first", "second"}

\* Replace persists the successor of the revision it read.
Signs ==
  /\ tree.revision < MaxRevision
  /\ tree' = [revision |-> tree.revision + 1, age |-> 0]

\* Refresh succeeds and the publisher exits with 0.
AttemptPublishes ==
  /\ Attempting
  /\ Signs
  /\ stage' = "push"
  /\ UNCHANGED <<main, pushes, queued, event, base, straddles, silent>>

\* Mutant of NextAttempt: the loop of the step does not count.
NextAttemptForever == stage' = "second"

\* The attempt exits with 1.  After the second one the step does, and the job can
\* only fail.
NextAttempt == stage' = IF stage = "first" THEN "second" ELSE "failed"

\* Mutant of AttemptFails: the step ends with the loop, that is, successfully.
AttemptFailsQuietly ==
  /\ Attempting
  /\ stage' = IF stage = "first" THEN "second" ELSE "push"
  /\ UNCHANGED <<main, pushes, queued, event, job, silent>>

\* Refresh fails: the file is kept, and the publisher exits with 1.
AttemptFails ==
  /\ Attempting
  /\ NextAttempt
  /\ UNCHANGED <<main, pushes, queued, event, job, silent>>

\* The publisher is killed after the rename; the next attempt signs on top.
AttemptDies ==
  /\ Attempting
  /\ Signs
  /\ NextAttempt
  /\ UNCHANGED <<main, pushes, queued, event, base, straddles, silent>>

-----------------------------------------------------------------------------
(* The end of a job.                                                       *)

\* The worker and its tree are thrown away.
JobEnds == stage' = "none" /\ base' = NoCommit /\ tree' = NoFile /\ straddles' = FALSE

Green == JobEnds /\ silent' = 0

\* Mutant of PushCatalog: git push --force.
ForcePushCatalog ==
  /\ stage = "push"
  /\ Green
  /\ main' = IF tree.revision = base.revision THEN main ELSE tree
  /\ EventFallsBehind
  /\ UNCHANGED <<pushes, queued>>

\* Mutant of PushCatalog: the commit is never pushed.
CommitCatalog ==
  /\ stage = "push"
  /\ ~base.behind
  /\ Green
  /\ UNCHANGED <<main, event, pushes, queued>>

\* A clean tree is left alone; otherwise commit and push, which git accepts only if
\* main is still at the commit the job checked out.
PushCatalog ==
  /\ stage = "push"
  /\ ~base.behind
  /\ Green
  /\ IF tree.revision = base.revision THEN UNCHANGED <<main, event>>
     ELSE main' = tree /\ EventFallsBehind
  /\ UNCHANGED <<pushes, queued>>

\* Any step fails, a push that is refused included, or the timeout of the job comes.
JobFails ==
  /\ stage # "none"
  /\ JobEnds
  /\ UNCHANGED <<main, pushes, queued, event, silent>>

-----------------------------------------------------------------------------
JobStep == Prepare \/ AttemptPublishes \/ AttemptFails \/ AttemptDies \/ PushCatalog

Next ==
  \/ \E b \in BOOLEAN : HourStrikes(b) \/ DeveloperPushes(b)
  \/ Dispatch \/ StartJob \/ JobStep \/ JobFails

Spec == Init /\ [][Next]_vars

\* GitHub fires the schedule again and again and runs what waits, and a job always
\* ends.  A refresh and a push that are tried again and again succeed at some time.
Fairness ==
  /\ SF_vars(HourStrikes(TRUE)) /\ WF_vars(StartJob) /\ WF_vars(JobStep \/ JobFails)
  /\ SF_vars(Prepare) /\ SF_vars(AttemptPublishes) /\ SF_vars(PushCatalog)

FairSpec == Spec /\ Fairness

-----------------------------------------------------------------------------
(* Properties.                                                             *)

Revisions == 0..MaxRevision
Ages      == 0..Lifetime
Commits   == [revision : Revisions, behind : BOOLEAN]
Files     == [revision : Revisions, age : Ages]

\* The values of the variables.  A job signs at most twice, once in each attempt, so
\* that what it pushes is one or two revisions ahead of the commit it checked out.
TypeOK ==
  /\ main \in Files /\ tree \in Files
  /\ event \in Commits /\ base \in Commits
  /\ tree.revision \in base.revision..(base.revision + 2)
  /\ pushes \in 0..MaxPushes /\ silent \in Ages
  /\ stage \in {"none", "prepare", "first", "second", "failed", "push"}
  /\ queued \in BOOLEAN /\ straddles \in BOOLEAN

\* What phones download never goes back, nor is one revision replaced by another
\* catalog of the same revision, although jobs start from commits main has moved on
\* from, and a catalog whose push was refused is signed again with its revision.
RevisionsGoForward ==
  [][main'.revision # main.revision \/ main'.age < main.age =>
       main'.revision > main.revision]_vars

\* "Make a missed refresh visible in Actions" (cmd/publish): a green job has renewed
\* the catalog.  What is served is at most an hour older than the last green job, so
\* that it expires only when no job has been green for all its lifetime but an hour.
GreenIsFresh == main.age <= silent + 1

\* Failed refreshes, refused pushes, lost events and jobs that start from an old commit
\* delay the catalog but never stop it from being renewed.
CatalogIsRenewed == \A n \in 1..MaxRevision : <>(main.revision >= n)
=============================================================================
