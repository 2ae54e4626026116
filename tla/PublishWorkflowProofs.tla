----------------------- MODULE PublishWorkflowProofs -----------------------
(* What phones download, for any lifetime, revisions and developer pushes.  *)
EXTENDS PublishWorkflow, TLAPS

\* A commit a run waits for, or checked out, is main's, or main has moved on from
\* it and not back.
CommitInv ==
  /\ event.revision <= main.revision
  /\ queued /\ ~event.behind => event.revision = main.revision
  /\ base.revision <= main.revision
  /\ stage # "none" /\ ~base.behind => base.revision = main.revision

\* A tree goes forward from the commit it was checked out from, and what a job is
\* about to push was signed by it, within the hour it may straddle.  Each attempt that
\* ended signed at most one revision.
TreeInv ==
  /\ stage # "none" =>
       /\ tree.revision >= base.revision
       /\ tree.age <= IF straddles THEN 1 ELSE 0
  /\ stage \in {"prepare", "first"} => tree.revision = base.revision
  /\ stage = "second" => tree.revision <= base.revision + 1
  /\ stage = "push" => tree.revision > base.revision

WorkflowInv == TypeOK /\ CommitInv /\ TreeInv /\ GreenIsFresh

LEMMA OlderIsOlder ==
  ASSUME NEW age \in Ages
  PROVE  Older(age) \in Ages /\ age <= Older(age) /\ Older(age) <= age + 1
  BY WorkflowAssumption DEF Older, Ages

\* What the operators on commits and files return.
LEMMA BlanksAreTyped ==
  /\ NoCommit \in Commits /\ NoCommit.revision = 0 /\ NoCommit.behind = FALSE
  /\ NoFile \in Files /\ NoFile.revision = 0
  BY WorkflowAssumption DEF NoCommit, NoFile, Commits, Files, Revisions, Ages

LEMMA TriggerIsCurrent ==
  ASSUME TypeOK, Trigger
  PROVE  /\ queued' = TRUE /\ event' \in Commits
         /\ event'.revision = main.revision
  BY DEF TypeOK, Trigger, Head, Commits, Files

LEMMA EventStaysTyped ==
  ASSUME TypeOK, EventFallsBehind
  PROVE  /\ event' \in Commits /\ event'.revision = event.revision
         /\ queued => event'.behind = TRUE
  BY DEF TypeOK, EventFallsBehind, Commits

LEMMA WorkflowInit == Init => WorkflowInv
<1> SUFFICES ASSUME Init PROVE WorkflowInv
  OBVIOUS
<1>1. main \in Files /\ main.revision = 1 /\ main.age <= Lifetime
  BY WorkflowAssumption DEF Init, Files, Revisions, Ages
<1>2. /\ event = NoCommit /\ base = NoCommit /\ tree = NoFile /\ pushes = 0
      /\ stage = "none" /\ silent = Lifetime /\ queued = FALSE /\ straddles = FALSE
  BY DEF Init
<1>3. TypeOK
  <2>1. event \in Commits /\ base \in Commits /\ tree \in Files
    BY <1>2, BlanksAreTyped
  <2>2. silent \in Ages /\ pushes \in 0..MaxPushes
    BY <1>2, WorkflowAssumption DEF Ages
  <2>3. queued \in BOOLEAN /\ straddles \in BOOLEAN
    BY <1>2
  <2>4. tree.revision \in base.revision..(base.revision + 2)
    BY <1>2, BlanksAreTyped
  <2> QED BY <1>1, <1>2, <2>1, <2>2, <2>3, <2>4 DEF TypeOK
<1>4. CommitInv /\ TreeInv
  BY <1>1, <1>2, BlanksAreTyped DEF CommitInv, TreeInv
<1>5. GreenIsFresh
  BY <1>1, <1>2, WorkflowAssumption DEF GreenIsFresh, Files, Ages
<1> QED BY <1>3, <1>4, <1>5 DEF WorkflowInv

\* Between jobs there is no worker and no tree.
LEMMA NoJobLeft ==
  ASSUME JobEnds, TypeOK, main' \in Files, event' \in Commits, UNCHANGED <<pushes, queued>>,
         silent' \in Ages, main'.age <= silent' + 1, event'.revision <= main'.revision,
         queued /\ ~event'.behind => event'.revision = main'.revision
  PROVE  WorkflowInv'
<1>1. /\ base' \in Commits /\ tree' \in Files
      /\ base'.revision = 0 /\ tree'.revision = 0
  BY BlanksAreTyped DEF JobEnds
<1>2. stage' = "none" /\ straddles' = FALSE
  BY DEF JobEnds
<1>3. base'.revision <= main'.revision
  BY <1>1 DEF Files, Revisions
<1>4. tree'.revision \in base'.revision..(base'.revision + 2)
  BY <1>1
<1>5. TypeOK'
  BY <1>1, <1>2, <1>4 DEF TypeOK
<1>6. CommitInv'
  BY <1>1, <1>2, <1>3 DEF CommitInv
<1>7. TreeInv' /\ GreenIsFresh'
  BY <1>1, <1>2 DEF TreeInv, GreenIsFresh
<1> QED BY <1>5, <1>6, <1>7 DEF WorkflowInv

LEMMA WorkflowStep == WorkflowInv /\ [Next]_vars => WorkflowInv'
<1> SUFFICES ASSUME WorkflowInv, [Next]_vars PROVE WorkflowInv'
  OBVIOUS
<1> USE WorkflowAssumption
    DEF WorkflowInv, TypeOK, CommitInv, TreeInv, GreenIsFresh,
        Files, Commits, Revisions, Ages
<1>1. ASSUME NEW fires \in BOOLEAN, HourStrikes(fires) PROVE WorkflowInv'
  <2>1. /\ main' \in Files /\ main'.revision = main.revision
        /\ silent' \in Ages /\ main'.age <= silent' + 1
    BY <1>1 DEF HourStrikes, Older
  <2>2. /\ tree' \in Files /\ tree'.revision = tree.revision
        /\ stage # "none" => tree'.age <= 1
    BY <1>1 DEF HourStrikes, Older
  <2>3. /\ event' \in Commits /\ event'.revision <= main'.revision
        /\ queued' \in BOOLEAN
        /\ queued' /\ ~event'.behind => event'.revision = main'.revision
    <3>1. CASE Trigger
      <4>1. TypeOK /\ main.revision \in Nat /\ main'.revision = main.revision
        BY <2>1
      <4> HIDE DEF TypeOK, Commits
      <4> QED BY <3>1, <4>1, TriggerIsCurrent
    <3>2. CASE UNCHANGED <<queued, event>>
      BY <2>1, <3>2
    <3>3. Trigger \/ UNCHANGED <<queued, event>>
      BY <1>1, Zenon DEF HourStrikes
    <3> QED BY <3>1, <3>2, <3>3
  <2>4. straddles' \in BOOLEAN /\ (stage # "none" => straddles')
    BY <1>1 DEF HourStrikes
  <2>5. UNCHANGED <<pushes, stage, base>>
    BY <1>1 DEF HourStrikes
  <2> QED BY <2>1, <2>2, <2>3, <2>4, <2>5
<1>2. ASSUME NEW matches \in BOOLEAN, DeveloperPushes(matches) PROVE WorkflowInv'
  <2>1. /\ base' \in Commits /\ base'.revision = base.revision
        /\ stage # "none" => base'.behind
    BY <1>2 DEF DeveloperPushes
  <2>2. /\ event' \in Commits /\ event'.revision <= main.revision
        /\ queued' \in BOOLEAN
        /\ queued' /\ ~event'.behind => event'.revision = main.revision
    <3>1. CASE Trigger
      <4>1. TypeOK /\ main.revision \in Nat
        OBVIOUS
      <4> HIDE DEF TypeOK, Commits
      <4> QED BY <3>1, <4>1, TriggerIsCurrent
    <3>2. CASE EventFallsBehind /\ UNCHANGED queued
      BY <3>2, EventStaysTyped
    <3>3. Trigger \/ (EventFallsBehind /\ UNCHANGED queued)
      BY <1>2, Zenon DEF DeveloperPushes
    <3> QED BY <3>1, <3>2, <3>3
  <2>3. pushes' \in 0..MaxPushes /\ UNCHANGED <<main, stage, tree, straddles, silent>>
    BY <1>2 DEF DeveloperPushes
  <2> QED BY <2>1, <2>2, <2>3
<1>3. CASE Dispatch
  <2>1. UNCHANGED <<main, pushes, stage, base, tree, straddles, silent>>
    BY <1>3 DEF Dispatch, job
  <2>2. queued' = TRUE /\ event' \in Commits /\ event'.revision = main.revision
    BY <1>3, TriggerIsCurrent DEF Dispatch
  <2> QED BY <2>1, <2>2
<1>4. CASE StartJob
  <2>1. /\ event' = NoCommit /\ queued' = FALSE /\ base' = event
        /\ UNCHANGED <<main, pushes, silent>>
    BY <1>4 DEF StartJob
  <2>2. /\ tree' \in Files /\ tree'.revision = base'.revision /\ tree'.age = 0
        /\ stage' = "prepare" /\ straddles' = FALSE
    BY <1>4 DEF StartJob
  <2>3. ~base'.behind => base'.revision = main'.revision
    BY <1>4, <2>1 DEF StartJob
  <2>4. event' \in Commits /\ event'.revision = 0
    BY <2>1, BlanksAreTyped
  <2>5. queued' \in BOOLEAN /\ straddles' \in BOOLEAN /\ ~queued'
    BY <2>1, <2>2
  <2> QED BY <2>1, <2>2, <2>3, <2>4, <2>5
<1>5. CASE Prepare
  BY <1>5 DEF Prepare, job
<1>6. CASE AttemptPublishes
  BY <1>6 DEF AttemptPublishes, Attempting, Signs
<1>7. CASE AttemptFails
  BY <1>7 DEF AttemptFails, Attempting, NextAttempt, job
<1>8. CASE AttemptDies
  BY <1>8 DEF AttemptDies, Attempting, Signs, NextAttempt
<1>9. CASE PushCatalog
  <2>1. JobEnds /\ silent' = 0 /\ UNCHANGED <<pushes, queued>>
    BY <1>9 DEF PushCatalog, Green
  <2>2. tree.revision > base.revision /\ tree.age <= 1 /\ base.revision = main.revision
    BY <1>9 DEF PushCatalog
  <2>3. main' = tree /\ event' = [event EXCEPT !.behind = queued]
    BY <1>9, <2>2 DEF PushCatalog, EventFallsBehind
  <2> QED BY <2>1, <2>2, <2>3, NoJobLeft
<1>10. CASE JobFails
  <2>1. JobEnds /\ UNCHANGED <<main, pushes, queued, event, silent>>
    BY <1>10 DEF JobFails
  <2> QED BY <2>1, NoJobLeft
<1>11. CASE UNCHANGED vars
  BY <1>11 DEF vars, job
<1> QED BY <1>1, <1>2, <1>3, <1>4, <1>5, <1>6, <1>7, <1>8, <1>9, <1>10, <1>11
        DEF Next, JobStep

THEOREM WorkflowInvHolds == Spec => []WorkflowInv
  BY WorkflowInit, WorkflowStep, PTL DEF Spec

\* The workflow keeps its types.
THEOREM WorkflowTypeCorrect == Spec => []TypeOK
<1>1. WorkflowInv => TypeOK
  BY DEF WorkflowInv
<1> QED BY WorkflowInvHolds, <1>1, PTL

\* A green job means a catalog that is renewed, for any lifetime.
THEOREM GreenMeansFresh == Spec => []GreenIsFresh
<1>1. WorkflowInv => GreenIsFresh
  BY DEF WorkflowInv
<1> QED BY WorkflowInvHolds, <1>1, PTL

\* The catalog on the branch changes only to one of a later revision, from whichever
\* commits the jobs start and however their pushes end.
THEOREM DownloadsGoForward == Spec => RevisionsGoForward
<1> DEFINE Forward == main'.revision # main.revision \/ main'.age < main.age =>
                        main'.revision > main.revision
<1>1. WorkflowInv /\ [Next]_vars => [Forward]_vars
  <2> SUFFICES ASSUME WorkflowInv, Next PROVE Forward
    OBVIOUS
  <2> USE DEF WorkflowInv, TypeOK, CommitInv, TreeInv, Files, Commits, Revisions, Ages
  <2>1. ASSUME NEW fires \in BOOLEAN, HourStrikes(fires) PROVE Forward
    BY <2>1, OlderIsOlder DEF HourStrikes
  <2>2. CASE PushCatalog
    BY <2>2 DEF PushCatalog
  <2>3. CASE UNCHANGED main
    BY <2>3
  <2> QED BY <2>1, <2>2, <2>3
          DEF Next, JobStep, DeveloperPushes, Dispatch, StartJob, Prepare,
              AttemptPublishes, AttemptFails, AttemptDies, JobFails
<1> QED BY WorkflowInvHolds, <1>1, PTL DEF Spec, RevisionsGoForward
=============================================================================
