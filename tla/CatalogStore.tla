---------------------------- MODULE CatalogStore ----------------------------
(***************************************************************************)
(* MemoryStore of internal/catalog/store.go, as several processes use it:  *)
(* each process keeps one store in memory, every store persists to the     *)
(* same revisionFile, and the HTTP handler GET /v1/catalog answers with    *)
(* what Current() returns.                                                 *)
(*                                                                         *)
(* A signed catalog is a revision and a body; the body stands for the      *)
(* server list, the two timestamps and the signature over them, and NoBody *)
(* is the revision-only catalog of a legacy snapshot or of a new store.    *)
(* The steps of a call are the points where another goroutine, another     *)
(* process or a crash can come between: every file operation, and every    *)
(* critical section of the store's mutex.                                  *)
(***************************************************************************)
EXTENDS Naturals

CONSTANTS
  Procs,        \* processes sharing the snapshot file (API, checker)
  Threads,      \* goroutines, in any of the processes
  Home,         \* Home[t] is the process of goroutine t
  Importers,    \* the goroutines that call Replace
  Bodies,       \* bodies a signed catalog can have
  NoBody,       \* the body of a catalog without servers
  NoThread,     \* the mutex is free
  MaxRevision,  \* bound: revisions signed
  MaxInitial    \* bound: revision of the file found at the start

ASSUME StoreAssumption ==
  /\ Home \in [Threads -> Procs]
  /\ Importers \subseteq Threads
  /\ NoBody \notin Bodies
  /\ NoThread \notin Threads
  /\ MaxRevision \in Nat
  /\ MaxInitial \in Nat

VARIABLES
  file,      \* content of revisionFile
  tmp,       \* content of revisionFile + ".tmp"
  fd,        \* what the inode a goroutine has open for writing is linked as
  up,        \* which processes run
  current,   \* MemoryStore.current of each process
  mu,        \* holder of MemoryStore.mu of each process across steps
  pc,        \* where each goroutine is
  held,      \* the catalog a goroutine read (Current) or signed (Replace)
  published, \* history: every catalog that was the content of revisionFile
  answers,   \* history: every catalog a handler answered with
  answered   \* history: the revision of each process's latest answer

vars == <<file, tmp, fd, up, current, mu, pc, held, published, answers, answered>>
files == <<file, tmp, fd, published>>
history == <<answers, answered>>

-----------------------------------------------------------------------------
Signed   == [rev : Nat \ {0}, body : Bodies]
Catalog  == Signed \cup [rev : Nat, body : {NoBody}]
Snapshot ==
  [kind : {"catalog"}, rev : Nat \ {0}, body : Bodies]
    \cup [kind : {"missing", "empty", "torn", "legacy"},
          rev : Nat, body : {NoBody}]

Blank == [rev |-> 0, body |-> NoBody]

Unreadable(kind) == [kind |-> kind, rev |-> 0, body |-> NoBody]
Missing   == Unreadable("missing")
EmptyFile == Unreadable("empty")
Torn      == Unreadable("torn")

\* json.Marshal of a signed catalog, and what readSnapshot recovers: the whole
\* catalog of a schema-4 file, the revision alone of a legacy one.
SaveOf(c) == [kind |-> "catalog", rev |-> c.rev, body |-> c.body]
Loaded(s) == [rev |-> s.rev, body |-> s.body]

\* NewPersistentMemoryStore returns a store: no file is a new store, and only a
\* file that neither parses nor verifies is an error.
Restorable(s) == s.kind \in {"missing", "legacy", "catalog"}

InitialFiles ==
  {Missing}
    \cup [kind : {"legacy"}, rev : 0..MaxInitial, body : {NoBody}]
    \cup [kind : {"catalog"}, rev : 1..MaxInitial, body : Bodies]

Init ==
  /\ file \in InitialFiles
  /\ tmp = Missing
  /\ fd = [t \in Threads |-> "closed"]
  /\ up = [p \in Procs |-> FALSE]
  /\ current = [p \in Procs |-> Blank]
  /\ mu = [p \in Procs |-> NoThread]
  /\ pc = [t \in Threads |-> "idle"]
  /\ held = [t \in Threads |-> Blank]
  /\ published = {Loaded(file)}
  /\ answers = {}
  /\ answered = [p \in Procs |-> 0]

-----------------------------------------------------------------------------
(* Current(), called by the handler of GET /v1/catalog and by Refresh.     *)

\* readSnapshot outside the mutex: only a complete, verified catalog is kept.
ReadFile(t) ==
  /\ pc[t] = "idle"
  /\ up[Home[t]]
  /\ IF file.kind = "catalog"
       THEN /\ held' = [held EXCEPT ![t] = Loaded(file)]
            /\ pc' = [pc EXCEPT ![t] = "adopt"]
       ELSE /\ pc' = [pc EXCEPT ![t] = "return"]
            /\ UNCHANGED held
  /\ UNCHANGED <<files, up, current, mu, history>>

\* Mutants of Newer: any other revision is adopted; the next revision is not;
\* only an older one is.
NewerIfOther(c, d)  == c.rev # d.rev
NewerByTwo(c, d)    == c.rev > d.rev + 1
NewerIfOlder(c, d)  == c.rev < d.rev

\* The file may have moved on, or Replace may have run, since ReadFile.
Newer(c, d) == c.rev > d.rev

Adopt(t) ==
  LET p == Home[t] IN
  /\ pc[t] = "adopt"
  /\ mu[p] = NoThread
  /\ current' = IF Newer(held[t], current[p])
                  THEN [current EXCEPT ![p] = held[t]] ELSE current
  /\ pc' = [pc EXCEPT ![t] = "return"]
  /\ UNCHANGED <<files, up, mu, held, history>>

\* Mutant of Return: a handler that does not look whether there are servers.
ReturnAnything(t) ==
  LET p == Home[t] IN
  /\ pc[t] = "return"
  /\ mu[p] = NoThread
  /\ answers' = answers \cup {current[p]}
  /\ answered' = [answered EXCEPT ![p] = current[p].rev]
  /\ pc' = [pc EXCEPT ![t] = "idle"]
  /\ held' = [held EXCEPT ![t] = Blank]
  /\ UNCHANGED <<files, up, current, mu>>

\* RLock and return; the handler answers 503 while there are no servers.
Return(t) ==
  LET p == Home[t] IN
  /\ pc[t] = "return"
  /\ mu[p] = NoThread
  /\ IF current[p].body = NoBody
       THEN UNCHANGED history
       ELSE /\ answers' = answers \cup {current[p]}
            /\ answered' = [answered EXCEPT ![p] = current[p].rev]
  /\ pc' = [pc EXCEPT ![t] = "idle"]
  /\ held' = [held EXCEPT ![t] = Blank]
  /\ UNCHANGED <<files, up, current, mu>>

-----------------------------------------------------------------------------
(* Replace(), which keeps the mutex until it returns.                      *)

\* Mutants of Successor: the revision of the catalog in memory is signed again;
\* the revision skips one.
SuccessorAgain(c, b)  == [rev |-> IF c.rev = 0 THEN 1 ELSE c.rev, body |-> b]
SuccessorSkips(c, b)  == [rev |-> c.rev + 2, body |-> b]

\* Lock and sign the successor of the catalog in memory.
Successor(c, b) == [rev |-> c.rev + 1, body |-> b]

\* Mutant of Sign: the catalog is in memory, and the mutex free, before it is
\* on disk.
SignAndAssign(t, b) ==
  LET p == Home[t] IN
  /\ pc[t] = "idle"
  /\ up[p]
  /\ mu[p] = NoThread
  /\ current[p].rev < MaxRevision
  /\ held' = [held EXCEPT ![t] = Successor(current[p], b)]
  /\ current' = [current EXCEPT ![p] = Successor(current[p], b)]
  /\ pc' = [pc EXCEPT ![t] = "open"]
  /\ UNCHANGED <<files, up, mu, history>>

Sign(t, b) ==
  LET p == Home[t] IN
  /\ pc[t] = "idle"
  /\ up[p]
  /\ mu[p] = NoThread
  /\ current[p].rev < MaxRevision
  /\ mu' = [mu EXCEPT ![p] = t]
  /\ held' = [held EXCEPT ![t] = Successor(current[p], b)]
  /\ pc' = [pc EXCEPT ![t] = "open"]
  /\ UNCHANGED <<files, up, current, history>>

\* Mutant of OpenTmp: the snapshot is written in place.
OpenInPlace(t) ==
  /\ pc[t] = "open"
  /\ file' = EmptyFile
  /\ tmp' = Missing
  /\ fd' = [fd EXCEPT ![t] = "file"]
  /\ pc' = [pc EXCEPT ![t] = "write"]
  /\ UNCHANGED <<published, up, current, mu, held, history>>

\* os.WriteFile opens with O_CREATE|O_TRUNC: whoever has the temporary file
\* open sees it emptied.
OpenTmp(t) ==
  /\ pc[t] = "open"
  /\ tmp' = EmptyFile
  /\ fd' = [fd EXCEPT ![t] = "tmp"]
  /\ pc' = [pc EXCEPT ![t] = "write"]
  /\ UNCHANGED <<file, published, up, current, mu, held, history>>

\* A write at offset 0 of an inode another process filled in the meantime may
\* leave the tail of the longer text behind.
Overwrite(old, new) == IF old.kind = "empty" THEN {new} ELSE {new, Torn}

WriteTmp(t) ==
  /\ pc[t] = "write"
  /\ \/ /\ fd[t] = "tmp"
        /\ tmp' \in Overwrite(tmp, SaveOf(held[t]))
        /\ UNCHANGED file
     \/ /\ fd[t] = "file"
        /\ file' \in Overwrite(file, SaveOf(held[t]))
        /\ UNCHANGED tmp
     \/ /\ fd[t] = "orphan"
        /\ UNCHANGED <<file, tmp>>
  /\ fd' = [fd EXCEPT ![t] = "closed"]
  /\ pc' = [pc EXCEPT ![t] = "rename"]
  /\ UNCHANGED <<published, up, current, mu, held, history>>

\* os.Rename relinks the inode: a goroutine still writing the temporary file
\* is now writing the live one, and the replaced inode has no name.
Relinked(link) ==
  CASE link = "tmp" -> "file" [] link = "file" -> "orphan" [] OTHER -> link

RenameTmp(t) ==
  /\ pc[t] = "rename"
  /\ tmp # Missing
  /\ file' = tmp
  /\ tmp' = Missing
  /\ fd' = [s \in Threads |-> Relinked(fd[s])]
  /\ published' = published \cup {Loaded(tmp)}
  /\ pc' = [pc EXCEPT ![t] = "assign"]
  /\ UNCHANGED <<up, current, mu, held, history>>

Assign(t) ==
  LET p == Home[t] IN
  /\ pc[t] = "assign"
  /\ current' = [current EXCEPT ![p] = held[t]]
  /\ mu' = [mu EXCEPT ![p] = NoThread]
  /\ pc' = [pc EXCEPT ![t] = "idle"]
  /\ held' = [held EXCEPT ![t] = Blank]
  /\ UNCHANGED <<files, up, history>>

\* persistSnapshot returns an error: the directory or the temporary file cannot
\* be made, the write stops at some point, or the rename finds nothing to rename.
PersistFails(t) ==
  LET p == Home[t] IN
  /\ \/ /\ pc[t] \in {"open", "rename"}
        /\ UNCHANGED <<file, tmp>>
     \/ /\ pc[t] = "write"
        /\ tmp' \in IF fd[t] = "tmp" THEN {tmp, Torn} ELSE {tmp}
        /\ file' \in IF fd[t] = "file" THEN {file, Torn} ELSE {file}
  /\ fd' = [fd EXCEPT ![t] = "closed"]
  /\ mu' = [mu EXCEPT ![p] = NoThread]
  /\ pc' = [pc EXCEPT ![t] = "idle"]
  /\ held' = [held EXCEPT ![t] = Blank]
  /\ UNCHANGED <<published, up, current, history>>

-----------------------------------------------------------------------------
(* Processes start and stop at any point of any call.                      *)

\* Mutant of Start: the store of a new process is empty whatever the file holds.
StartEmpty(p) ==
  /\ ~up[p]
  /\ Restorable(file)
  /\ up' = [up EXCEPT ![p] = TRUE]
  /\ UNCHANGED <<files, current, mu, pc, held, history>>

\* NewPersistentMemoryStore; main exits when it returns an error.
Start(p) ==
  /\ ~up[p]
  /\ Restorable(file)
  /\ up' = [up EXCEPT ![p] = TRUE]
  /\ current' = [current EXCEPT ![p] = Loaded(file)]
  /\ UNCHANGED <<files, mu, pc, held, history>>

Stop(p) ==
  /\ up[p]
  /\ up' = [up EXCEPT ![p] = FALSE]
  /\ current' = [current EXCEPT ![p] = Blank]
  /\ mu' = [mu EXCEPT ![p] = NoThread]
  /\ fd' = [t \in Threads |-> IF Home[t] = p THEN "closed" ELSE fd[t]]
  /\ pc' = [t \in Threads |-> IF Home[t] = p THEN "idle" ELSE pc[t]]
  /\ held' = [t \in Threads |-> IF Home[t] = p THEN Blank ELSE held[t]]
  /\ UNCHANGED <<file, tmp, published, history>>

CurrentStep(t) == ReadFile(t) \/ Adopt(t) \/ Return(t)

ReplaceStep(t) ==
  \/ OpenTmp(t) \/ WriteTmp(t) \/ RenameTmp(t) \/ Assign(t) \/ PersistFails(t)

Next ==
  \/ \E t \in Threads : CurrentStep(t)
  \/ \E t \in Importers : ReplaceStep(t) \/ \E b \in Bodies : Sign(t, b)
  \/ \E p \in Procs : Start(p) \/ Stop(p)

Spec == Init /\ [][Next]_vars

\* Go schedules every runnable goroutine and clients keep polling, the file
\* system answers every call, and the container runtime restarts a process
\* that stopped.  sync.RWMutex lets no waiter starve, so a goroutine that
\* finds the mutex free again and again gets it (strong fairness).  Nobody is
\* obliged to import, to fail or to stop.
Fairness ==
  /\ \A t \in Threads : SF_vars(CurrentStep(t))
  /\ \A t \in Importers : WF_vars(ReplaceStep(t))
  /\ \A p \in Procs : WF_vars(Start(p))

FairSpec == Spec /\ Fairness

-----------------------------------------------------------------------------
(* Properties.                                                             *)

\* The state has its types; an answer is a signed catalog with servers.
TypeOK ==
  /\ file \in Snapshot
  /\ tmp \in Snapshot
  /\ fd \in [Threads -> {"closed", "tmp", "file", "orphan"}]
  /\ up \in [Procs -> BOOLEAN]
  /\ current \in [Procs -> Catalog]
  /\ mu \in [Procs -> Threads \cup {NoThread}]
  /\ pc \in [Threads -> {"idle", "adopt", "return",
                         "open", "write", "rename", "assign"}]
  /\ held \in [Threads -> Catalog]
  /\ published \subseteq Catalog
  /\ answers \subseteq Signed
  /\ answered \in [Procs -> Nat]

\* While a process runs, the catalog it has in memory never goes back to an
\* older revision, whatever it reads from the file after another call moved it
\* on.  Holds with any number of importing processes.
NoRollback ==
  [][\A p \in Procs :
       up[p] /\ up'[p] => current'[p].rev >= current[p].rev]_vars

\* Current() answers with a catalog at least as new as the one the file held
\* when it was read: a slow handler does not serve a stale catalog.  Holds with
\* any number of importing processes.
FreshAnswer ==
  \A t \in Threads :
    pc[t] = "return" => current[Home[t]].rev >= held[t].rev

\* Where only one process imports, at every instant of every Replace, the file
\* is one that a process killed now can be restarted from.
ReadableSnapshot == Restorable(file)

\* Where only one process imports, what a handler answered is on disk: a crash
\* of any process at any point cannot lose it.
AnsweredIsDurable == \A p \in Procs : answered[p] <= file.rev

\* Where only one process imports, two answers with the same revision are the
\* same catalog, whichever processes gave them and whatever Replace failed or
\* crashed in between: a client can order catalogs by their revision.
OneCatalogPerRevision ==
  \A c, d \in answers : c.rev = d.rev => c = d

\* Where only one process imports, the answers of a process never go back to an
\* older revision, its own restarts included.
AnswersNeverRegress ==
  [][\A p \in Procs : answered'[p] >= answered[p]]_vars

\* Where only one process imports, the stores implement the register that
\* CatalogRegister describes, its content being the file's.
Register == INSTANCE CatalogRegister WITH
  latest <- Loaded(file), past <- published, running <- up, view <- current

ImplementsRegister == Register!Spec

\* A published catalog reaches every process that serves requests and stays up
\* from some point on: the API process does not stay on a stale catalog
\* although another process imports.
Serving == {Home[t] : t \in Threads \ Importers}

PublishedIsServed ==
  \A p \in Serving :
    <>[]up[p] =>
      \A n \in 1..MaxRevision :
        (file.kind = "catalog" /\ file.rev >= n) ~> answered[p] >= n
=============================================================================
