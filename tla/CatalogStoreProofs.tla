------------------------- MODULE CatalogStoreProofs -------------------------
(* Proofs about CatalogStore, for every number of processes, goroutines and   *)
(* bodies.                                                                    *)
EXTENDS CatalogStore, TLAPS

-----------------------------------------------------------------------------
(* The inductive invariant.                                                  *)

Replacing == {"open", "write", "rename", "assign"}

\* A goroutine inside Replace holds the mutex of its process, and signs the
\* successor of the catalog that process has in memory.
MutexInv ==
  \A t \in Threads :
    /\ pc[t] # "idle" => up[Home[t]]
    /\ pc[t] = "idle" => held[t] = Blank
    /\ pc[t] = "return" => held[t].rev <= current[Home[t]].rev
    /\ pc[t] \in Replacing =>
         /\ t \in Importers
         /\ mu[Home[t]] = t
         /\ held[t] \in Signed
         /\ held[t].rev = current[Home[t]].rev + 1

\* One process imports, possibly with several goroutines.
SingleWriter == \A s, t \in Importers : Home[s] = Home[t]

\* The temporary file belongs to the one goroutine inside Replace.
TmpInv ==
  \A t \in Threads :
    /\ fd[t] = IF pc[t] = "write" THEN "tmp" ELSE "closed"
    /\ pc[t] = "write" => tmp = EmptyFile
    /\ pc[t] = "rename" => tmp = SaveOf(held[t])
    /\ pc[t] = "assign" => Loaded(file) = held[t]

\* The file is the newest catalog ever published, and there is one of each
\* revision.
FileInv ==
  /\ Restorable(file)
  /\ Loaded(file) \in published
  /\ \A c \in published : c.rev <= file.rev
  /\ \A c, d \in published : c.rev = d.rev => c = d

\* What a process has in memory was published, and the importing process has
\* what the file holds except between the rename and the assignment.
ViewInv ==
  /\ \A p \in Procs : up[p] => current[p] \in published
  /\ \A t \in Threads : pc[t] = "adopt" => held[t] \in published
  /\ \A t \in Importers :
       up[Home[t]] /\ (\A s \in Threads : pc[s] # "assign")
         => current[Home[t]] = Loaded(file)

\* What was answered is on disk and not newer than what the process has.
AnswerInv ==
  /\ answers \subseteq published
  /\ \A p \in Procs : answered[p] <= file.rev
  /\ \A p \in Procs : up[p] => answered[p] <= current[p].rev

\* With any number of importing processes.
IInv == TypeOK /\ MutexInv

\* With one importing process.
WriterInv == TmpInv /\ FileInv /\ ViewInv /\ AnswerInv
-----------------------------------------------------------------------------
(* Type correctness.                                                         *)

LEMMA BlankIsCatalog == Blank \in Catalog
BY DEF Blank, Catalog

\* Reading back a file gives a catalog, a complete one a signed catalog.
LEMMA LoadedType ==
  ASSUME NEW s \in Snapshot
  PROVE  /\ Loaded(s) \in Catalog
         /\ s.kind = "catalog" => Loaded(s) \in Signed
         /\ Loaded(s).rev = s.rev
BY DEF Snapshot, Loaded, Catalog, Signed

LEMMA SaveOfType ==
  ASSUME NEW c \in Signed
  PROVE  /\ SaveOf(c) \in Snapshot
         /\ Loaded(SaveOf(c)) = c
         /\ SaveOf(c).rev = c.rev
         /\ Restorable(SaveOf(c))
BY DEF Snapshot, SaveOf, Loaded, Signed, Restorable

LEMMA UnreadableType ==
  /\ Missing \in Snapshot
  /\ EmptyFile \in Snapshot
  /\ Torn \in Snapshot
BY DEF Missing, EmptyFile, Torn, Unreadable, Snapshot

LEMMA InitialFileType ==
  ASSUME NEW s \in InitialFiles
  PROVE  s \in Snapshot /\ Restorable(s)
<1>1. CASE s = Missing
  BY <1>1, UnreadableType DEF Missing, Unreadable, Restorable
<1>2. CASE s \in [kind : {"legacy"}, rev : 0..MaxInitial, body : {NoBody}]
  BY <1>2, StoreAssumption DEF Snapshot, Restorable
<1>3. CASE s \in [kind : {"catalog"}, rev : 1..MaxInitial, body : Bodies]
  BY <1>3, StoreAssumption DEF Snapshot, Restorable
<1> QED BY <1>1, <1>2, <1>3 DEF InitialFiles

LEMMA SuccessorType ==
  ASSUME NEW c \in Catalog, NEW b \in Bodies
  PROVE  Successor(c, b) \in Signed /\ Successor(c, b).rev = c.rev + 1
BY DEF Successor, Catalog, Signed

LEMMA SignedIsCatalog == Signed \subseteq Catalog
BY DEF Catalog

LEMMA RevisionType == \A c \in Catalog : c.rev \in Nat
BY DEF Catalog, Signed

\* TypeOK and MutexInv hold at first.
LEMMA InitIInv == Init => IInv
<1> SUFFICES ASSUME Init PROVE TypeOK /\ MutexInv
  BY DEF IInv
<1>1. file \in Snapshot /\ Loaded(file) \in Catalog
  BY InitialFileType, LoadedType DEF Init
<1>2. TypeOK
  BY <1>1, UnreadableType, BlankIsCatalog, StoreAssumption DEF Init, TypeOK
<1>3. MutexInv
  BY DEF Init, MutexInv, Replacing
<1> QED BY <1>2, <1>3

\* Every step of every process preserves them.
LEMMA NextIInv == IInv /\ [Next]_vars => IInv'
<1> SUFFICES ASSUME TypeOK, MutexInv, [Next]_vars PROVE TypeOK' /\ MutexInv'
  BY DEF IInv
<1> USE StoreAssumption
<1>1. ASSUME NEW t \in Threads, ReadFile(t) PROVE TypeOK' /\ MutexInv'
  <2>1. Loaded(file) \in Catalog
    BY LoadedType DEF TypeOK
  <2>2. TypeOK'
    BY <1>1, <2>1 DEF TypeOK, ReadFile, files, history
  <2>3. MutexInv'
    BY <1>1, <2>1, RevisionType DEF TypeOK, MutexInv, ReadFile, files, history, Replacing, Blank
  <2> QED BY <2>2, <2>3
<1>2. ASSUME NEW t \in Threads, Adopt(t) PROVE TypeOK' /\ MutexInv'
  <2>2. TypeOK'
    BY <1>2 DEF TypeOK, Adopt, files, history
  <2>3. MutexInv'
    BY <1>2, RevisionType DEF TypeOK, MutexInv, Adopt, files, history, Replacing, Newer
  <2> QED BY <2>2, <2>3
<1>3. ASSUME NEW t \in Threads, Return(t) PROVE TypeOK' /\ MutexInv'
  <2>1. current[Home[t]].body # NoBody => current[Home[t]] \in Signed
    BY DEF TypeOK, Catalog
  <2>2. TypeOK'
    BY <1>3, <2>1, BlankIsCatalog DEF TypeOK, Return, files, history, Signed
  <2>3. MutexInv'
    BY <1>3 DEF TypeOK, MutexInv, Return, files, history, Replacing
  <2> QED BY <2>2, <2>3
<1>4. ASSUME NEW t \in Importers, NEW b \in Bodies, Sign(t, b)
      PROVE TypeOK' /\ MutexInv'
  <2>1. /\ t \in Threads
        /\ Successor(current[Home[t]], b) \in Signed
        /\ Successor(current[Home[t]], b).rev = current[Home[t]].rev + 1
    BY SuccessorType DEF TypeOK
  <2>2. TypeOK'
    BY <1>4, <2>1, SignedIsCatalog DEF TypeOK, Sign, files, history
  <2>3. MutexInv'
    BY <1>4, <2>1 DEF TypeOK, MutexInv, Sign, files, history, Replacing
  <2> QED BY <2>2, <2>3
<1>5. ASSUME NEW t \in Importers, OpenTmp(t) PROVE TypeOK' /\ MutexInv'
  <2>2. TypeOK'
    BY <1>5, UnreadableType DEF TypeOK, OpenTmp, history
  <2>3. MutexInv'
    BY <1>5 DEF TypeOK, MutexInv, OpenTmp, history, Replacing
  <2> QED BY <2>2, <2>3
<1>6. ASSUME NEW t \in Importers, WriteTmp(t) PROVE TypeOK' /\ MutexInv'
  <2>1. SaveOf(held[t]) \in Snapshot
    BY <1>6, SaveOfType DEF MutexInv, WriteTmp, Replacing
  <2>2. \A s : Overwrite(s, SaveOf(held[t])) \subseteq Snapshot
    BY <2>1, UnreadableType DEF Overwrite
  <2>3. TypeOK'
    BY <1>6, <2>2 DEF TypeOK, WriteTmp, history
  <2>4. MutexInv'
    BY <1>6 DEF TypeOK, MutexInv, WriteTmp, history, Replacing
  <2> QED BY <2>3, <2>4
<1>7. ASSUME NEW t \in Importers, RenameTmp(t) PROVE TypeOK' /\ MutexInv'
  <2>1. \A link \in {"closed", "tmp", "file", "orphan"} :
          Relinked(link) \in {"closed", "tmp", "file", "orphan"}
    BY DEF Relinked
  <2>2. Loaded(tmp) \in Catalog
    BY LoadedType DEF TypeOK
  <2>3. TypeOK'
    BY <1>7, <2>1, <2>2, UnreadableType DEF TypeOK, RenameTmp, history
  <2>4. MutexInv'
    BY <1>7 DEF TypeOK, MutexInv, RenameTmp, history, Replacing
  <2> QED BY <2>3, <2>4
<1>8. ASSUME NEW t \in Importers, Assign(t) PROVE TypeOK' /\ MutexInv'
  <2>1. TypeOK'
    BY <1>8, BlankIsCatalog DEF TypeOK, Assign, files, history
  <2>2. \A s \in Threads : s # t /\ Home[s] = Home[t] => pc[s] \notin Replacing
    BY <1>8 DEF MutexInv, Assign, Replacing
  <2>3. MutexInv'
    BY <1>8, <2>2, RevisionType DEF TypeOK, MutexInv, Assign, files, history, Replacing
  <2> QED BY <2>1, <2>3
<1>9. ASSUME NEW t \in Importers, PersistFails(t) PROVE TypeOK' /\ MutexInv'
  <2>1. TypeOK'
    BY <1>9, BlankIsCatalog, UnreadableType DEF TypeOK, PersistFails, history
  <2>2. \A s \in Threads : s # t /\ Home[s] = Home[t] => pc[s] \notin Replacing
    BY <1>9 DEF MutexInv, PersistFails, Replacing
  <2>3. MutexInv'
    BY <1>9, <2>2 DEF TypeOK, MutexInv, PersistFails, history, Replacing
  <2> QED BY <2>1, <2>3
<1>10. ASSUME NEW p \in Procs, Start(p) PROVE TypeOK' /\ MutexInv'
  <2>1. Loaded(file) \in Catalog
    BY LoadedType DEF TypeOK
  <2>2. TypeOK'
    BY <1>10, <2>1 DEF TypeOK, Start, files, history
  <2>3. MutexInv'
    BY <1>10 DEF TypeOK, MutexInv, Start, files, history, Replacing
  <2> QED BY <2>2, <2>3
<1>11. ASSUME NEW p \in Procs, Stop(p) PROVE TypeOK' /\ MutexInv'
  <2>1. TypeOK'
    BY <1>11, BlankIsCatalog DEF TypeOK, Stop, history
  <2>2. MutexInv'
    BY <1>11 DEF TypeOK, MutexInv, Stop, history, Replacing
  <2> QED BY <2>1, <2>2
<1>12. CASE UNCHANGED vars
  BY <1>12 DEF TypeOK, MutexInv, Replacing, vars
<1> QED
  BY <1>1, <1>2, <1>3, <1>4, <1>5, <1>6, <1>7, <1>8, <1>9, <1>10, <1>11, <1>12
  DEF Next, CurrentStep, ReplaceStep

THEOREM InvariantHolds == Spec => []IInv
BY InitIInv, NextIInv, PTL DEF Spec

\* The state has its types in every reachable state, whatever the number of
\* processes, goroutines and importers.
THEOREM TypeCorrect == Spec => []TypeOK
<1>1. IInv => TypeOK
  BY DEF IInv
<1> QED BY <1>1, InvariantHolds, PTL

\* What Current() returns is never older than the file it read.
THEOREM AnswersAreFresh == Spec => []FreshAnswer
<1>1. IInv => FreshAnswer
  BY StoreAssumption, RevisionType DEF IInv, TypeOK, MutexInv, FreshAnswer
<1> QED BY <1>1, InvariantHolds, PTL

\* No process goes back to an older catalog while it runs.
THEOREM NeverRollsBack == Spec => NoRollback
<1> DEFINE Forward ==
      \A p \in Procs : up[p] /\ up'[p] => current'[p].rev >= current[p].rev
<1>1. IInv /\ [Next]_vars => [Forward]_vars
  <2> SUFFICES ASSUME TypeOK, MutexInv, Next PROVE Forward
    BY DEF IInv
  <2> USE StoreAssumption
  <2>1. \A p \in Procs : current[p].rev \in Nat
    BY RevisionType DEF TypeOK
  <2>2. CASE UNCHANGED current
    BY <2>1, <2>2
  <2>3. ASSUME NEW t \in Threads, Adopt(t) PROVE Forward
    BY <2>1, <2>3, RevisionType DEF TypeOK, Adopt, Newer
  <2>4. ASSUME NEW t \in Importers, Assign(t) PROVE Forward
    BY <2>1, <2>4, RevisionType DEF TypeOK, MutexInv, Assign, Replacing
  <2>5. ASSUME NEW p \in Procs, Start(p) \/ Stop(p) PROVE Forward
    BY <2>1, <2>5 DEF TypeOK, Start, Stop
  <2> QED
    BY <2>2, <2>3, <2>4, <2>5
    DEF Next, CurrentStep, ReplaceStep, ReadFile, Return, Sign, OpenTmp,
        WriteTmp, RenameTmp, PersistFails
<1> QED BY <1>1, InvariantHolds, PTL DEF Spec, NoRollback

-----------------------------------------------------------------------------
(* One importing process.                                                    *)

\* The mutex of the importing process admits one goroutine to Replace.
LEMMA OneReplacing ==
  ASSUME SingleWriter, TypeOK, MutexInv,
         NEW s \in Threads, NEW t \in Threads,
         pc[s] \in Replacing, pc[t] \in Replacing
  PROVE  s = t
<1>1. s \in Importers /\ t \in Importers /\ mu[Home[s]] = s /\ mu[Home[t]] = t
  BY DEF MutexInv
<1>2. Home[s] = Home[t]
  BY <1>1 DEF SingleWriter
<1> QED BY <1>1, <1>2

LEMMA InitWriterInv == Init => WriterInv
<1> SUFFICES ASSUME Init PROVE WriterInv
  OBVIOUS
<1> USE StoreAssumption
<1>1. file \in Snapshot /\ Restorable(file) /\ file.rev \in Nat
      /\ Loaded(file).rev = file.rev
  BY InitialFileType, LoadedType, RevisionType DEF Init
<1>2. TmpInv
  BY DEF Init, TmpInv
<1>3. FileInv
  BY <1>1 DEF Init, FileInv
<1>4. ViewInv
  BY DEF Init, ViewInv
<1>5. AnswerInv
  BY <1>1 DEF Init, AnswerInv
<1> QED BY <1>2, <1>3, <1>4, <1>5 DEF WriterInv

\* The steps of Current() touch neither files nor the catalogs published.
LEMMA CurrentWriterInv ==
  ASSUME SingleWriter, IInv, WriterInv, NEW t \in Threads, CurrentStep(t)
  PROVE  WriterInv'
<1> USE StoreAssumption DEF IInv, WriterInv
<1>1. CASE ReadFile(t)
  <2>1. TmpInv'
    BY <1>1 DEF TmpInv, ReadFile, TypeOK, files
  <2>2. FileInv'
    BY <1>1 DEF FileInv, ReadFile, files
  <2>3. ViewInv'
    BY <1>1 DEF ViewInv, ReadFile, FileInv, TypeOK, files
  <2>4. AnswerInv'
    BY <1>1 DEF AnswerInv, ReadFile, files, history
  <2> QED BY <2>1, <2>2, <2>3, <2>4
<1>2. CASE Adopt(t)
  <2>1. TmpInv'
    BY <1>2 DEF TmpInv, Adopt, TypeOK, files
  <2>2. FileInv'
    BY <1>2 DEF FileInv, Adopt, files
  <2>3. held[t] \in published /\ held[t].rev <= file.rev
    BY <1>2 DEF ViewInv, FileInv, Adopt
  <2>4. ViewInv'
    <3>1. \A p \in Procs : up'[p] => current'[p] \in published'
      BY <1>2, <2>3 DEF ViewInv, Adopt, TypeOK, files
    <3>2. \A s \in Threads : pc'[s] = "adopt" => held'[s] \in published'
      BY <1>2 DEF ViewInv, Adopt, TypeOK, files
    <3>3. ASSUME NEW s \in Importers, up'[Home[s]],
                 \A r \in Threads : pc'[r] # "assign"
          PROVE  current'[Home[s]] = Loaded(file')
      <4>1. current[Home[s]] = Loaded(file)
        BY <1>2, <3>3 DEF ViewInv, Adopt, TypeOK
      <4>2. ~Newer(held[t], Loaded(file))
        BY <2>3, LoadedType, RevisionType DEF Newer, TypeOK
      <4> QED BY <1>2, <4>1, <4>2 DEF Adopt, TypeOK, files
    <3> QED BY <3>1, <3>2, <3>3 DEF ViewInv
  <2>5. AnswerInv'
    <3>1. \A p \in Procs : /\ answered[p] \in Nat
                           /\ current[p].rev \in Nat
      BY RevisionType DEF TypeOK
    <3>2. held[t].rev \in Nat
      BY RevisionType DEF TypeOK
    <3> QED BY <1>2, <3>1, <3>2 DEF AnswerInv, Adopt, TypeOK, files, history, Newer
  <2> QED BY <2>1, <2>2, <2>4, <2>5
<1>3. CASE Return(t)
  <2>1. TmpInv'
    BY <1>3 DEF TmpInv, Return, TypeOK, files
  <2>2. FileInv'
    BY <1>3 DEF FileInv, Return, files
  <2>3. ViewInv'
    BY <1>3 DEF ViewInv, Return, TypeOK, files
  <2>4. AnswerInv'
    <3>1. up[Home[t]]
      BY <1>3 DEF MutexInv, Return
    <3>2. current[Home[t]] \in published /\ current[Home[t]].rev <= file.rev
      BY <3>1 DEF ViewInv, FileInv
    <3>3. current[Home[t]].rev \in Nat
      BY RevisionType DEF TypeOK
    <3> QED BY <1>3, <3>2, <3>3 DEF AnswerInv, Return, TypeOK, files, history
  <2> QED BY <2>1, <2>2, <2>3, <2>4
<1> QED BY <1>1, <1>2, <1>3 DEF CurrentStep

\* Replace() moves the file by one revision, from what the importing process
\* has in memory.
LEMMA ReplaceWriterInv ==
  ASSUME SingleWriter, IInv, IInv', WriterInv, NEW t \in Importers,
         ReplaceStep(t) \/ \E b \in Bodies : Sign(t, b)
  PROVE  WriterInv'
<1> USE StoreAssumption DEF IInv, WriterInv
<1>0. t \in Threads
  OBVIOUS
<1>1. ASSUME NEW b \in Bodies, Sign(t, b) PROVE WriterInv'
  <2>1. TmpInv'
    BY <1>1 DEF TmpInv, Sign, TypeOK, files
  <2>2. FileInv'
    BY <1>1 DEF FileInv, Sign, files
  <2>3. ViewInv'
    BY <1>1 DEF ViewInv, Sign, TypeOK, files
  <2>4. AnswerInv'
    BY <1>1 DEF AnswerInv, Sign, files, history
  <2> QED BY <2>1, <2>2, <2>3, <2>4
<1>2. CASE OpenTmp(t)
  <2>1. \A s \in Threads : s # t => pc[s] \notin Replacing
    BY <1>0, <1>2, OneReplacing DEF OpenTmp, Replacing
  <2>2. TmpInv'
    BY <1>2, <2>1 DEF TmpInv, OpenTmp, TypeOK, Replacing
  <2>3. FileInv'
    BY <1>2 DEF FileInv, OpenTmp
  <2>4. ViewInv'
    BY <1>2 DEF ViewInv, OpenTmp, TypeOK
  <2>5. AnswerInv'
    BY <1>2 DEF AnswerInv, OpenTmp, history
  <2> QED BY <2>2, <2>3, <2>4, <2>5
<1>3. CASE WriteTmp(t)
  <2>1. \A s \in Threads : s # t => pc[s] \notin Replacing
    BY <1>0, <1>3, OneReplacing DEF WriteTmp, Replacing
  <2>2. fd[t] = "tmp" /\ tmp = EmptyFile
    BY <1>0, <1>3 DEF TmpInv, WriteTmp
  <2>3. tmp' = SaveOf(held[t]) /\ file' = file
    BY <1>3, <2>2 DEF WriteTmp, Overwrite, EmptyFile, Unreadable
  <2>4. TmpInv'
    BY <1>3, <2>1, <2>3 DEF TmpInv, WriteTmp, TypeOK, Replacing
  <2>5. FileInv'
    BY <1>3, <2>3 DEF FileInv, WriteTmp
  <2>6. ViewInv'
    BY <1>3, <2>3 DEF ViewInv, WriteTmp, TypeOK
  <2>7. AnswerInv'
    BY <1>3, <2>3 DEF AnswerInv, WriteTmp, history
  <2> QED BY <2>4, <2>5, <2>6, <2>7
<1>4. CASE RenameTmp(t)
  <2>1. \A s \in Threads : s # t => pc[s] \notin Replacing
    BY <1>0, <1>4, OneReplacing DEF RenameTmp, Replacing
  <2>2. /\ held[t] \in Signed
        /\ held[t].rev = current[Home[t]].rev + 1
        /\ up[Home[t]]
    BY <1>0, <1>4 DEF MutexInv, RenameTmp, Replacing
  <2>3. current[Home[t]] = Loaded(file)
    BY <1>0, <1>4, <2>1, <2>2 DEF ViewInv, RenameTmp, Replacing
  <2>4. /\ file' = SaveOf(held[t])
        /\ Loaded(file') = held[t]
        /\ published' = published \cup {held[t]}
        /\ Restorable(file')
        /\ file'.rev = held[t].rev
    BY <1>0, <1>4, <2>2, SaveOfType DEF TmpInv, RenameTmp
  <2>5. file'.rev = file.rev + 1 /\ file.rev \in Nat
    BY <2>2, <2>3, <2>4, LoadedType, RevisionType DEF TypeOK
  <2>6. TmpInv'
    BY <1>4, <2>1, <2>4 DEF TmpInv, RenameTmp, TypeOK, Replacing, Relinked
  <2>7. FileInv'
    <3>1. \A c \in published : c.rev <= file.rev /\ c.rev \in Nat
      BY RevisionType DEF FileInv, TypeOK
    <3>2. \A c \in published : c.rev # held[t].rev
      BY <2>4, <2>5, <3>1
    <3>3. \A c \in published' : c.rev <= file'.rev
      BY <2>2, <2>4, <2>5, <3>1 DEF Signed
    <3>4. \A c, d \in published' : c.rev = d.rev => c = d
      BY <2>4, <3>2 DEF FileInv
    <3> QED BY <2>4, <3>3, <3>4 DEF FileInv
  <2>8. ViewInv'
    BY <1>0, <1>4, <2>4 DEF ViewInv, RenameTmp, TypeOK
  <2>9. AnswerInv'
    BY <1>4, <2>4, <2>5 DEF AnswerInv, RenameTmp, history, TypeOK
  <2> QED BY <2>6, <2>7, <2>8, <2>9
<1>5. CASE Assign(t)
  <2>1. \A s \in Threads : s # t => pc[s] \notin Replacing
    BY <1>0, <1>5, OneReplacing DEF Assign, Replacing
  <2>2. held[t] = Loaded(file)
    BY <1>0, <1>5 DEF TmpInv, Assign
  <2>3. TmpInv'
    BY <1>5, <2>1 DEF TmpInv, Assign, TypeOK, files, Replacing
  <2>4. FileInv'
    BY <1>5 DEF FileInv, Assign, files
  <2>5. ViewInv'
    <3>1. \A s \in Importers : Home[s] = Home[t]
      BY DEF SingleWriter
    <3> QED BY <1>0, <1>5, <2>2, <3>1 DEF ViewInv, Assign, TypeOK, files, FileInv
  <2>6. AnswerInv'
    <3>1. held[t].rev = file.rev
      BY <2>2, LoadedType DEF TypeOK
    <3> QED BY <1>0, <1>5, <3>1 DEF AnswerInv, Assign, files, history, TypeOK
  <2> QED BY <2>3, <2>4, <2>5, <2>6
<1>6. CASE PersistFails(t)
  <2>1. pc[t] \in Replacing \ {"assign"}
    BY <1>6 DEF PersistFails, Replacing
  <2>2. \A s \in Threads : s # t => pc[s] \notin Replacing
    BY <1>0, <2>1, OneReplacing
  <2>3. file' = file
    BY <1>0, <1>6 DEF TmpInv, PersistFails
  <2>4. TmpInv'
    BY <1>6, <2>2 DEF TmpInv, PersistFails, TypeOK, Replacing
  <2>5. FileInv'
    BY <1>6, <2>3 DEF FileInv, PersistFails
  <2>6. ViewInv'
    BY <1>6, <2>1, <2>2, <2>3 DEF ViewInv, PersistFails, TypeOK, Replacing
  <2>7. AnswerInv'
    BY <1>6, <2>3 DEF AnswerInv, PersistFails, history
  <2> QED BY <2>4, <2>5, <2>6, <2>7
<1> QED
  BY <1>1, <1>2, <1>3, <1>4, <1>5, <1>6 DEF ReplaceStep

\* A process starts from what the file holds, and a crash leaves the file as it
\* was, or as the rename made it.
LEMMA ProcessWriterInv ==
  ASSUME SingleWriter, IInv, WriterInv, NEW p \in Procs, Start(p) \/ Stop(p)
  PROVE  WriterInv'
<1> USE StoreAssumption DEF IInv, WriterInv
<1>1. CASE Start(p)
  <2>1. TmpInv'
    BY <1>1 DEF TmpInv, Start, files
  <2>2. FileInv'
    BY <1>1 DEF FileInv, Start, files
  <2>3. ViewInv'
    BY <1>1 DEF ViewInv, FileInv, Start, TypeOK, files
  <2>4. AnswerInv'
    BY <1>1, LoadedType DEF AnswerInv, Start, TypeOK, files, history
  <2> QED BY <2>1, <2>2, <2>3, <2>4
<1>2. CASE Stop(p)
  <2>1. TmpInv'
    BY <1>2 DEF TmpInv, Stop, TypeOK
  <2>2. FileInv'
    BY <1>2 DEF FileInv, Stop
  <2>3. ViewInv'
    <3>1. \A q \in Procs : up'[q] => current'[q] \in published'
      BY <1>2 DEF ViewInv, Stop, TypeOK
    <3>2. \A s \in Threads : pc'[s] = "adopt" => held'[s] \in published'
      BY <1>2 DEF ViewInv, Stop, TypeOK
    <3>3. ASSUME NEW s \in Importers, up'[Home[s]],
                 \A r \in Threads : pc'[r] # "assign"
          PROVE  current'[Home[s]] = Loaded(file')
      <4>1. Home[s] # p /\ up[Home[s]]
        BY <1>2, <3>3 DEF Stop, TypeOK
      <4>2. \A r \in Threads : pc[r] = "assign" => Home[r] = Home[s]
        BY <3>3 DEF MutexInv, SingleWriter, Replacing
      <4>3. \A r \in Threads : pc[r] # "assign"
        BY <1>2, <3>3, <4>1, <4>2 DEF Stop
      <4> QED BY <1>2, <3>3, <4>1, <4>3 DEF ViewInv, Stop, TypeOK
    <3> QED BY <3>1, <3>2, <3>3 DEF ViewInv
  <2>4. AnswerInv'
    BY <1>2 DEF AnswerInv, Stop, TypeOK, history
  <2> QED BY <2>1, <2>2, <2>3, <2>4
<1> QED BY <1>1, <1>2

THEOREM WriterInvariantHolds ==
  ASSUME SingleWriter
  PROVE  Spec => [](IInv /\ WriterInv)
<1>1. IInv /\ WriterInv /\ [Next]_vars => (IInv /\ WriterInv)'
  <2> SUFFICES ASSUME IInv, WriterInv, [Next]_vars PROVE IInv' /\ WriterInv'
    OBVIOUS
  <2>1. IInv'
    BY NextIInv
  <2>2. CASE Next
    BY <2>1, <2>2, CurrentWriterInv, ReplaceWriterInv, ProcessWriterInv DEF Next
  <2>3. CASE UNCHANGED vars
    BY <2>1, <2>3 DEF vars, WriterInv, TmpInv, FileInv, ViewInv, AnswerInv
  <2> QED BY <2>1, <2>2, <2>3
<1> QED BY <1>1, InitIInv, InitWriterInv, PTL DEF Spec

\* With one importing process, whatever instant a process is killed at, the
\* file is one the store can be restored from.
THEOREM SnapshotIsReadable ==
  ASSUME SingleWriter
  PROVE  Spec => []ReadableSnapshot
<1>1. IInv /\ WriterInv => ReadableSnapshot
  BY DEF WriterInv, FileInv, ReadableSnapshot
<1> QED BY <1>1, WriterInvariantHolds, PTL

\* With one importing process, what was answered survives every crash.
THEOREM AnswersAreDurable ==
  ASSUME SingleWriter
  PROVE  Spec => []AnsweredIsDurable
<1>1. IInv /\ WriterInv => AnsweredIsDurable
  BY DEF WriterInv, AnswerInv, AnsweredIsDurable
<1> QED BY <1>1, WriterInvariantHolds, PTL

\* With one importing process, a revision names one catalog.
THEOREM RevisionsAreUnique ==
  ASSUME SingleWriter
  PROVE  Spec => []OneCatalogPerRevision
<1>1. IInv /\ WriterInv => OneCatalogPerRevision
  BY DEF WriterInv, AnswerInv, FileInv, OneCatalogPerRevision
<1> QED BY <1>1, WriterInvariantHolds, PTL

\* With one importing process, the answers of a process go forward only.
THEOREM AnswersGoForward ==
  ASSUME SingleWriter
  PROVE  Spec => AnswersNeverRegress
<1> DEFINE Forward == \A p \in Procs : answered'[p] >= answered[p]
<1>1. IInv /\ WriterInv /\ [Next]_vars => [Forward]_vars
  <2> SUFFICES ASSUME IInv, WriterInv, Next PROVE Forward
    OBVIOUS
  <2>1. \A p \in Procs : answered[p] \in Nat /\ current[p].rev \in Nat
    BY RevisionType DEF IInv, TypeOK
  <2>2. CASE UNCHANGED answered
    BY <2>1, <2>2
  <2>3. ASSUME NEW t \in Threads, Return(t) PROVE Forward
    <3>1. up[Home[t]] /\ Home[t] \in Procs
      BY <2>3, StoreAssumption DEF IInv, MutexInv, Return
    <3>2. answered[Home[t]] <= current[Home[t]].rev
      BY <3>1 DEF WriterInv, AnswerInv
    <3> QED BY <2>1, <2>3, <3>1, <3>2 DEF Return, IInv, TypeOK, history
  <2> QED
    BY <2>2, <2>3
    DEF Next, CurrentStep, ReplaceStep, ReadFile, Adopt, Sign, OpenTmp, WriteTmp,
        RenameTmp, Assign, PersistFails, Start, Stop, history
<1> QED BY <1>1, WriterInvariantHolds, PTL DEF Spec, AnswersNeverRegress

-----------------------------------------------------------------------------
(* The stores implement the register: the rename is its publication.         *)

LEMMA RegisterInit == Init => Register!Init
<1> SUFFICES ASSUME Init PROVE Register!Init
  OBVIOUS
<1>1. Loaded(file) \in [rev : Nat, body : Bodies \cup {NoBody}]
  BY InitialFileType, LoadedType DEF Init, Catalog, Signed
<1> QED BY <1>1 DEF Init, Register!Init, Register!Nothing, Blank

LEMMA RegisterStep ==
  ASSUME SingleWriter, IInv, WriterInv, Next
  PROVE  [Register!Next]_(Register!vars)
<1> USE StoreAssumption
<1> DEFINE Same == UNCHANGED <<Loaded(file), published, up, current>>
<1>1. Same => UNCHANGED Register!vars
  BY DEF Register!vars
<1>2. ASSUME NEW t \in Threads, CurrentStep(t)
      PROVE  Same \/ \E p \in Procs : Register!Advance(p)
  <2>1. CASE ReadFile(t) \/ Return(t)
    BY <2>1 DEF ReadFile, Return, files
  <2>2. CASE Adopt(t)
    <3>1. CASE ~Newer(held[t], current[Home[t]])
      BY <2>2, <3>1 DEF Adopt, files
    <3>2. CASE Newer(held[t], current[Home[t]])
      <4>1. held[t] \in published /\ up[Home[t]]
        BY <2>2 DEF Adopt, IInv, WriterInv, ViewInv, MutexInv
      <4>2. Register!Advance(Home[t])
        BY <2>2, <3>2, <4>1 DEF Adopt, Register!Advance, Newer, files
      <4> QED BY <4>2
    <3> QED BY <3>1, <3>2
  <2> QED BY <1>2, <2>1, <2>2 DEF CurrentStep
<1>3. ASSUME NEW t \in Importers, ReplaceStep(t) \/ \E b \in Bodies : Sign(t, b)
      PROVE  \/ Same
             \/ \E b \in Bodies : Register!Publish(b)
             \/ \E p \in Procs : Register!Advance(p)
  <2>1. CASE (\E b \in Bodies : Sign(t, b)) \/ OpenTmp(t)
    BY <2>1 DEF Sign, OpenTmp, files
  <2>2. CASE WriteTmp(t) \/ PersistFails(t)
    <3>1. fd[t] # "file"
      BY DEF WriterInv, TmpInv
    <3> QED BY <2>2, <3>1 DEF WriteTmp, PersistFails
  <2>3. CASE RenameTmp(t)
    <3>1. /\ held[t] \in Signed
          /\ held[t].rev = current[Home[t]].rev + 1
          /\ up[Home[t]]
      BY <2>3 DEF RenameTmp, IInv, MutexInv, Replacing
    <3>2. \A s \in Threads : s # t => pc[s] \notin Replacing
      BY <2>3, OneReplacing DEF RenameTmp, IInv, Replacing
    <3>3. current[Home[t]] = Loaded(file)
      BY <2>3, <3>1, <3>2 DEF WriterInv, ViewInv, RenameTmp, Replacing
    <3>4. tmp = SaveOf(held[t]) /\ Loaded(SaveOf(held[t])) = held[t]
      BY <2>3, <3>1, SaveOfType DEF WriterInv, TmpInv, RenameTmp
    <3>5. /\ Loaded(file)' = held[t]
          /\ published' = published \cup {held[t]}
          /\ UNCHANGED <<up, current>>
      BY <2>3, <3>4 DEF RenameTmp
    <3>6. /\ held[t].body \in Bodies
          /\ held[t] = [rev |-> Loaded(file).rev + 1, body |-> held[t].body]
      BY <3>1, <3>3 DEF Signed
    <3>7. Register!Publish(held[t].body)
      BY <3>5, <3>6 DEF Register!Publish
    <3> QED BY <3>6, <3>7
  <2>4. CASE Assign(t)
    <3>1. up[Home[t]] /\ held[t].rev = current[Home[t]].rev + 1
      BY <2>4 DEF Assign, IInv, MutexInv, Replacing
    <3>2. held[t] \in published
      BY <2>4 DEF Assign, WriterInv, TmpInv, FileInv
    <3>3. current[Home[t]].rev \in Nat
      BY RevisionType DEF IInv, TypeOK
    <3>4. held[t].rev > current[Home[t]].rev
      BY <3>1, <3>3
    <3>5. Register!Advance(Home[t])
      BY <2>4, <3>1, <3>2, <3>4 DEF Assign, Register!Advance, files
    <3> QED BY <3>5
  <2> QED BY <1>3, <2>1, <2>2, <2>3, <2>4 DEF ReplaceStep
<1>4. ASSUME NEW p \in Procs, Start(p) PROVE Register!Begin(p)
  BY <1>4 DEF Start, Register!Begin, files
<1>5. ASSUME NEW p \in Procs, Stop(p) PROVE Register!End(p)
  BY <1>5 DEF Stop, Register!End, Register!Nothing, Blank
<1> QED BY <1>1, <1>2, <1>3, <1>4, <1>5 DEF Next, Register!Next

\* With one importing process, every behaviour of the stores is one of the
\* register.
THEOREM StoreImplementsRegister ==
  ASSUME SingleWriter
  PROVE  Spec => ImplementsRegister
<1>1. IInv /\ WriterInv /\ [Next]_vars => [Register!Next]_(Register!vars)
  <2> SUFFICES ASSUME IInv, WriterInv, [Next]_vars
               PROVE  [Register!Next]_(Register!vars)
    OBVIOUS
  <2>1. CASE UNCHANGED vars
    BY <2>1 DEF vars, Register!vars
  <2> QED BY <2>1, RegisterStep
<1> QED
  BY <1>1, RegisterInit, WriterInvariantHolds, PTL
  DEF Spec, Register!Spec, ImplementsRegister
=============================================================================
