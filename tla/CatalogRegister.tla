--------------------------- MODULE CatalogRegister --------------------------
(***************************************************************************)
(* What the catalog store promises to its clients, without files, locks or *)
(* calls: one register that only a publication moves, one revision at a    *)
(* time, and a view per running process that only moves forward, among     *)
(* catalogs that were really published.  A process that starts sees the    *)
(* latest one at once (the comment of NewPersistentMemoryStore).           *)
(***************************************************************************)
EXTENDS Naturals

CONSTANTS
  Procs,   \* the processes that have a view
  Bodies,  \* what a published catalog can contain
  NoBody   \* a register or a view without servers

VARIABLES
  latest,  \* the catalog published last
  past,    \* every catalog ever published, the latest included
  running, \* which processes run
  view     \* the catalog each process has in memory

vars == <<latest, past, running, view>>

Nothing == [rev |-> 0, body |-> NoBody]

Init ==
  /\ latest \in [rev : Nat, body : Bodies \cup {NoBody}]
  /\ past = {latest}
  /\ running = [p \in Procs |-> FALSE]
  /\ view = [p \in Procs |-> Nothing]

\* Revisions have no gaps and are never reused.
Publish(b) ==
  /\ latest' = [rev |-> latest.rev + 1, body |-> b]
  /\ past' = past \cup {latest'}
  /\ UNCHANGED <<running, view>>

Advance(p) ==
  /\ running[p]
  /\ \E c \in past :
       /\ c.rev > view[p].rev
       /\ view' = [view EXCEPT ![p] = c]
  /\ UNCHANGED <<latest, past, running>>

Begin(p) ==
  /\ ~running[p]
  /\ running' = [running EXCEPT ![p] = TRUE]
  /\ view' = [view EXCEPT ![p] = latest]
  /\ UNCHANGED <<latest, past>>

End(p) ==
  /\ running[p]
  /\ running' = [running EXCEPT ![p] = FALSE]
  /\ view' = [view EXCEPT ![p] = Nothing]
  /\ UNCHANGED <<latest, past>>

Next ==
  \/ \E b \in Bodies : Publish(b)
  \/ \E p \in Procs : Advance(p) \/ Begin(p) \/ End(p)

Spec == Init /\ [][Next]_vars
=============================================================================
