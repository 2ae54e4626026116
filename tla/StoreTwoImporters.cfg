\* Both processes import into one revisionFile: the temporary file they share is
\* truncated, renamed and written by both.  With a torn file and no process up
\* nothing can start any more.
CONSTANTS
  api = api
  checker = checker
  h1 = h1
  h2 = h2
  w1 = w1
  w2 = w2
  Procs = {api, checker}
  Threads = {h1, w1, w2}
  Home <- HomeTwoImporters
  Importers = {w1, w2}
  Bodies = {b1}
  NoBody = NoBody
  NoThread = NoThread
  MaxRevision = 2
  MaxInitial = 1
SPECIFICATION Spec
INVARIANTS FreshAnswer
PROPERTIES NoRollback
CHECK_DEADLOCK FALSE
