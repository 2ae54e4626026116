\* One process imports, two serve; every interleaving of calls, I/O errors,
\* crashes and restarts, from every kind of file a store can find.
CONSTANTS
  api = api
  checker = checker
  h1 = h1
  h2 = h2
  w1 = w1
  w2 = w2
  Procs = {api, checker}
  Threads = {h1, h2, w1}
  Home <- HomeOneImporter
  Importers = {w1}
  Bodies = {b1, b2}
  NoBody = NoBody
  NoThread = NoThread
  MaxRevision = 2
  MaxInitial = 1
SPECIFICATION FairSpec
INVARIANTS TypeOK FreshAnswer ReadableSnapshot AnsweredIsDurable OneCatalogPerRevision
PROPERTIES NoRollback AnswersNeverRegress ImplementsRegister PublishedIsServed
