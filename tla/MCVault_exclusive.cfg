\* Two writers and one recovery process; no ingestion outlives the lock timeout,
\* and a writer may fail or be killed at any step, twice.
SPECIFICATION Spec
CONSTANTS
  Writers = {w1, w2}
  Recoverers = {r1}
  b1 = b1
  b2 = b2
  b3 = b3
  x = x
  y = y
  id1 = id1
  id2 = id2
  Bundles = {b1, b2, b3}
  Objects = {x, y}
  Identity <- MCIdentity
  Content <- MCContent
  Size <- MCSize
  PackTarget = 2
  MaxPacks = 4
  MaxGen = 2
  MaxFaults = 2
  CrashPhases = {"locking", "loading", "planning", "packing", "sealing", "publishing", "copying", "copied", "replaced", "receipt", "releasing"}
  LongIngests = FALSE
  Tears = {t1}
  NoLock = NoLock
  NoCatalog = NoCatalog
SYMMETRY MCSymmetry
\* The bounds stop every writer, and so does a lock left behind empty.
CHECK_DEADLOCK FALSE
INVARIANTS
  TypeOK
  CatalogsClosed
  WriterExclusion
  PlansAccepted
  ReceiptsDurable
  ObjectsStoredOnce
PROPERTIES
  SealedCatalogsImmutable
  LedgerSpec
