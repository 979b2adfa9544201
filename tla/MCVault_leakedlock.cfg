\* One kill, also between the creation of the lock file and its contents.
SPECIFICATION FairSpec
CONSTANTS
  Writers = {w1, w2}
  Recoverers = {r1}
  b1 = b1
  b2 = b2
  b3 = b3
  x = x
  y = y
  id1 = id1
  id2 = id2
  Bundles = {b1, b2}
  Objects = {x, y}
  Identity <- MCIdentity
  Content <- MCContent
  Size <- MCSize
  PackTarget = 2
  MaxPacks = 4
  MaxGen = 2
  MaxFaults = 1
  CrashPhases = {"locking", "loading", "planning", "packing", "sealing", "publishing", "copying", "copied", "replaced", "receipt", "releasing"}
  LongIngests = FALSE
  Tears = {t1}
  NoLock = NoLock
  NoCatalog = NoCatalog
\* The bounds stop every writer, and so does a lock left behind empty.
CHECK_DEADLOCK FALSE
PROPERTIES
  AbandonedLocksRecovered
