\* Two processes capture one source, and only the filesystem strategy lets them overlap;
\* three messages, two exports of two conversations, two sources, three restores.
SPECIFICATION MCSpec
CONSTANTS
  Parts = {"store", "graph", "import", "plan", "restore"}
  Captures = {c1, c2}
  Contents = {x, y}
  Clashing = {}
  Stores = {"filesystem", "suno", "distrokid", "soundcloud", "chrome-bookmarks"}
  Overlapping = {"filesystem"}
  MaxAttempts = 3
  MaxFaults = 2
  MaxDamage = 1
  Missing = Missing
  Torn = Torn
  Nodes = {n1, n2, n3}
  Unknown = Unknown
  NoNode = NoNode
  MaxWrong = 1
  ConversationIds = {i1, i2}
  NoFilter = NoFilter
  MaxFiles = 2
  MaxItems = 2
  MaxImports = 2
  MaxImportFaults = 1
  Sources = {1, 2}
  Positions = {1}
  MaxListed = 2
  MaxChanges = 2
  MaxPlans = 1
  Restorers = {r1, r2}
  NFiles = 3
  MaxRestores = 3
  MaxKills = 2
SYMMETRY Symmetry
\* Every part is bounded.
CHECK_DEADLOCK FALSE
INVARIANTS
  LatestSealed
  HistoryComplete
  PassedVerification
  CyclesFound
  CompleteMeansForest
  BranchesPartition
  ManifestAccounts
  ReimportIdempotent
  NamesHoldWhole
  ReceiptMeansRestored
PROPERTIES
  LedgerSpec
  EvidenceVerified
  SkipMeansUnchanged
