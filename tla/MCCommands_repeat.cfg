\* No two processes acquire a lock, or look for a run, at once; two configurations; two sources
\* with one error and one kill; two bundles with two exceptions or kills.
SPECIFICATION MCSpec
CONSTANTS
  Parts = {"lock", "command", "run", "vault"}
  None = None
  Pids = {p1, p2, p3}
  Overlap = FALSE
  ReusePids = FALSE
  MaxKills = 4
  NoLock = NoLock
  Torn = Torn
  Commands = {c1, c2}
  Runs = {r1, r2}
  Configs = {f1, f2}
  MaxPlain = 1
  MaxInterrupts = 2
  Sources = {s1, s2}
  MaxRetries = 1
  FaultKinds = {"discovery", "save", "start-event", "end-event"}
  MaxFaults = 1
  MaxSignals = 0
  MaxRunKills = 1
  Unreadable = Unreadable
  Writers = {w1, w2}
  Recoverers = {v1}
  MaxPacks = 4
  MaxGen = 2
  MaxWriterFaults = 2
  CrashPhases = {"loading", "planning", "packing", "sealing", "publishing", "copying", "copied", "replaced", "receipt", "releasing"}
\* Every part but the lock is bounded.
CHECK_DEADLOCK FALSE
INVARIANTS
  MutualExclusion
  ResumeUnambiguous
PROPERTIES
  LocksAcquirable
  ResumeFinishes
  EventuallyFinished
  EventuallyImported
