\* Two processes acquire at the same time; no kill.
SPECIFICATION Spec
CONSTANTS
  Pids = {p1, p2}
  Overlap = TRUE
  ReusePids = TRUE
  MaxKills = 0
  NoLock = NoLock
  Torn = Torn
SYMMETRY MCSymmetry
INVARIANTS
  MutualExclusion
