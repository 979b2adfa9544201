\* One error of any kind, one signal and one kill, with and without --dry-run.
SPECIFICATION Spec
CONSTANTS
  Sources = {s1, s2}
  MaxRetries = 1
  DryRuns = {TRUE, FALSE}
  FaultKinds = {"discovery", "save", "start-event", "end-event"}
  MaxFaults = 1
  MaxSignals = 1
  MaxKills = 1
  NoSource = NoSource
  NoRun = NoRun
  Unreadable = Unreadable
SYMMETRY MCSymmetry
\* A run whose run.json cannot be read is never resumed.
CHECK_DEADLOCK FALSE
INVARIANTS
  FinishedRunsAccounted
  CapturesArchived
  ExitStatusRecorded
  StateFileReadable
