\* One kill, then a resume.
SPECIFICATION Spec
CONSTANTS
  Sources = {s1}
  MaxRetries = 0
  DryRuns = {FALSE}
  FaultKinds = {}
  MaxFaults = 0
  MaxSignals = 0
  MaxKills = 1
  NoSource = NoSource
  NoRun = NoRun
  Unreadable = Unreadable
INVARIANTS
  DiscoveredAccounted
