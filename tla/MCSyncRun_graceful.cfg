\* One signal, no other fault.
SPECIFICATION Spec
CONSTANTS
  Sources = {s1}
  MaxRetries = 0
  DryRuns = {FALSE}
  FaultKinds = {}
  MaxFaults = 0
  MaxSignals = 1
  MaxKills = 0
  NoSource = NoSource
  NoRun = NoRun
  Unreadable = Unreadable
INVARIANTS
  SignalsAreGraceful
