\* One capture at a time; one content has two assets with the same relative path.
SPECIFICATION Spec
CONSTANTS
  Captures = {c1}
  Contents = {x, y}
  Clashing = {x}
  Stores = {"suno"}
  Overlapping = {}
  MaxAttempts = 3
  MaxFaults = 0
  MaxDamage = 0
  Missing = Missing
  Torn = Torn
\* The bound on captures stops the system.
CHECK_DEADLOCK FALSE
INVARIANTS
  PassedVerification
