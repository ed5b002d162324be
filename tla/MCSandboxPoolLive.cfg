\* No symmetry: the properties are temporal.
SPECIFICATION FairSpec
CONSTANTS
  Attempt = {a1}
  Sandbox = {s1, s2}
  Prewarmer = prewarmer
  Stopper = stopper
  NoSandbox = NoSandbox
  Prewarm = 1
  MaxInflight = 2
PROPERTIES
  RunReturns
  UsedIsDeleted
  StopReturns
