SPECIFICATION Spec
CONSTANTS
  Attempt = {a1, a2}
  Sandbox = {s1, s2}
  Prewarmer = prewarmer
  Stopper = stopper
  NoSandbox = NoSandbox
  Prewarm = 2
  MaxInflight = 1
SYMMETRY Symmetry
INVARIANTS
  InflightCapped
  StopEmptiesPool
PROPERTIES
  ImplementsIsolation
  NoUseAfterDelete
