SPECIFICATION Spec
CONSTANTS
  Attempt = {a1}
  Sandbox = {s1}
  Prewarmer = prewarmer
  Stopper = stopper
  NoSandbox = NoSandbox
  Prewarm = 0
  MaxInflight = 1
INVARIANTS
  ExitAbandonsNone
