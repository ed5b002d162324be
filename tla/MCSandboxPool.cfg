SPECIFICATION Spec
CONSTANTS
  Attempt = {a1, a2}
  Sandbox = {s1, s2, s3}
  Prewarmer = prewarmer
  Stopper = stopper
  NoSandbox = NoSandbox
  Prewarm = 1
  MaxInflight = 2
SYMMETRY Symmetry
INVARIANTS
  TypeOK
  NeverShared
  OneOwner
  Accounted
  PushHasRoom
