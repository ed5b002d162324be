SPECIFICATION Spec
CONSTANTS
  submit = submit
  run = run
  Empty = Empty
  Character = {"a", "b", "sp", "cr", "nl"}
  NoCase = NoCase
  NoError = NoError
  SyntaxError = SyntaxError
  NoExercise = NoExercise
  KnownFlags = {"known"}
  BadRegex = BadRegex
  MinLimit = 1
  MaxLimit = 2
  DefaultLimit = 2
  TextLen = 4
  Tree <- Trees
  Attempt = {submit, run}
  ModeOf <- AttemptMode
  Behaviour <- Behaviours
  Parallel = 1
  Slack = 1
  Grace = 1
INVARIANTS
  TypeOK
  LibrarySound
  TolerantByPosition
  PassIsEarned
  BlameFits
  RevealsOne
  OverrunMeansWedged
\* A server that refuses its content, and one whose attempts are over, stop.
CHECK_DEADLOCK FALSE
