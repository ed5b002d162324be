SPECIFICATION Spec
CONSTANTS
  first = first
  second = second
  question = question
  d1 = d1
  s1 = s1
  m1 = m1
  Ask <- AskSet
  Device = {d1}
  Student = {s1}
  OwnerOf <- AskOwner
  Question = {question}
  Mistake = {m1}
  MistakeOf <- AskMistake
  HasLLM = TRUE
  MaxLevel = 2
  HintsPerDayAnon = 1
  HintsPerDaySigned = 1
  DailyModelBudget = 1
  DayLength = 1
  MaxTime = 1
  NoReply = NoReply
SYMMETRY Symmetry
INVARIANT CallsWithinBudget
