\* One product, two workers, two acts of administrators, one change in Learn, one failure.
SPECIFICATION Spec
CONSTANTS
  s = s
  All = All
  None = None
  Products = {p}
  Systems = {s}
  SystemOf <- OneSystem
  Prices = {0, 1}
  IdOf <- OneId
  Answers <- SomeAnswers
  Workers = {w1, w2}
  MaxEdits = 2
  MaxNews = 1
  MaxFaults = 1
INVARIANTS TypeOK ChargedWasShown
PROPERTIES DeletedIsNotSynced LearnPrevails
CHECK_DEADLOCK FALSE
