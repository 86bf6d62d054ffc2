CONSTANTS
  o1 = o1
  o2 = o2
  c1 = c1
  c2 = c2
  Okr = {o1, o2}
  Command = {c1, c2}
  Human = {h1}
  NoCommand = NoCommand
  Amount = {1}
  Limit = {1, 2}
  MaxMetrics = 2
  MaxActive = 1
  MaxVersion = 7
SPECIFICATION MCSpec
INVARIANTS StartedInOrder BudgetExact MeasuredByOwnRun ReservedAfterReview
CHECK_DEADLOCK FALSE
