CONSTANTS
  r1 = r1
  p1 = p1
  p2 = p2
  p3 = p3
  Run = {r1}
  Attempt = {p1, p2, p3}
  NoAttempt = NoAttempt
  RunOf <- OneRun
  Review = {r1}
SPECIFICATION MCFairSpec
INVARIANTS AdapterAtMostOnce ResultAgreesWithChain AnswersTruthful RejectionIsDefinite
PROPERTIES EveryCallReturns
CHECK_DEADLOCK FALSE
