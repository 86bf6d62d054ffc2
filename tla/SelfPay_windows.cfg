CONSTANTS
  r1 = r1
  r2 = r2
  m1 = m1
  m2 = m2
  c1 = c1
  c2 = c2
  c3 = c3
  c4 = c4
  k1 = k1
  Request = {r1, r2}
  Manager = {m1, m2}
  Call = {c1, c2, c3, c4}
  Coin = {k1}
  NoCall = NoCall
  RequestOf <- MCRequestOf
  ManagerOf <- MCManagerOf
  MaxVersion = 2
SPECIFICATION MCSpec
INVARIANTS SentIsRecorded NoGasEquivocation KnownOutcomesTrue SyncedMeansRecorded RejectedHasNoEffect
CHECK_DEADLOCK FALSE
