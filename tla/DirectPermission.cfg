CONSTANTS
  m1 = m1
  m2 = m2
  c1 = c1
  c2 = c2
  c3 = c3
  k1 = k1
  k2 = k2
  d1 = d1
  d2 = d2
  read = read
  write = write
  Message = {m1, m2}
  Command = {c1, c2, c3}
  Cap = {k1, k2}
  Device = {d1, d2}
  NoMessage = NoMessage
  NoCommand = NoCommand
  NoDevice = NoDevice
  Kind = {read, write}
  WriteKind = {write}
  Policy <- Policies
  KindOf <- Kinds
  AmountOf <- Amounts
  MessageOf <- Names
  CapOf <- Capabilities
  Change = {"workspace", "source", "grant", "time"}
  MaxVersion = 3
  MaxSource = 1
  MaxRevision = 1
SPECIFICATION MCSpec
INVARIANTS LedgerExact StandingWithinLimit OneRunPerMessage
PROPERTIES LapsedNeverStarts
CHECK_DEADLOCK FALSE
