CONSTANTS
  m1 = m1
  m2 = m2
  m3 = m3
  c1 = c1
  c2 = c2
  k1 = k1
  w1 = w1
  w2 = w2
  t1 = t1
  t2 = t2
  read = read
  write = write
  Message = {m1, m2, m3}
  Command = {c1, c2}
  Cap = {k1}
  Device = {d1}
  NoMessage = NoMessage
  NoCommand = NoCommand
  NoDevice = NoDevice
  Kind = {read, write}
  WriteKind = {write}
  Policy <- Policies
  KindOf <- Kinds
  AmountOf <- Amounts
  MessageOf <- Names
  CapOf <- Capabilities
  Change = {}
  MaxVersion = 2
  MaxSource = 0
  MaxRevision = 0
  Window = {w1, w2}
  Operation <- Operations
  NoOperation = NoOperation
  Course <- Courses
  MaxUnresolved = 1
  Writer = {w1, w2}
  Text = {t0, t1, t2}
  NoText = t0
  MaxToken = 3
SPECIFICATION MCSpec
INVARIANTS HostRequestOnce SubmittedIsLocated SubmittedNotUnsent
PROPERTIES RestrictionsDropSafely
SYMMETRY Symmetry
CHECK_DEADLOCK FALSE
