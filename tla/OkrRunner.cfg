CONSTANTS
  p1 = p1
  p2 = p2
  a1 = a1
  d1 = d1
  d2 = d2
  o1 = o1
  Person = {p1, p2}
  AutoSession = {a1}
  Device = {d1, d2}
  DeviceOf <- Devices
  Mode = {"coordinator", "chain"}
  Okr = {o1}
  Command = {c1, c2}
  Human = {h1}
  NoCommand = NoCommand
  Amount = {1}
  Limit = {2}
  MaxMetrics = 2
  MaxActive = 1
  MaxVersion = 4
SPECIFICATION MCSpec
INVARIANTS SentOnce TicketIsReservation OneWay
SYMMETRY Symmetry
CHECK_DEADLOCK FALSE
