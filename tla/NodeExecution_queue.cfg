CONSTANTS
  c1 = c1
  c2 = c2
  a1 = a1
  a2 = a2
  Cap = {c1, c2}
  Agent = {a1, a2}
  Tracked = {a1}
  Host = Host
  Intent = {1, 2}
  CommandId = {1, 2}
  Nonce = {1, 2}
  IdempotencyKey = {1, 2}
  Action = {"assign", "status", "direct.message"}
  ControlAction = {"assign", "direct.message"}
  DirectMessage = "direct.message"
  Call <- QueueCall
  Offer <- QueueOffer
  Attempt = {1}
  NoAttempt = NoAttempt
  Admin = {"rotate", "save"}
  MaxTtl = 2
  MaxSkew = 1
  MaxClock = 1
  MaxKeyVersion = 2
  MaxGeneration = 1
  MaxGrantVersion = 1
  MaxMembership = 1
  MaxAgentVersion = 1
  MaxRecordRevision = 1
SPECIFICATION QueueSpec
SYMMETRY CapSymmetry
INVARIANTS ControlCountExact
PROPERTIES ResultKeysFixedByRun
CHECK_DEADLOCK FALSE
