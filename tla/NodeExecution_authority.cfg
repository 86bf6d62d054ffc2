CONSTANTS
  c1 = c1
  c2 = c2
  a1 = a1
  a2 = a2
  Cap = {c1}
  Agent = {a1}
  Tracked = {a1}
  Host = Host
  Intent = {1}
  CommandId = {1}
  Nonce = {1}
  IdempotencyKey = {1}
  Action = {"assign", "status", "direct.message"}
  ControlAction = {"assign", "direct.message"}
  DirectMessage = "direct.message"
  Call <- AuthorityCall
  Offer <- AuthorityOffer
  Attempt = {1}
  NoAttempt = NoAttempt
  Admin = {"rotate", "save", "deactivate", "recover", "device", "member", "binding", "membership", "agent"}
  MaxTtl = 2
  MaxSkew = 1
  MaxClock = 0
  MaxKeyVersion = 2
  MaxGeneration = 2
  MaxGrantVersion = 2
  MaxMembership = 2
  MaxAgentVersion = 3
  MaxRecordRevision = 1
SPECIFICATION Spec
CONSTRAINT KeyOrAgent
INVARIANTS ControlRunKeepsBinding
PROPERTIES LapsedAuthorityStaysLapsed
CHECK_DEADLOCK FALSE
