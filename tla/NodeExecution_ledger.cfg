CONSTANTS
  c1 = c1
  c2 = c2
  a1 = a1
  a2 = a2
  Cap = {c1}
  Agent = {a1}
  Tracked = {a1}
  Host = Host
  Intent = {1, 2, 3}
  CommandId = {1, 2, 3, 4}
  Nonce = {1, 2, 4}
  IdempotencyKey = {1, 2, 3, 4}
  Action = {"assign", "status", "direct.message"}
  ControlAction = {"assign", "direct.message"}
  DirectMessage = "direct.message"
  Call <- LedgerCall
  Offer <- LedgerOffer
  Attempt = {1}
  NoAttempt = NoAttempt
  Admin = {}
  MaxTtl = 2
  MaxSkew = 1
  MaxClock = 2
  MaxKeyVersion = 1
  MaxGeneration = 1
  MaxGrantVersion = 1
  MaxMembership = 1
  MaxAgentVersion = 1
  MaxRecordRevision = 0
SPECIFICATION Spec
INVARIANTS TypeOK BudgetLedgerExact QuotaKept NoReplay SettledExactlyWhenTerminal
PROPERTIES ImplementsLifecycle
CHECK_DEADLOCK FALSE
