--------------------------- MODULE MCNodeExecution ---------------------------
(* Instances of NodeExecution for TLC. *)
EXTENDS NodeExecution, TLC

CONSTANTS c1, c2, a1, a2

\* A call with tokens numbered by its arguments.
MCCall(intent, id, nonce, key, action, amount, expires) ==
  [intent |-> intent, command_id |-> id, nonce |-> nonce,
   idempotency_key |-> key, action |-> action, budget_amount |-> amount,
   issued_at |-> 1, expires_at |-> expires]

\* Two commands with different budgets, and two that repeat a token: the
\* nonce of the second, and the intent hash of the first with another amount.
LedgerCall ==
  {MCCall(1, 1, 1, 1, "assign", 2, 2), MCCall(2, 2, 2, 2, "status", 1, 2),
   MCCall(3, 3, 2, 3, "status", 1, 2), MCCall(1, 4, 4, 4, "assign", 1, 2)}

\* The budget holds for the first command or the second, and for both only if
\* the first to settle leaves enough.
LedgerOffer ==
  {[target |-> a1, actions |-> {"assign", "status"}, max_uses |-> uses,
    max_budget |-> 2, expires_at |-> 2, contract |-> FALSE] : uses \in {1, 2}}

\* One control command, of a capability for observation and control.
AuthorityCall == {MCCall(1, 1, 1, 1, "assign", 0, 2)}

AuthorityOffer ==
  {[target |-> a1, actions |-> {"assign", "status"}, max_uses |-> 2,
    max_budget |-> 0, expires_at |-> 2, contract |-> FALSE]}

\* Where the organization's key is rotated, the Agent stays as it is: no check of
\* authority reads the key version.
KeyOrAgent == key_version = 1 \/ \A a \in Agent : managed[a].version = 1

\* Commands for the Host, for a tracked and for a legacy Agent, under plain
\* and under contract-bound capabilities.
Control == MCCall(1, 1, 1, 1, "direct.message", 0, 2)
QueueCall == {Control, MCCall(2, 2, 2, 2, "status", 0, 2)}

QueueOffer ==
  {[target |-> a1, actions |-> {"direct.message"}, max_uses |-> 1,
    max_budget |-> 0, expires_at |-> 2, contract |-> TRUE],
   [target |-> a1, actions |-> {"status", "direct.message"}, max_uses |-> 2,
    max_budget |-> 0, expires_at |-> 2, contract |-> FALSE],
   [target |-> a2, actions |-> {"status"}, max_uses |-> 1,
    max_budget |-> 0, expires_at |-> 2, contract |-> FALSE],
   [target |-> Host, actions |-> {"status"}, max_uses |-> 1,
    max_budget |-> 0, expires_at |-> 2, contract |-> FALSE]}

\* Capabilities are interchangeable: no offer names one.
CapSymmetry == Permutations(Cap)
=============================================================================
