-------------------------- MODULE RemoteCapability --------------------------
(***************************************************************************)
(* The RemoteCapability object of remote_authority.move: a bounded right   *)
(* to run commands, with its use counter, its replay tables and its budget *)
(* ledger.  The operators of this module are the functions of that file as *)
(* functions from one capability record to the next; the modules that own  *)
(* capabilities (NodeExecution) put them in actions.                       *)
(*                                                                         *)
(* A call is one set of arguments of claim_use: the intent hash with the   *)
(* command id, nonce, idempotency key, action and budget amount claimed    *)
(* for it, and the validity window node_execution checks.  A table of the  *)
(* code keyed by one of these tokens is the projection of `claims' on it.  *)
(***************************************************************************)
EXTENDS Units

CONSTANTS
  Intent,          \* intent hashes
  CommandId,       \* command ids
  Nonce,           \* nonces
  IdempotencyKey,  \* idempotency keys
  Action,          \* command actions
  Call             \* the calls callers may make

\* Calls are records over the token sets.
ASSUME CallAssumption ==
  Call \subseteq [intent : Intent, command_id : CommandId, nonce : Nonce,
                  idempotency_key : IdempotencyKey, action : Action,
                  budget_amount : Nat, issued_at : Nat, expires_at : Nat]

\* The fields of the shared object, its BoundBudgetTotals (spent, reserved)
\* and its BoundBudgetClaim entries (settled, spent_amount).
Capability ==
  [actions : SUBSET Action, max_uses : Nat, uses_claimed : Nat,
   uses_delegated : Nat, max_budget : Nat, budget_claimed : Nat,
   budget_delegated : Nat, expires_at : Nat, revocation_version : Nat,
   revoked : BOOLEAN, claims : SUBSET Call, settled : SUBSET Intent,
   spent_amount : [Intent -> Nat], spent : Nat, reserved : Nat]

\* new_capability: nothing claimed, nothing delegated, version 1.
NewCapability(actions, max_uses, max_budget, expires_at) ==
  [actions |-> actions, max_uses |-> max_uses, uses_claimed |-> 0,
   uses_delegated |-> 0, max_budget |-> max_budget, budget_claimed |-> 0,
   budget_delegated |-> 0, expires_at |-> expires_at,
   revocation_version |-> 1, revoked |-> FALSE, claims |-> {},
   settled |-> {}, spent_amount |-> [i \in Intent |-> 0],
   spent |-> 0, reserved |-> 0]

\* validate_capability_shape: something is granted, for some time to come.
ValidShape(actions, max_uses, max_budget, expires_at, now) ==
  /\ actions # {}
  /\ max_uses > 0 \/ max_budget > 0
  /\ expires_at > now

\* assert_authorized_with_clock.
Authorized(k, q, now) ==
  /\ ~k.revoked
  /\ now < k.expires_at
  /\ q.action \in k.actions

\* Fault: the nonce table is not consulted.
FreshTokensNonceIgnored(k, q) ==
  \A r \in k.claims :
    /\ r.command_id # q.command_id
    /\ r.idempotency_key # q.idempotency_key
    /\ r.intent # q.intent

\* No token of the call was used before.
FreshTokens(k, q) ==
  \A r \in k.claims :
    /\ r.command_id # q.command_id
    /\ r.idempotency_key # q.idempotency_key
    /\ r.nonce # q.nonce
    /\ r.intent # q.intent

\* Fault: the last use is granted twice.
WithinUsesOffByOne(k) ==
  k.max_uses > 0 => k.uses_claimed + k.uses_delegated <= k.max_uses

WithinUses(k) ==
  k.max_uses > 0 => k.uses_claimed + k.uses_delegated < k.max_uses

WithinBudget(k, q) ==
  q.budget_amount > 0 =>
    k.budget_claimed + k.budget_delegated + q.budget_amount <= k.max_budget

\* claim_use accepts a repetition of a recorded claim, which changes nothing,
\* or a claim none of whose tokens is known; everything else aborts.
CanClaim(k, q, now) ==
  /\ Authorized(k, q, now)
  /\ \/ q \in k.claims
     \/ FreshTokens(k, q) /\ WithinUses(k) /\ WithinBudget(k, q)

ClaimUse(k, q) ==
  IF q \in k.claims THEN k
  ELSE [k EXCEPT !.claims = @ \cup {q},
                 !.uses_claimed = IF k.max_uses > 0 THEN @ + 1 ELSE @,
                 !.budget_claimed = @ + q.budget_amount]

\* The assertion that ends claim_bound_use and settle_bound_budget.
Balanced(k) == k.spent + k.reserved = k.budget_claimed

\* claim_bound_use: claim_use, and a reservation of the whole amount.
ClaimBoundUse(k, q) ==
  IF q \in k.claims THEN k
  ELSE [ClaimUse(k, q) EXCEPT !.reserved = @ + q.budget_amount]

\* settle_bound_budget, its assertions.
CanSettle(k, q, amount) ==
  /\ q \in k.claims
  /\ amount <= q.budget_amount
  /\ IF q.intent \in k.settled
     THEN k.spent_amount[q.intent] = amount
     ELSE /\ k.reserved >= q.budget_amount
          /\ k.budget_claimed >= q.budget_amount
          /\ Balanced(k)

\* Fault: only what was spent leaves the reservation, the rest stays reserved.
SettleBoundBudgetKeepsRest(k, q, amount) ==
  IF q.intent \in k.settled THEN k
  ELSE [k EXCEPT !.settled = @ \cup {q.intent},
                 !.spent_amount[q.intent] = amount,
                 !.reserved = @ - amount,
                 !.spent = @ + amount]

\* settle_bound_budget, its effect: the reservation becomes what was spent,
\* the rest of it is free again; the use and the tokens are not.
SettleBoundBudget(k, q, amount) ==
  IF q.intent \in k.settled THEN k
  ELSE [k EXCEPT !.settled = @ \cup {q.intent},
                 !.spent_amount[q.intent] = amount,
                 !.reserved = @ - q.budget_amount,
                 !.spent = @ + amount,
                 !.budget_claimed = (@ - q.budget_amount) + amount]

\* revoke_capability.
Revoke(k) ==
  [k EXCEPT !.revoked = TRUE, !.revocation_version = @ + 1]

-----------------------------------------------------------------------------
(* What a capability promises, stated of one record.                       *)

Outstanding(k) == {q \in k.claims : q.intent \notin k.settled}

ReservedUnits(k) == UNION {Units(q, q.budget_amount) : q \in Outstanding(k)}

SpentUnits(k) ==
  UNION {Units(q, k.spent_amount[q.intent]) : q \in k.claims \ Outstanding(k)}

\* The ledger totals are the sums over the individual claims.
LedgerExact(k) ==
  /\ k.reserved = Cardinality(ReservedUnits(k))
  /\ k.spent = Cardinality(SpentUnits(k))
  /\ Balanced(k)

\* Neither claims nor delegation ever exceed what was granted.
WithinLimits(k) ==
  /\ k.budget_claimed + k.budget_delegated <= k.max_budget
  /\ k.max_uses > 0 => k.uses_claimed + k.uses_delegated <= k.max_uses

\* Each claim consumed one use, for good.
UsesExact(k) == k.max_uses > 0 => k.uses_claimed = Cardinality(k.claims)

\* No token ever serves two claims.
TokensUnique(k) ==
  \A q, r \in k.claims :
    q # r => /\ q.command_id # r.command_id
             /\ q.nonce # r.nonce
             /\ q.idempotency_key # r.idempotency_key
             /\ q.intent # r.intent

\* Only claims are settled.
SettledClaimed(k) == \A i \in k.settled : \E q \in k.claims : q.intent = i

\* The inductive invariant of one capability: the promises above, with the
\* finiteness that makes their cardinalities meaningful.
CapabilityInv(k) ==
  /\ k \in Capability
  /\ IsFiniteSet(k.claims)
  /\ IsFiniteSet(ReservedUnits(k))
  /\ IsFiniteSet(SpentUnits(k))
  /\ LedgerExact(k)
  /\ WithinLimits(k)
  /\ UsesExact(k)
  /\ TokensUnique(k)
  /\ SettledClaimed(k)
=============================================================================
