------------------------ MODULE NodeExecution_proofs ------------------------
(***************************************************************************)
(* Proofs about RemoteCapability and NodeExecution, for any sets of        *)
(* capabilities, Agents, calls and offers and any bounds.                  *)
(***************************************************************************)
EXTENDS NodeExecution, Units_proofs

-----------------------------------------------------------------------------
(* What the functions of remote_authority.move do to one capability: each  *)
(* of them preserves CapabilityInv, for all token sets, calls and amounts. *)
(* Sums over claims are cardinalities of sets of units, so that adding or  *)
(* settling one claim adds or removes one block of units.                  *)


\* A new capability satisfies the invariant.
LEMMA NewCapabilityInv ==
  ASSUME NEW actions \in SUBSET Action, NEW max_uses \in Nat,
         NEW max_budget \in Nat, NEW expires_at \in Nat
  PROVE  CapabilityInv(NewCapability(actions, max_uses, max_budget, expires_at))
<1> DEFINE k == NewCapability(actions, max_uses, max_budget, expires_at)
<1>1. k \in Capability
  BY DEF NewCapability, Capability
<1>2. k.claims = {} /\ k.settled = {} /\ k.reserved = 0 /\ k.spent = 0
      /\ k.budget_claimed = 0 /\ k.uses_claimed = 0 /\ k.budget_delegated = 0
      /\ k.uses_delegated = 0 /\ k.max_uses = max_uses /\ k.max_budget = max_budget
  BY DEF NewCapability
<1> HIDE DEF k
<1>3. ReservedUnits(k) = {} /\ SpentUnits(k) = {}
  BY <1>2 DEF ReservedUnits, SpentUnits, Outstanding
<1>4. IsFiniteSet({}) /\ Cardinality({}) = 0
  BY FS_EmptySet
<1>5. CapabilityInv(k)
  BY <1>1, <1>2, <1>3, <1>4
     DEF CapabilityInv, LedgerExact, Balanced, WithinLimits, UsesExact,
         TokensUnique, SettledClaimed
<1> QED
  BY <1>5 DEF k

\* Revoking a capability touches neither its counters nor its ledger.
LEMMA RevokeInv ==
  ASSUME NEW k, CapabilityInv(k)
  PROVE  CapabilityInv(Revoke(k))
<1> DEFINE n == Revoke(k)
<1>1. k \in Capability
  BY DEF CapabilityInv
<1>2. n \in Capability
  <2>1. k.revocation_version + 1 \in Nat
    BY <1>1 DEF Capability
  <2> QED
    BY <1>1, <2>1 DEF Revoke, Capability
<1>3. /\ n.claims = k.claims /\ n.settled = k.settled
      /\ n.spent_amount = k.spent_amount /\ n.reserved = k.reserved
      /\ n.spent = k.spent /\ n.budget_claimed = k.budget_claimed
      /\ n.budget_delegated = k.budget_delegated /\ n.max_budget = k.max_budget
      /\ n.max_uses = k.max_uses /\ n.uses_claimed = k.uses_claimed
      /\ n.uses_delegated = k.uses_delegated
  BY <1>1 DEF Revoke, Capability
<1> HIDE DEF n
<1>4. ReservedUnits(n) = ReservedUnits(k) /\ SpentUnits(n) = SpentUnits(k)
  BY <1>3 DEF ReservedUnits, SpentUnits, Outstanding
<1>5. CapabilityInv(n)
  BY <1>2, <1>3, <1>4
     DEF CapabilityInv, LedgerExact, Balanced, WithinLimits, UsesExact,
         TokensUnique, SettledClaimed
<1> QED
  BY <1>5 DEF n

\* A claim that is accepted adds its amount to the reservation and to
\* budget_claimed and stays within the limits; a repetition changes nothing.
LEMMA ClaimBoundUseInv ==
  ASSUME NEW k, CapabilityInv(k), NEW q \in Call, NEW now, CanClaim(k, q, now)
  PROVE  CapabilityInv(ClaimBoundUse(k, q))
<1>1. CASE q \in k.claims
  BY <1>1 DEF ClaimBoundUse
<1>2. CASE q \notin k.claims
  <2> DEFINE n == ClaimBoundUse(k, q)
             b == q.budget_amount
             uses == IF k.max_uses > 0 THEN k.uses_claimed + 1 ELSE k.uses_claimed
  <2>1. k \in Capability /\ b \in Nat
    BY CallAssumption DEF CapabilityInv
  <2>2. /\ k.claims \in SUBSET Call /\ k.settled \in SUBSET Intent
        /\ k.reserved \in Nat /\ k.spent \in Nat /\ k.budget_claimed \in Nat
        /\ k.uses_claimed \in Nat /\ k.max_uses \in Nat
        /\ k.uses_delegated \in Nat /\ k.budget_delegated \in Nat
        /\ k.max_budget \in Nat
    BY <2>1 DEF Capability
  <2>3. FreshTokens(k, q) /\ WithinUses(k) /\ WithinBudget(k, q)
    BY <1>2 DEF CanClaim
  <2>4. n = [k EXCEPT !.claims = k.claims \cup {q}, !.uses_claimed = uses,
                      !.budget_claimed = k.budget_claimed + b,
                      !.reserved = k.reserved + b]
    BY <1>2, <2>1 DEF ClaimBoundUse, ClaimUse, Capability
  <2>5. /\ k.claims \cup {q} \in SUBSET Call /\ uses \in Nat
        /\ k.budget_claimed + b \in Nat /\ k.reserved + b \in Nat
    BY <2>1, <2>2
  <2> HIDE DEF b, uses
  <2>6. n \in Capability
    BY <2>1, <2>4, <2>5 DEF Capability
  <2>7. /\ n.claims = k.claims \cup {q} /\ n.settled = k.settled
        /\ n.spent_amount = k.spent_amount /\ n.reserved = k.reserved + b
        /\ n.spent = k.spent /\ n.budget_claimed = k.budget_claimed + b
        /\ n.budget_delegated = k.budget_delegated /\ n.max_budget = k.max_budget
        /\ n.max_uses = k.max_uses /\ n.uses_claimed = uses
        /\ n.uses_delegated = k.uses_delegated
    BY <2>1, <2>4 DEF Capability
  <2> HIDE DEF n
  <2>8. q.intent \notin k.settled
    BY <2>3 DEF CapabilityInv, SettledClaimed, FreshTokens
  <2>9. Outstanding(n) = Outstanding(k) \cup {q} /\ q \notin Outstanding(k)
    BY <1>2, <2>7, <2>8 DEF Outstanding
  <2>10. ReservedUnits(n) = ReservedUnits(k) \cup Units(q, b)
    BY <2>9 DEF ReservedUnits, b
  <2>11. ReservedUnits(k) \cap Units(q, b) = {}
    <3>1. \A u \in ReservedUnits(k) : u[1] # q
      BY <2>9 DEF ReservedUnits, Units
    <3> QED
      BY <3>1, UnitsDisjoint
  <2>12. /\ IsFiniteSet(ReservedUnits(n))
         /\ Cardinality(ReservedUnits(n)) = Cardinality(ReservedUnits(k)) + b
    BY <2>1, <2>10, <2>11, AddUnits DEF CapabilityInv, b
  <2>13. SpentUnits(n) = SpentUnits(k)
    <3>1. n.claims \ Outstanding(n) = k.claims \ Outstanding(k)
      BY <1>2, <2>7, <2>9
    <3> QED
      BY <3>1, <2>7 DEF SpentUnits
  <2>14. LedgerExact(n)
    BY <2>1, <2>2, <2>7, <2>12, <2>13 DEF LedgerExact, Balanced, CapabilityInv, b
  <2>15. WithinLimits(n)
    BY <2>1, <2>2, <2>3, <2>7
       DEF WithinLimits, WithinUses, WithinBudget, CapabilityInv, b, uses
  <2>16. IsFiniteSet(n.claims) /\ Cardinality(n.claims) = Cardinality(k.claims) + 1
    BY <1>2, <2>7, FS_AddElement DEF CapabilityInv
  <2>17. UsesExact(n)
    BY <2>2, <2>7, <2>16 DEF UsesExact, CapabilityInv, uses
  <2>18. TokensUnique(n)
    BY <2>3, <2>7 DEF TokensUnique, FreshTokens, CapabilityInv
  <2>19. SettledClaimed(n)
    BY <2>7 DEF SettledClaimed, CapabilityInv
  <2>20. IsFiniteSet(SpentUnits(n))
    BY <2>13 DEF CapabilityInv
  <2>21. CapabilityInv(n)
    BY <2>6, <2>12, <2>14, <2>15, <2>16, <2>17, <2>18, <2>19, <2>20 DEF CapabilityInv
  <2> QED
    BY <2>21 DEF n
<1> QED
  BY <1>1, <1>2

\* Settling a claim moves its block of units from the reservation to what was
\* spent and frees the rest; settling it again changes nothing.
LEMMA SettleBoundBudgetInv ==
  ASSUME NEW k, CapabilityInv(k), NEW q \in Call, NEW amount \in Nat,
         CanSettle(k, q, amount)
  PROVE  CapabilityInv(SettleBoundBudget(k, q, amount))
<1>1. CASE q.intent \in k.settled
  BY <1>1 DEF SettleBoundBudget
<1>2. CASE q.intent \notin k.settled
  <2> DEFINE n == SettleBoundBudget(k, q, amount)
             b == q.budget_amount
             spending == [k.spent_amount EXCEPT ![q.intent] = amount]
  <2>1. k \in Capability /\ b \in Nat /\ q.intent \in Intent
    BY CallAssumption DEF CapabilityInv
  <2>2. /\ k.claims \in SUBSET Call /\ k.settled \in SUBSET Intent
        /\ k.reserved \in Nat /\ k.spent \in Nat /\ k.budget_claimed \in Nat
        /\ k.budget_delegated \in Nat /\ k.max_budget \in Nat
        /\ k.spent_amount \in [Intent -> Nat]
    BY <2>1 DEF Capability
  <2>3. /\ q \in k.claims /\ amount <= b /\ k.reserved >= b
        /\ k.budget_claimed >= b
    BY <1>2 DEF CanSettle
  <2>4. n = [k EXCEPT !.settled = k.settled \cup {q.intent},
                      !.spent_amount = spending,
                      !.reserved = k.reserved - b, !.spent = k.spent + amount,
                      !.budget_claimed = (k.budget_claimed - b) + amount]
    BY <1>2, <2>1 DEF SettleBoundBudget, Capability
  <2>5. /\ k.settled \cup {q.intent} \in SUBSET Intent
        /\ spending \in [Intent -> Nat] /\ k.reserved - b \in Nat
        /\ k.spent + amount \in Nat /\ (k.budget_claimed - b) + amount \in Nat
    BY <2>1, <2>2, <2>3
  <2>6. \A i \in Intent : spending[i] = IF i = q.intent THEN amount
                                        ELSE k.spent_amount[i]
    BY <2>2
  <2> HIDE DEF b, spending
  <2>7. n \in Capability
    BY <2>1, <2>4, <2>5 DEF Capability
  <2>8. /\ n.claims = k.claims /\ n.settled = k.settled \cup {q.intent}
        /\ n.spent_amount = spending /\ n.reserved = k.reserved - b
        /\ n.spent = k.spent + amount
        /\ n.budget_claimed = (k.budget_claimed - b) + amount
        /\ n.budget_delegated = k.budget_delegated /\ n.max_budget = k.max_budget
        /\ n.max_uses = k.max_uses /\ n.uses_claimed = k.uses_claimed
        /\ n.uses_delegated = k.uses_delegated
    BY <2>1, <2>4 DEF Capability
  <2> HIDE DEF n
  <2>9. \A r \in k.claims : r # q => r.intent # q.intent
    BY <2>3 DEF CapabilityInv, TokensUnique
  <2>10. Outstanding(n) = Outstanding(k) \ {q} /\ q \in Outstanding(k)
    BY <1>2, <2>3, <2>8, <2>9 DEF Outstanding
  <2>11. ReservedUnits(k) = ReservedUnits(n) \cup Units(q, b)
    BY <2>10 DEF ReservedUnits, b
  <2>12. ReservedUnits(n) \cap Units(q, b) = {}
    <3>1. \A u \in ReservedUnits(n) : u[1] # q
      BY <2>10 DEF ReservedUnits, Units
    <3> QED
      BY <3>1, UnitsDisjoint
  <2>13. IsFiniteSet(ReservedUnits(n))
    BY <2>11, FS_Subset DEF CapabilityInv
  <2>14. Cardinality(ReservedUnits(k)) = Cardinality(ReservedUnits(n)) + b
    BY <2>1, <2>11, <2>12, <2>13, AddUnits DEF b
  <2>15. SpentUnits(n) = SpentUnits(k) \cup Units(q, amount)
    <3>1. n.claims \ Outstanding(n) = (k.claims \ Outstanding(k)) \cup {q}
      BY <2>3, <2>8, <2>10
    <3>2. spending[q.intent] = amount
      BY <2>1, <2>6
    <3>3. \A r \in k.claims \ Outstanding(k) : spending[r.intent] = k.spent_amount[r.intent]
      <4> TAKE r \in k.claims \ Outstanding(k)
      <4>1. r # q /\ r \in Call
        BY <2>2, <2>10
      <4>2. r.intent \in Intent /\ r.intent # q.intent
        BY <4>1, <2>9, CallAssumption
      <4> QED
        BY <4>2, <2>6
    <3> QED
      BY <3>1, <3>2, <3>3, <2>8 DEF SpentUnits
  <2>16. SpentUnits(k) \cap Units(q, amount) = {}
    <3>1. \A u \in SpentUnits(k) : u[1] # q
      BY <2>10 DEF SpentUnits, Units
    <3> QED
      BY <3>1, UnitsDisjoint
  <2>17. /\ IsFiniteSet(SpentUnits(n))
         /\ Cardinality(SpentUnits(n)) = Cardinality(SpentUnits(k)) + amount
    BY <2>15, <2>16, AddUnits DEF CapabilityInv
  <2>18. LedgerExact(n)
    <3>1. Cardinality(ReservedUnits(n)) \in Nat /\ Cardinality(SpentUnits(k)) \in Nat
      BY <2>13, FS_CardinalityType DEF CapabilityInv
    <3> QED
      BY <3>1, <2>1, <2>2, <2>3, <2>8, <2>14, <2>17
         DEF LedgerExact, Balanced, CapabilityInv, b
  <2>19. WithinLimits(n)
    BY <2>1, <2>2, <2>3, <2>8 DEF WithinLimits, CapabilityInv, b
  <2>20. IsFiniteSet(n.claims) /\ UsesExact(n) /\ TokensUnique(n)
    BY <2>8 DEF UsesExact, TokensUnique, CapabilityInv
  <2>21. SettledClaimed(n)
    BY <2>3, <2>8 DEF SettledClaimed, CapabilityInv
  <2>22. CapabilityInv(n)
    BY <2>7, <2>13, <2>17, <2>18, <2>19, <2>20, <2>21 DEF CapabilityInv
  <2> QED
    BY <2>22 DEF n
<1> QED
  BY <1>1, <1>2

\* Which claims there are and which of them are settled, after each function.
LEMMA ClaimsAndSettled ==
  ASSUME NEW k \in Capability, NEW q \in Call
  PROVE  /\ ClaimBoundUse(k, q).claims = k.claims \cup {q}
         /\ ClaimBoundUse(k, q).settled = k.settled
         /\ \A amount : /\ SettleBoundBudget(k, q, amount).claims = k.claims
                        /\ SettleBoundBudget(k, q, amount).settled =
                             k.settled \cup {q.intent}
         /\ Revoke(k).claims = k.claims
         /\ Revoke(k).settled = k.settled
<1>1. k.claims \cup {q} = k.claims \/ q \notin k.claims
  OBVIOUS
<1>2. k.settled \cup {q.intent} = k.settled \/ q.intent \notin k.settled
  OBVIOUS
<1>3. /\ ClaimBoundUse(k, q).claims = k.claims \cup {q}
      /\ ClaimBoundUse(k, q).settled = k.settled
  BY <1>1 DEF ClaimBoundUse, ClaimUse, Capability
<1>4. \A amount : /\ SettleBoundBudget(k, q, amount).claims = k.claims
                  /\ SettleBoundBudget(k, q, amount).settled =
                       k.settled \cup {q.intent}
  BY <1>2 DEF SettleBoundBudget, Capability
<1>5. Revoke(k).claims = k.claims /\ Revoke(k).settled = k.settled
  BY DEF Revoke, Capability
<1> QED
  BY <1>3, <1>4, <1>5

-----------------------------------------------------------------------------
(* The contract: inputs, types and the ledger.                             *)

\* What the assumptions say of the members of Call, Offer and Runs.
LEMMA Inputs ==
  /\ \A q \in Call : q.intent \in Intent /\ q.budget_amount \in Nat
                     /\ q.issued_at \in Nat /\ q.expires_at \in Nat
  /\ \A o \in Offer : /\ o.target \in Target /\ o.actions \in SUBSET Action
                      /\ o.max_uses \in Nat /\ o.max_budget \in Nat
                      /\ o.expires_at \in Nat /\ o.contract \in BOOLEAN
  BY CallAssumption, SetAssumption DEF Target

\* The two functions of the execution index return an index entry.
LEMMA RecordedIndexType ==
  ASSUME NEW e \in IndexEntry, NEW c, NEW q, <<c, q>> \in Runs
  PROVE  RecordedIndex(e, c, q) \in IndexEntry
<1>1. /\ e.executions \cup {<<c, q>>} \in SUBSET Runs
      /\ e.unsettled_control + 1 \in Nat /\ e.unsettled_control \in Nat
      /\ e.revision + 1 \in Nat
  BY DEF IndexEntry
<1> QED
  BY <1>1 DEF RecordedIndex, IndexEntry

\* Settling an execution keeps the type of an index entry.
LEMMA SettledIndexType ==
  ASSUME NEW e \in IndexEntry, NEW c, NEW q, <<c, q>> \in Runs,
         q.action \in ControlAction => e.unsettled_control > 0
  PROVE  SettledIndex(e, c, q) \in IndexEntry
<1>1. /\ e.settled \cup {<<c, q>>} \in SUBSET Runs
      /\ q.action \in ControlAction => e.unsettled_control - 1 \in Nat
      /\ e.unsettled_control \in Nat
      /\ e.revision + 1 \in Nat
  BY DEF IndexEntry
<1> QED
  BY <1>1 DEF SettledIndex, IndexEntry

-----------------------------------------------------------------------------
(* The ledger invariant.                                                   *)

\* At first no capability is issued, nothing is claimed and no run exists.
LEMMA InitLedger == Init => LedgerInv
<1> SUFFICES ASSUME Init PROVE LedgerInv
  OBVIOUS
<1>1. CapabilityInv(NewCapability({}, 0, 0, 0))
  BY NewCapabilityInv
<1>2. NewCapability({}, 0, 0, 0) \in Capability
  BY <1>1 DEF CapabilityInv
<1>3. NewCapability({}, 0, 0, 0).claims = {}
  BY DEF NewCapability
<1> DEFINE k == NewCapability({}, 0, 0, 0)
<1> HIDE DEF k
<1>4. k \in Capability /\ k.claims = {} /\ CapabilityInv(k) /\ cap = [c \in Cap |-> k]
  BY <1>1, <1>2, <1>3 DEF k, Init
<1>5. TypeOK
  <2>1. NotIssued \in AuthorityBinding
    BY DEF NotIssued, AuthorityBinding, Target
  <2>2. NoRun \in Execution
    BY DEF NoRun, Execution, RunState
  <2>3. managed \in [Agent -> [version : Nat, revoked : BOOLEAN,
                               control_confirmed : BOOLEAN, membership : Nat]]
    BY DEF Init
  <2>4. index \in [Agent -> IndexEntry]
    BY DEF Init, IndexEntry
  <2>5. run \in [Runs -> Execution] /\ authority \in [Cap -> AuthorityBinding]
    BY <2>1, <2>2 DEF Init
  <2>6. grant \in Grant
    BY DEF Init, NewGrant, Grant
  <2>7. queue \in Seq(Runs) /\ record \in [Intent -> Nat]
        /\ result_keys \in [Cap -> SUBSET (Intent \X Nat)]
    BY DEF Init
  <2>8. member \in [id : Nat, revoked : BOOLEAN, bound : BOOLEAN]
    BY DEF Init
  <2>9. cap \in [Cap -> Capability]
    BY <1>4
  <2> QED
    BY <2>3, <2>4, <2>5, <2>6, <2>7, <2>8, <2>9 DEF Init, TypeOK
<1>6. \A c \in Cap : CapabilityInv(cap[c])
  BY <1>4
<1>7. RunPerClaim
  BY <1>4 DEF RunPerClaim, Init, NoRun, Runs
<1>8. SettledExactlyWhenTerminal
  BY <1>4 DEF SettledExactlyWhenTerminal
<1>9. \A c \in Cap : cap[c].claims = {}
  BY <1>4
<1> QED
  BY <1>5, <1>6, <1>7, <1>8, <1>9 DEF LedgerInv

\* A step that changes neither capabilities nor runs keeps what relates them.
LEMMA LedgerFrame ==
  ASSUME LedgerInv, TypeOK', UNCHANGED <<cap, run, authority>>
  PROVE  LedgerInv'
  BY DEF LedgerInv, RunPerClaim, SettledExactlyWhenTerminal

\* Issuing a capability: its object is new and holds no claim.
LEMMA IssueStep ==
  ASSUME LedgerInv, NEW c \in Cap, NEW o \in Offer, IssueCapability(c, o)
  PROVE  LedgerInv'
<1> DEFINE k == NewCapability(o.actions, o.max_uses, o.max_budget, o.expires_at)
<1>1. CapabilityInv(k) /\ k.claims = {}
  BY NewCapabilityInv, Inputs DEF NewCapability
<1>2. k \in Capability
  BY <1>1 DEF CapabilityInv
<1> HIDE DEF k
<1>3. /\ cap' = [cap EXCEPT ![c] = k]
      /\ ~authority[c].issued
      /\ UNCHANGED run
  BY DEF IssueCapability, k, runVars
<1>4. TypeOK
  BY DEF LedgerInv
<1>5. \A d \in Cap : cap'[d] = IF d = c THEN k ELSE cap[d]
  BY <1>3, <1>4 DEF TypeOK
<1>6. \A d \in Cap : cap'[d].claims = cap[d].claims
  BY <1>1, <1>3, <1>5 DEF LedgerInv
<1>7. TypeOK'
  <2>1. cap' \in [Cap -> Capability]
    BY <1>2, <1>3, <1>4 DEF TypeOK
  <2>2. authority' \in [Cap -> AuthorityBinding]
    BY <1>4, Inputs DEF IssueCapability, TypeOK, AuthorityBinding, Grant
  <2> QED
    BY <1>4, <2>1, <2>2
       DEF IssueCapability, TypeOK, orgVars, humanVars, hostVars, runVars
<1>8. \A d \in Cap : CapabilityInv(cap'[d])
  BY <1>1, <1>5 DEF LedgerInv
<1>9. RunPerClaim'
  BY <1>3, <1>6 DEF RunPerClaim, LedgerInv
<1>10. SettledExactlyWhenTerminal'
  BY <1>1, <1>3, <1>5 DEF SettledExactlyWhenTerminal, LedgerInv
<1>11. \A d \in Cap : ~authority'[d].issued => cap'[d].claims = {}
  BY <1>4, <1>6 DEF LedgerInv, IssueCapability, TypeOK
<1> QED
  BY <1>7, <1>8, <1>9, <1>10, <1>11 DEF LedgerInv

\* Revoking a capability leaves its claims and their settlement alone.
LEMMA RevokeStep ==
  ASSUME LedgerInv, NEW c \in Cap, RevokeCapability(c)
  PROVE  LedgerInv'
<1>1. TypeOK /\ CapabilityInv(cap[c]) /\ cap[c] \in Capability
  BY DEF LedgerInv, CapabilityInv
<1>2. cap' = [cap EXCEPT ![c] = Revoke(cap[c])] /\ UNCHANGED <<run, authority>>
  BY DEF RevokeCapability, runVars
<1>3. CapabilityInv(Revoke(cap[c]))
  BY <1>1, RevokeInv
<1>4. \A d \in Cap : cap'[d] = IF d = c THEN Revoke(cap[c]) ELSE cap[d]
  BY <1>1, <1>2 DEF TypeOK
<1>5. Revoke(cap[c]).claims = cap[c].claims /\ Revoke(cap[c]).settled = cap[c].settled
  BY <1>1 DEF Revoke, Capability
<1>6. \A d \in Cap : cap'[d].claims = cap[d].claims /\ cap'[d].settled = cap[d].settled
  BY <1>4, <1>5
<1>7. \A d \in Cap : CapabilityInv(cap'[d])
  BY <1>3, <1>4 DEF LedgerInv
<1>8. TypeOK'
  <2>1. cap' \in [Cap -> Capability]
    BY <1>1, <1>2, <1>3 DEF TypeOK, CapabilityInv
  <2> QED
    BY <1>1, <2>1
       DEF RevokeCapability, TypeOK, orgVars, humanVars, hostVars, runVars
<1>9. RunPerClaim' /\ SettledExactlyWhenTerminal'
  BY <1>2, <1>6 DEF RunPerClaim, SettledExactlyWhenTerminal, LedgerInv
<1>10. \A d \in Cap : ~authority'[d].issued => cap'[d].claims = {}
  BY <1>2, <1>6 DEF LedgerInv
<1> QED
  BY <1>7, <1>8, <1>9, <1>10 DEF LedgerInv

\* Preparing a command: a new claim and its queued run, or nothing.
LEMMA PrepareStep ==
  ASSUME LedgerInv, NEW c \in Cap, NEW q \in Call, PrepareCommand(c, q)
  PROVE  LedgerInv'
<1> DEFINE k == ClaimBoundUse(cap[c], q)
<1>1. TypeOK /\ CapabilityInv(cap[c]) /\ cap[c] \in Capability
  BY DEF LedgerInv, CapabilityInv
<1>2. CanClaim(cap[c], q, clock) /\ authority[c].issued /\ UNCHANGED authority
  BY DEF PrepareCommand, AssertAuthority, AssertDeviceAuthority
<1>3. CapabilityInv(k)
  BY <1>1, <1>2, ClaimBoundUseInv
<1>4. k.claims = cap[c].claims \cup {q} /\ k.settled = cap[c].settled
  BY <1>1, ClaimsAndSettled
<1>5. cap' = [cap EXCEPT ![c] = k]
  BY DEF PrepareCommand
<1> HIDE DEF k
<1>6. \A d \in Cap : cap'[d] = IF d = c THEN k ELSE cap[d]
  BY <1>1, <1>5 DEF TypeOK
<1>7. \A d \in Cap : CapabilityInv(cap'[d])
  BY <1>3, <1>6 DEF LedgerInv
<1>8. cap' \in [Cap -> Capability]
  BY <1>1, <1>3, <1>5 DEF TypeOK, CapabilityInv
<1>9. \A d \in Cap : ~authority'[d].issued => cap'[d].claims = {}
  BY <1>2, <1>6 DEF LedgerInv
<1>10. CASE q \in cap[c].claims
  <2>1. UNCHANGED <<run, index>>
    BY <1>10 DEF PrepareCommand
  <2>2. TypeOK'
    BY <1>1, <1>8, <2>1 DEF PrepareCommand, TypeOK, orgVars, humanVars, hostVars
  <2>3. \A d \in Cap : cap'[d].claims = cap[d].claims /\ cap'[d].settled = cap[d].settled
    BY <1>4, <1>6, <1>10
  <2>4. RunPerClaim' /\ SettledExactlyWhenTerminal'
    BY <2>1, <2>3 DEF RunPerClaim, SettledExactlyWhenTerminal, LedgerInv
  <2> QED
    BY <1>7, <1>9, <2>2, <2>4 DEF LedgerInv
<1>11. CASE q \notin cap[c].claims
  <2> DEFINE e == [NoRun EXCEPT !.state = "queued", !.cursor = 1,
                     !.capability_version = cap[c].revocation_version]
  <2>1. run' = [run EXCEPT ![<<c, q>>] = e]
    BY <1>11 DEF PrepareCommand
  <2>2. e \in Execution /\ e.state = "queued"
    <3>1. cap[c].revocation_version \in Nat
      BY <1>1 DEF Capability
    <3> QED
      BY <3>1 DEF NoRun, Execution, RunState
  <2> HIDE DEF e
  <2>3. <<c, q>> \in Runs
    BY DEF Runs
  <2>4. run' \in [Runs -> Execution]
    BY <1>1, <2>1, <2>2 DEF TypeOK
  <2>5. \A r \in Runs : run'[r] = IF r = <<c, q>> THEN e ELSE run[r]
    BY <1>1, <2>1, <2>3 DEF TypeOK
  <2>6. index' \in [Agent -> IndexEntry]
    <3>1. CASE IsTracked(c)
      <4> DEFINE a == authority[c].target
      <4>1. RecordAgentExecution(c, q) /\ a \in Agent
        BY <1>11, <3>1, SetAssumption DEF PrepareCommand, IsTracked
      <4>2. index[a] \in IndexEntry
        BY <1>1, <4>1 DEF TypeOK
      <4>3. index' = [index EXCEPT ![a] = RecordedIndex(index[a], c, q)]
        BY <4>1 DEF RecordAgentExecution
      <4>4. RecordedIndex(index[a], c, q) \in IndexEntry
        BY <2>3, <4>2, RecordedIndexType
      <4> QED
        BY <1>1, <4>3, <4>4 DEF TypeOK
    <3>2. CASE ~IsTracked(c)
      BY <1>1, <1>11, <3>2 DEF PrepareCommand, TypeOK
    <3> QED
      BY <3>1, <3>2
  <2>7. TypeOK'
    BY <1>1, <1>8, <2>4, <2>6 DEF PrepareCommand, TypeOK, orgVars, humanVars, hostVars
  <2>8. \A d \in Cap, p \in Call : <<d, p>> \in Runs
    BY DEF Runs
  <2>9. RunPerClaim'
    <3> SUFFICES ASSUME NEW d \in Cap, NEW p \in Call
                 PROVE  p \in cap'[d].claims <=> run'[<<d, p>>].state # "none"
      BY DEF RunPerClaim
    <3>1. CASE d = c /\ p = q
      BY <1>4, <1>6, <2>2, <2>5, <2>8, <3>1
    <3>2. CASE ~(d = c /\ p = q)
      <4>1. run'[<<d, p>>] = run[<<d, p>>]
        BY <2>5, <2>8, <3>2
      <4>2. p \in cap'[d].claims <=> p \in cap[d].claims
        BY <1>4, <1>6, <3>2
      <4> QED
        BY <4>1, <4>2 DEF RunPerClaim, LedgerInv
    <3> QED
      BY <3>1, <3>2
  <2>10. q.intent \notin cap[c].settled
    BY <1>1, <1>2, <1>11
       DEF CanClaim, FreshTokens, CapabilityInv, SettledClaimed
  <2>11. \A d \in Cap : cap'[d].claims \in SUBSET Call
    BY <1>8 DEF Capability
  <2>12. SettledExactlyWhenTerminal'
    <3> SUFFICES ASSUME NEW d \in Cap, NEW p \in cap'[d].claims
                 PROVE  p.intent \in cap'[d].settled <=> run'[<<d, p>>].state \in Terminal
      BY DEF SettledExactlyWhenTerminal
    <3>1. CASE d = c /\ p = q
      BY <1>4, <1>6, <2>2, <2>5, <2>8, <2>10, <3>1 DEF Terminal, Final
    <3>2. CASE ~(d = c /\ p = q)
      <4>1. run'[<<d, p>>] = run[<<d, p>>]
        BY <2>5, <2>8, <2>11, <3>2
      <4>2. p \in cap[d].claims /\ cap'[d].settled = cap[d].settled
        BY <1>4, <1>6, <3>2
      <4> QED
        BY <4>1, <4>2 DEF SettledExactlyWhenTerminal, LedgerInv
    <3> QED
      BY <3>1, <3>2
  <2> QED
    BY <1>7, <1>9, <2>7, <2>9, <2>12 DEF LedgerInv
<1> QED
  BY <1>10, <1>11

\* The effect of settling the index is typed, whatever the target.
LEMMA SettleIndexStep ==
  ASSUME TypeOK, NEW c \in Cap, NEW q \in Call, SettleAgentExecution(c, q)
  PROVE  index' \in [Agent -> IndexEntry]
<1>1. CASE ~IsTracked(c)
  BY <1>1 DEF SettleAgentExecution, TypeOK
<1>2. CASE IsTracked(c)
  <2> DEFINE a == authority[c].target
  <2>1. /\ a \in Agent
        /\ q.action \in ControlAction => index[a].unsettled_control > 0
        /\ index' = [index EXCEPT ![a] = SettledIndex(index[a], c, q)]
    BY <1>2, SetAssumption DEF SettleAgentExecution, IsTracked
  <2>2. index[a] \in IndexEntry /\ <<c, q>> \in Runs
    BY <2>1 DEF TypeOK, Runs
  <2>3. SettledIndex(index[a], c, q) \in IndexEntry
    BY <2>1, <2>2, SettledIndexType
  <2> QED
    BY <2>1, <2>3 DEF TypeOK
<1> QED
  BY <1>1, <1>2

\* A run that leaves an unsettled state for a terminal one while its claim is
\* settled keeps the ledger invariant: the common part of finishing a run
\* with a known outcome and of cancelling a queued one.
LEMMA SettlementKeepsLedger ==
  ASSUME LedgerInv, TypeOK', NEW c \in Cap, NEW q \in Call, NEW amount \in Nat,
         run[<<c, q>>].state # "none",
         CanSettle(cap[c], q, amount),
         cap' = [cap EXCEPT ![c] = SettleBoundBudget(cap[c], q, amount)],
         UNCHANGED authority,
         \A r \in Runs : r # <<c, q>> => run'[r] = run[r],
         run'[<<c, q>>].state \in Terminal
  PROVE  LedgerInv'
<1> DEFINE k == SettleBoundBudget(cap[c], q, amount)
<1>1. TypeOK /\ CapabilityInv(cap[c]) /\ cap[c] \in Capability
  BY DEF LedgerInv, CapabilityInv
<1>2. CapabilityInv(k)
  BY <1>1, SettleBoundBudgetInv
<1>3. k.claims = cap[c].claims /\ k.settled = cap[c].settled \cup {q.intent}
  BY <1>1, ClaimsAndSettled
<1> HIDE DEF k
<1>4. \A d \in Cap : cap'[d] = IF d = c THEN k ELSE cap[d]
  BY <1>1 DEF TypeOK, k
<1>5. \A d \in Cap : CapabilityInv(cap'[d])
  BY <1>2, <1>4 DEF LedgerInv
<1>6. \A d \in Cap : cap'[d].claims = cap[d].claims
  BY <1>3, <1>4
<1>7. \A d \in Cap, p \in Call :
        <<d, p>> \in Runs /\ (<<d, p>> = <<c, q>> <=> d = c /\ p = q)
  BY DEF Runs
<1>8. q \in cap[c].claims
  BY DEF LedgerInv, RunPerClaim
<1>9. RunPerClaim'
  <2> SUFFICES ASSUME NEW d \in Cap, NEW p \in Call
               PROVE  p \in cap'[d].claims <=> run'[<<d, p>>].state # "none"
    BY DEF RunPerClaim
  <2>1. CASE d = c /\ p = q
    BY <1>6, <1>8, <2>1 DEF Terminal, Final
  <2>2. CASE ~(d = c /\ p = q)
    BY <1>6, <1>7, <2>2 DEF RunPerClaim, LedgerInv
  <2> QED
    BY <2>1, <2>2
<1>10. SettledExactlyWhenTerminal'
  <2> SUFFICES ASSUME NEW d \in Cap, NEW p \in cap'[d].claims
               PROVE  p.intent \in cap'[d].settled <=> run'[<<d, p>>].state \in Terminal
    BY DEF SettledExactlyWhenTerminal
  <2>1. p \in cap[d].claims /\ p \in Call
    BY <1>1, <1>6 DEF TypeOK, Capability
  <2>2. CASE d = c /\ p = q
    BY <1>3, <1>4, <2>2
  <2>3. CASE ~(d = c /\ p = q)
    <3>1. run'[<<d, p>>] = run[<<d, p>>]
      BY <1>7, <2>1, <2>3
    <3>2. p.intent \in cap'[d].settled <=> p.intent \in cap[d].settled
      <4>1. CASE d = c
        BY <1>1, <1>3, <1>4, <1>8, <2>1, <2>3, <4>1 DEF CapabilityInv, TokensUnique
      <4>2. CASE d # c
        BY <1>4, <4>2
      <4> QED
        BY <4>1, <4>2
    <3> QED
      BY <2>1, <3>1, <3>2 DEF SettledExactlyWhenTerminal, LedgerInv
  <2> QED
    BY <2>2, <2>3
<1>11. \A d \in Cap : ~authority'[d].issued => cap'[d].claims = {}
  BY <1>6 DEF LedgerInv
<1> QED
  BY <1>5, <1>9, <1>10, <1>11 DEF LedgerInv

\* A run that changes without reaching or leaving a terminal state, under a
\* capability that does not change, keeps the ledger invariant.
LEMMA RunChangeKeepsLedger ==
  ASSUME LedgerInv, TypeOK', UNCHANGED <<cap, authority>>, NEW r \in Runs,
         \A s \in Runs : s # r => run'[s] = run[s],
         run[r].state \notin Terminal \cup {"none"},
         run'[r].state \notin Terminal \cup {"none"}
  PROVE  LedgerInv'
<1>1. \A d \in Cap, p \in Call : <<d, p>> \in Runs
  BY DEF Runs
<1>2. \A d \in Cap : cap[d].claims \in SUBSET Call
  BY DEF LedgerInv, TypeOK, Capability
<1>3. RunPerClaim'
  BY <1>1 DEF RunPerClaim, LedgerInv
<1>4. SettledExactlyWhenTerminal'
  BY <1>1, <1>2 DEF SettledExactlyWhenTerminal, LedgerInv
<1> QED
  BY <1>3, <1>4 DEF LedgerInv

\* Finishing a run: its claim is settled, or it needs confirmation and keeps
\* its reservation.
LEMMA FinishStep ==
  ASSUME LedgerInv, NEW c \in Cap, NEW q \in Call, NEW cursor,
         NEW final_state \in Final, NEW amount \in 0 .. q.budget_amount,
         NEW own_key \in BOOLEAN,
         FinishCommand(c, q, cursor, final_state, amount, own_key)
  PROVE  LedgerInv'
<1> DEFINE r == <<c, q>>
           e == [run[r] EXCEPT !.state = final_state, !.result_record = TRUE,
                               !.cursor = @ + 1]
<1>1. TypeOK /\ r \in Runs /\ amount \in Nat
  BY Inputs DEF LedgerInv, Runs
<1>2. run[r].state = "running" /\ run' = [run EXCEPT ![r] = e]
  BY DEF FinishCommand
<1>3. run[r] \in Execution
  BY <1>1 DEF TypeOK
<1>4. e \in Execution /\ e.state = final_state
  <2>1. run[r].cursor + 1 \in Nat /\ final_state \in RunState
    BY <1>3 DEF Execution, RunState
  <2> QED
    BY <1>3, <2>1 DEF Execution
<1> HIDE DEF e
<1>5. run' \in [Runs -> Execution] /\ run'[r] = e
      /\ \A s \in Runs : s # r => run'[s] = run[s]
  BY <1>1, <1>2, <1>4 DEF TypeOK
<1>6. /\ UNCHANGED authority
      /\ record' \in [Intent -> Nat]
  BY <1>1 DEF FinishCommand, TypeOK
<1>7. CASE KnownOutcome(final_state)
  <2>1. /\ CanSettle(cap[c], q, amount)
        /\ cap' = [cap EXCEPT ![c] = SettleBoundBudget(cap[c], q, amount)]
        /\ SettleAgentExecution(c, q)
    BY <1>7 DEF FinishCommand
  <2>2. cap' \in [Cap -> Capability]
    <3>1. SettleBoundBudget(cap[c], q, amount) \in Capability
      BY <1>1, <2>1, SettleBoundBudgetInv DEF LedgerInv, CapabilityInv
    <3> QED
      BY <1>1, <2>1, <3>1 DEF TypeOK
  <2>3. index' \in [Agent -> IndexEntry]
    BY <1>1, <2>1, SettleIndexStep
  <2>4. TypeOK'
    BY <1>1, <1>5, <1>6, <2>2, <2>3 DEF FinishCommand, TypeOK, humanVars, hostVars
  <2>5. run[r].state # "none"
    BY <1>2
  <2>6. run'[r].state \in Terminal
    BY <1>4, <1>5, <1>7 DEF KnownOutcome, Terminal
  <2> QED
    BY <1>1, <1>5, <1>6, <2>1, <2>4, <2>5, <2>6, SettlementKeepsLedger
<1>8. CASE ~KnownOutcome(final_state)
  <2>1. UNCHANGED <<cap, index>>
    BY <1>8 DEF FinishCommand
  <2>2. TypeOK'
    BY <1>1, <1>5, <1>6, <2>1 DEF FinishCommand, TypeOK, humanVars, hostVars
  <2>3. run[r].state \notin Terminal \cup {"none"}
    BY <1>2 DEF Terminal, Final
  <2>4. run'[r].state \notin Terminal \cup {"none"}
    BY <1>4, <1>5, <1>8 DEF KnownOutcome, Terminal
  <2> QED
    BY <1>1, <1>5, <1>6, <2>1, <2>2, <2>3, <2>4, RunChangeKeepsLedger
<1> QED
  BY <1>7, <1>8

\* Stopping a run: a queued one is cancelled and settled at nothing spent.
LEMMA StopStep ==
  ASSUME LedgerInv, NEW c \in Cap, NEW q \in Call, RequestStop(c, q)
  PROVE  LedgerInv'
<1> DEFINE r == <<c, q>>
<1>1. TypeOK /\ r \in Runs /\ UNCHANGED authority
  BY DEF LedgerInv, Runs, RequestStop
<1>2. run[r] \in Execution
  BY <1>1 DEF TypeOK
<1>3. run[r].cursor + 1 \in Nat
  BY <1>2 DEF Execution
<1>4. CASE run[r].state = "queued"
  <2> DEFINE e == [run[r] EXCEPT !.stop_requested = TRUE, !.state = "cancelled",
                                 !.cursor = @ + 1]
  <2>1. /\ CanSettle(cap[c], q, 0)
        /\ cap' = [cap EXCEPT ![c] = SettleBoundBudget(cap[c], q, 0)]
        /\ SettleAgentExecution(c, q)
        /\ run' = [run EXCEPT ![r] = e]
    BY <1>4 DEF RequestStop
  <2>2. e \in Execution /\ e.state = "cancelled"
    BY <1>2, <1>3 DEF Execution, RunState, Final
  <2> HIDE DEF e
  <2>3. run' \in [Runs -> Execution] /\ run'[r] = e
        /\ \A s \in Runs : s # r => run'[s] = run[s]
    BY <1>1, <2>1, <2>2 DEF TypeOK
  <2>4. SettleBoundBudget(cap[c], q, 0) \in Capability
    BY <2>1, SettleBoundBudgetInv DEF LedgerInv, CapabilityInv
  <2>5. index' \in [Agent -> IndexEntry]
    BY <1>1, <2>1, SettleIndexStep
  <2>6. TypeOK'
    BY <1>1, <2>1, <2>3, <2>4, <2>5
       DEF RequestStop, TypeOK, orgVars, humanVars, hostVars
  <2>7. run[r].state # "none" /\ run'[r].state \in Terminal
    BY <1>4, <2>2, <2>3 DEF Terminal, Final
  <2> QED
    BY <1>1, <2>1, <2>3, <2>6, <2>7, SettlementKeepsLedger
<1>5. CASE run[r].state # "queued"
  <2> DEFINE e == [run[r] EXCEPT !.stop_requested = TRUE, !.cursor = @ + 1]
  <2>1. /\ run[r].state = "running"
        /\ run' = [run EXCEPT ![r] = e]
        /\ UNCHANGED <<cap, index>>
    BY <1>5 DEF RequestStop
  <2>2. e \in Execution /\ e.state = run[r].state
    BY <1>2, <1>3 DEF Execution
  <2> HIDE DEF e
  <2>3. run' \in [Runs -> Execution] /\ run'[r] = e
        /\ \A s \in Runs : s # r => run'[s] = run[s]
    BY <1>1, <2>1, <2>2 DEF TypeOK
  <2>4. TypeOK'
    BY <1>1, <2>1, <2>3 DEF RequestStop, TypeOK, orgVars, humanVars, hostVars
  <2>5. /\ run[r].state \notin Terminal \cup {"none"}
        /\ run'[r].state \notin Terminal \cup {"none"}
    BY <2>1, <2>2, <2>3 DEF Terminal, Final
  <2> QED
    BY <1>1, <2>1, <2>3, <2>4, <2>5, RunChangeKeepsLedger
<1> QED
  BY <1>4, <1>5

\* Granting a result key, queueing a delivery and starting a run settle nothing.
LEMMA DeliveryStep ==
  ASSUME LedgerInv, NEW c \in Cap, NEW q \in Call,
         \/ GrantResultKey(c, q)
         \/ QueueCommand(c, q)
         \/ \E a \in Attempt : BeginCommand(c, q, a)
  PROVE  LedgerInv'
<1> DEFINE r == <<c, q>>
<1>1. TypeOK /\ r \in Runs
  BY DEF LedgerInv, Runs
<1>2. run[r] \in Execution
  BY <1>1 DEF TypeOK
<1>3. CASE GrantResultKey(c, q)
  <2>1. <<q.intent, key_version>> \in Intent \X Nat
    BY <1>1, Inputs DEF TypeOK
  <2>2. result_keys' \in [Cap -> SUBSET (Intent \X Nat)]
    BY <1>1, <1>3, <2>1 DEF GrantResultKey, TypeOK
  <2>3. TypeOK' /\ UNCHANGED <<cap, run, authority>>
    BY <1>1, <1>3, <2>2
       DEF GrantResultKey, TypeOK, orgVars, humanVars, hostVars, runVars
  <2> QED
    BY <2>3, LedgerFrame
<1>4. CASE QueueCommand(c, q)
  <2> DEFINE e == [run[r] EXCEPT !.delivered = TRUE]
  <2>1. /\ run[r].state = "queued" /\ run' = [run EXCEPT ![r] = e]
        /\ queue' = Append(queue, r) /\ UNCHANGED <<cap, authority>>
    BY <1>4 DEF QueueCommand, Deliverable, capVars
  <2>2. e \in Execution /\ e.state = run[r].state
    BY <1>2 DEF Execution
  <2> HIDE DEF e
  <2>3. run' \in [Runs -> Execution] /\ run'[r] = e
        /\ \A s \in Runs : s # r => run'[s] = run[s]
    BY <1>1, <2>1, <2>2 DEF TypeOK
  <2>4. queue' \in Seq(Runs)
    BY <1>1, <2>1 DEF TypeOK
  <2>5. TypeOK'
    BY <1>1, <1>4, <2>3, <2>4
       DEF QueueCommand, TypeOK, orgVars, humanVars, hostVars, capVars
  <2>6. /\ run[r].state \notin Terminal \cup {"none"}
        /\ run'[r].state \notin Terminal \cup {"none"}
    BY <2>1, <2>2, <2>3 DEF Terminal, Final
  <2> QED
    BY <1>1, <2>1, <2>3, <2>5, <2>6, RunChangeKeepsLedger
<1>5. ASSUME NEW a \in Attempt, BeginCommand(c, q, a)
      PROVE  LedgerInv'
  <2> DEFINE e == [run[r] EXCEPT !.state = "running", !.attempt_id = a,
                                 !.cursor = @ + 1]
  <2>1. /\ run[r].state = "queued" /\ run' = [run EXCEPT ![r] = e]
        /\ UNCHANGED <<cap, authority>>
    BY <1>5 DEF BeginCommand, Startable, capVars
  <2>2. e \in Execution /\ e.state = "running"
    <3>1. run[r].cursor + 1 \in Nat
      BY <1>2 DEF Execution
    <3> QED
      BY <1>2, <3>1 DEF Execution, RunState
  <2> HIDE DEF e
  <2>3. run' \in [Runs -> Execution] /\ run'[r] = e
        /\ \A s \in Runs : s # r => run'[s] = run[s]
    BY <1>1, <2>1, <2>2 DEF TypeOK
  <2>4. TypeOK'
    BY <1>1, <1>5, <2>3
       DEF BeginCommand, TypeOK, orgVars, humanVars, hostVars, capVars
  <2>5. /\ run[r].state \notin Terminal \cup {"none"}
        /\ run'[r].state \notin Terminal \cup {"none"}
    BY <2>1, <2>2, <2>3 DEF Terminal, Final
  <2> QED
    BY <1>1, <2>1, <2>3, <2>4, <2>5, RunChangeKeepsLedger
<1> QED
  BY <1>3, <1>4, <1>5

\* Time and administration change neither a capability nor a run.
LEMMA AdministrationStep ==
  ASSUME LedgerInv, Tick \/ Administration
  PROVE  LedgerInv'
<1> USE DEF orgVars, humanVars, hostVars, capVars, runVars
<1>1. TypeOK
  BY DEF LedgerInv
<1>2. CASE Tick
  BY <1>1, <1>2, LedgerFrame DEF Tick, TypeOK
<1>3. CASE DeactivateOrganization
  BY <1>1, <1>3, LedgerFrame DEF DeactivateOrganization, TypeOK
<1>4. CASE RotateKey
  BY <1>1, <1>4, LedgerFrame DEF RotateKey, TypeOK
<1>5. ASSUME NEW i \in Intent, SaveRecord(i) PROVE LedgerInv'
  BY <1>1, <1>5, LedgerFrame DEF SaveRecord, TypeOK
<1>6. CASE RecoverIdentity
  <2>1. grant' \in Grant /\ generation' \in Nat
    BY <1>1, <1>6 DEF RecoverIdentity, NewGrant, Grant, TypeOK
  <2>2. TypeOK'
    BY <1>1, <1>6, <2>1
       DEF RecoverIdentity, TypeOK, orgVars, hostVars, capVars, runVars
  <2> QED
    BY <1>6, <2>2, LedgerFrame DEF RecoverIdentity
<1>7. CASE RevokeDevice
  <2>1. grant.version + 1 \in Nat
    BY <1>1 DEF TypeOK, Grant
  <2>2. grant' \in Grant
    BY <1>1, <1>7, <2>1 DEF RevokeDevice, TypeOK, Grant
  <2>3. TypeOK'
    BY <1>1, <1>7, <2>2 DEF RevokeDevice, TypeOK
  <2> QED
    BY <1>7, <2>3, LedgerFrame DEF RevokeDevice
<1>8. ASSUME NEW actions \in SUBSET Permission, ChangeDevice(actions)
      PROVE  LedgerInv'
  <2>1. grant.version + 1 \in Nat
    BY <1>1 DEF TypeOK, Grant
  <2>2. grant' \in Grant
    BY <1>1, <1>8, <2>1 DEF ChangeDevice, TypeOK, Grant
  <2>3. TypeOK'
    BY <1>1, <1>8, <2>2 DEF ChangeDevice, TypeOK
  <2> QED
    BY <1>8, <2>3, LedgerFrame DEF ChangeDevice
<1>9. CASE SetMember
  BY <1>1, <1>9, LedgerFrame DEF SetMember, TypeOK
<1>10. CASE RevokeCoordinatorBinding
  BY <1>1, <1>10, LedgerFrame DEF RevokeCoordinatorBinding, TypeOK
<1>11. CASE RevokeMembership
  BY <1>1, <1>11, LedgerFrame DEF RevokeMembership, TypeOK
<1>12. CASE RejoinHost
  <2>1. member.id + 1 \in Nat
    BY <1>1 DEF TypeOK
  <2>2. member' \in [id : Nat, revoked : BOOLEAN, bound : BOOLEAN]
    BY <1>12, <2>1 DEF RejoinHost
  <2> QED
    BY <1>1, <1>12, <2>2, LedgerFrame DEF RejoinHost, TypeOK
<1>13. ASSUME NEW a \in Agent, RevokeAgent(a) PROVE LedgerInv'
  <2> DEFINE M == [version : Nat, revoked : BOOLEAN, control_confirmed : BOOLEAN,
                   membership : Nat]
             m == [managed[a] EXCEPT !.revoked = TRUE, !.version = @ + 1]
  <2>1. managed[a].version + 1 \in Nat
    BY <1>1 DEF TypeOK
  <2>2. m \in M /\ managed' = [managed EXCEPT ![a] = m] /\ managed \in [Agent -> M]
    BY <1>1, <1>13, <2>1 DEF RevokeAgent, TypeOK
  <2> HIDE DEF m, M
  <2>3. managed' \in [Agent -> M]
    BY <2>2
  <2>4. TypeOK'
    BY <1>1, <1>13, <2>3 DEF RevokeAgent, TypeOK, M
  <2> QED
    BY <1>13, <2>4, LedgerFrame DEF RevokeAgent
<1>14. ASSUME NEW a \in Agent, NEW control \in BOOLEAN, RebindAgent(a, control)
       PROVE  LedgerInv'
  <2> DEFINE M == [version : Nat, revoked : BOOLEAN, control_confirmed : BOOLEAN,
                   membership : Nat]
             m == [version |-> managed[a].version + 1, revoked |-> FALSE,
                   control_confirmed |-> control, membership |-> member.id]
  <2>1. managed[a].version + 1 \in Nat /\ member.id \in Nat
    BY <1>1 DEF TypeOK
  <2>2. m \in M /\ managed' = [managed EXCEPT ![a] = m] /\ managed \in [Agent -> M]
    BY <1>1, <1>14, <2>1 DEF RebindAgent, TypeOK
  <2> HIDE DEF m, M
  <2>3. managed' \in [Agent -> M]
    BY <2>2
  <2>4. TypeOK'
    BY <1>1, <1>14, <2>3 DEF RebindAgent, TypeOK, M
  <2> QED
    BY <1>14, <2>4, LedgerFrame DEF RebindAgent
<1> QED
  BY <1>2, <1>3, <1>4, <1>5, <1>6, <1>7, <1>8, <1>9, <1>10, <1>11, <1>12,
     <1>13, <1>14
  DEF Administration

\* Every step of the contracts keeps the ledger invariant.
LEMMA NextLedger ==
  ASSUME LedgerInv, [Next]_vars
  PROVE  LedgerInv'
<1>1. CASE UNCHANGED vars
  <2>1. TypeOK' /\ UNCHANGED <<cap, run, authority>>
    BY <1>1 DEF vars, orgVars, humanVars, hostVars, capVars, runVars, LedgerInv, TypeOK
  <2> QED
    BY <2>1, LedgerFrame
<1>2. ASSUME NEW c \in Cap, NEW q \in Call, Command(c, q) PROVE LedgerInv'
  <2>1. CASE \/ GrantResultKey(c, q)
             \/ QueueCommand(c, q)
             \/ \E a \in Attempt : BeginCommand(c, q, a)
    BY <2>1, DeliveryStep
  <2>2. CASE PrepareCommand(c, q)
    BY <2>2, PrepareStep
  <2>3. ASSUME NEW final_state \in Final, NEW amount \in 0 .. q.budget_amount,
               NEW own_key \in BOOLEAN,
               FinishCommand(c, q, run[<<c, q>>].cursor, final_state, amount, own_key)
        PROVE  LedgerInv'
    BY <2>3, FinishStep
  <2>4. CASE RequestStop(c, q)
    BY <2>4, StopStep
  <2> QED
    BY <1>2, <2>1, <2>2, <2>3, <2>4 DEF Command
<1> QED
  BY <1>1, <1>2, IssueStep, RevokeStep, AdministrationStep DEF Next

\* The inductive invariant holds of every behaviour.
LEMMA LedgerInvariant == Spec => []LedgerInv
<1> QED
  BY InitLedger, NextLedger, PTL DEF Spec

\* Every object of the contracts keeps its type, whatever is called: no
\* counter of a ledger or of an execution index goes below zero.
THEOREM TypeCorrect == Spec => []TypeOK
<1>1. LedgerInv => TypeOK
  BY DEF LedgerInv
<1> QED
  BY <1>1, LedgerInvariant, PTL

\* The budget totals of every capability are the sums over its claims.
THEOREM LedgerCorrect == Spec => []BudgetLedgerExact
<1>1. LedgerInv => BudgetLedgerExact
  BY DEF LedgerInv, BudgetLedgerExact, CapabilityInv
<1> QED
  BY <1>1, LedgerInvariant, PTL

\* Uses and budget never exceed what was granted.
THEOREM QuotaCorrect == Spec => []QuotaKept
<1>1. LedgerInv => QuotaKept
  BY DEF LedgerInv, QuotaKept, CapabilityInv
<1> QED
  BY <1>1, LedgerInvariant, PTL

\* No token is ever used twice, and every claim has exactly its own run.
THEOREM ReplayCorrect == Spec => []NoReplay
<1>1. LedgerInv => NoReplay
  BY DEF LedgerInv, NoReplay, CapabilityInv
<1> QED
  BY <1>1, LedgerInvariant, PTL

\* A claim is settled exactly when its run is over with a known outcome.
THEOREM SettlementCorrect == Spec => []SettledExactlyWhenTerminal
<1>1. LedgerInv => SettledExactlyWhenTerminal
  BY DEF LedgerInv
<1> QED
  BY <1>1, LedgerInvariant, PTL

-----------------------------------------------------------------------------
(* The execution index.  The counter of a tracked Agent is the number of   *)
(* control runs that may still act or whose effects are unknown, so that   *)
(* an Agent whose counter is zero, the only one that is rebound, has none. *)

\* What makes the counter and the binding inductive.
ControlInv ==
  /\ LedgerInv
  /\ \A a \in Tracked :
       /\ IsFiniteSet(UnsettledControls(a))
       /\ index[a].unsettled_control = Cardinality(UnsettledControls(a))
  /\ ControlRunKeepsBinding

\* A run of the controls that are not settled, by its parts.
LEMMA UnsettledMember ==
  ASSUME NEW c \in Cap, NEW q \in Call, NEW a
  PROVE  <<c, q>> \in UnsettledControls(a) <=>
           /\ authority[c].target = a /\ q.action \in ControlAction
           /\ run[<<c, q>>].state \notin Terminal \cup {"none"}
  BY DEF UnsettledControls, Runs

\* Steps under which no run becomes an unsettled control or ceases to be one,
\* and no Agent changes.
LEMMA ControlFrame ==
  ASSUME ControlInv, LedgerInv', UNCHANGED managed,
         \A a \in Tracked : index'[a].unsettled_control = index[a].unsettled_control,
         \A a \in Tracked : UnsettledControls(a)' = UnsettledControls(a),
         \A c \in Cap : authority'[c] = authority[c]
                        \/ \A q \in Call : run[<<c, q>>].state = "none"
  PROVE  ControlInv'
<1>1. \A a \in Tracked :
        /\ IsFiniteSet(UnsettledControls(a)')
        /\ index'[a].unsettled_control = Cardinality(UnsettledControls(a)')
  BY DEF ControlInv
<1>2. ControlRunKeepsBinding'
  <2> SUFFICES ASSUME NEW c \in Cap, NEW q \in Call,
                      authority'[c].target \in Tracked,
                      (<<c, q>> \in UnsettledControls(authority[c].target))'
               PROVE  LET b == authority'[c] m == managed'[b.target] IN
                      \/ m.version = b.agent_version /\ m.membership = b.membership
                      \/ m.revoked /\ m.version = b.agent_version + 1
    BY DEF ControlRunKeepsBinding
  <2>1. PICK a \in Tracked : a = authority'[c].target
    OBVIOUS
  <2>2. <<c, q>> \in UnsettledControls(a)'
    BY <2>1
  <2>3. <<c, q>> \in UnsettledControls(a)
    BY <2>2
  <2>4. authority'[c] = authority[c] /\ <<c, q>> \in UnsettledControls(authority[c].target)
    BY <2>1, <2>3, UnsettledMember
  <2> QED
    BY <2>1, <2>4 DEF ControlInv, ControlRunKeepsBinding
<1> QED
  BY <1>1, <1>2 DEF ControlInv

\* Steps that touch neither the claims, the runs nor the index.
LEMMA ControlUntouched ==
  ASSUME ControlInv, LedgerInv', UNCHANGED <<run, authority, index, managed>>
  PROVE  ControlInv'
<1>1. \A a \in Tracked : UnsettledControls(a)' = UnsettledControls(a)
  BY DEF UnsettledControls
<1> QED
  BY <1>1, ControlFrame

\* One run changes and stays unsettled.
LEMMA ControlRunKept ==
  ASSUME ControlInv, LedgerInv', NEW r \in Runs, UNCHANGED <<authority, index, managed>>,
         \A s \in Runs : s # r => run'[s] = run[s],
         run[r].state \notin Terminal \cup {"none"},
         run'[r].state \notin Terminal \cup {"none"}
  PROVE  ControlInv'
<1>1. \A a \in Tracked : UnsettledControls(a)' = UnsettledControls(a)
  BY DEF UnsettledControls
<1> QED
  BY <1>1, ControlFrame

\* A new capability has no run.
LEMMA IssueControl ==
  ASSUME ControlInv, LedgerInv', NEW c \in Cap, NEW o \in Offer, IssueCapability(c, o)
  PROVE  ControlInv'
<1>1. ~authority[c].issued /\ UNCHANGED <<run, index, managed>>
  BY DEF IssueCapability, hostVars, runVars
<1>2. \A d \in Cap \ {c} : authority'[d] = authority[d]
  BY DEF IssueCapability, ControlInv, LedgerInv, TypeOK
<1>3. \A q \in Call : run[<<c, q>>].state = "none"
  BY <1>1 DEF ControlInv, LedgerInv, RunPerClaim
<1>4. \A a \in Tracked : UnsettledControls(a)' = UnsettledControls(a)
  <2> TAKE a \in Tracked
  <2>1. \A r \in Runs : /\ r[1] \in Cap /\ r[2] \in Call /\ r = <<r[1], r[2]>>
    BY DEF Runs
  <2>2. \A r \in Runs : run[r].state # "none" => authority'[r[1]] = authority[r[1]]
    BY <1>2, <1>3, <2>1
  <2> QED
    BY <1>1, <2>2 DEF UnsettledControls
<1> QED
  BY <1>1, <1>2, <1>3, <1>4, ControlFrame

\* A prepared control command is counted, under the binding it was issued for.
LEMMA PrepareControl ==
  ASSUME ControlInv, LedgerInv', NEW c \in Cap, NEW q \in Call, PrepareCommand(c, q)
  PROVE  ControlInv'
<1> DEFINE r == <<c, q>>
           t == authority[c].target
<1>1. TypeOK /\ r \in Runs
  BY DEF ControlInv, LedgerInv, Runs
<1>2. UNCHANGED <<authority, managed>>
  BY DEF PrepareCommand, hostVars
<1>3. CASE q \in cap[c].claims
  <2>1. UNCHANGED <<run, index>>
    BY <1>3 DEF PrepareCommand
  <2> QED
    BY <1>2, <2>1, ControlUntouched
<1>4. CASE q \notin cap[c].claims
  <2>1. run[r].state = "none"
    BY <1>4 DEF ControlInv, LedgerInv, RunPerClaim
  <2>2. run'[r].state = "queued" /\ \A s \in Runs : s # r => run'[s] = run[s]
    BY <1>1, <1>4 DEF PrepareCommand, TypeOK, NoRun
  <2>3. \A a \in Tracked : UnsettledControls(a)' =
          IF a = t /\ q.action \in ControlAction
          THEN UnsettledControls(a) \cup {r} ELSE UnsettledControls(a)
    BY <1>1, <1>2, <2>1, <2>2 DEF UnsettledControls, Terminal, Final
  <2>4. \A a \in Tracked : index'[a].unsettled_control =
          IF a = t /\ q.action \in ControlAction
          THEN index[a].unsettled_control + 1 ELSE index[a].unsettled_control
    <3>1. CASE IsTracked(c)
      <4>1. t \in Agent /\ t \in Tracked
        BY <3>1, SetAssumption DEF IsTracked
      <4>2. index' = [index EXCEPT ![t] = RecordedIndex(index[t], c, q)]
        BY <1>4, <3>1 DEF PrepareCommand, RecordAgentExecution
      <4>3. index[t] \in IndexEntry
        BY <1>1, <4>1 DEF TypeOK
      <4>4. RecordedIndex(index[t], c, q).unsettled_control =
              IF q.action \in ControlAction
              THEN index[t].unsettled_control + 1 ELSE index[t].unsettled_control
        BY <4>3 DEF RecordedIndex, IndexEntry
      <4>5. \A a \in Agent : index'[a] =
              IF a = t THEN RecordedIndex(index[t], c, q) ELSE index[a]
        BY <1>1, <4>1, <4>2 DEF TypeOK
      <4> HIDE DEF t
      <4> QED
        BY <4>1, <4>4, <4>5, SetAssumption
    <3>2. CASE ~IsTracked(c)
      BY <1>4, <3>2 DEF PrepareCommand, IsTracked
    <3> QED
      BY <3>1, <3>2
  <2>5. \A a \in Tracked :
          /\ IsFiniteSet(UnsettledControls(a)')
          /\ index'[a].unsettled_control = Cardinality(UnsettledControls(a)')
    <3> TAKE a \in Tracked
    <3>1. /\ IsFiniteSet(UnsettledControls(a))
          /\ index[a].unsettled_control = Cardinality(UnsettledControls(a))
      BY DEF ControlInv
    <3>2. r \notin UnsettledControls(a)
      BY <2>1 DEF UnsettledControls
    <3>3. /\ IsFiniteSet(UnsettledControls(a) \cup {r})
          /\ Cardinality(UnsettledControls(a) \cup {r}) = Cardinality(UnsettledControls(a)) + 1
      BY <3>1, <3>2, FS_AddElement
    <3> HIDE DEF r, t
    <3> QED
      BY <2>3, <2>4, <3>1, <3>3
  <2>6. ControlRunKeepsBinding'
    <3> SUFFICES ASSUME NEW d \in Cap, NEW p \in Call,
                        authority[d].target \in Tracked,
                        (<<d, p>> \in UnsettledControls(authority[d].target))'
                 PROVE  LET b == authority[d] m == managed[b.target] IN
                        \/ m.version = b.agent_version /\ m.membership = b.membership
                        \/ m.revoked /\ m.version = b.agent_version + 1
      BY <1>2 DEF ControlRunKeepsBinding
    <3>1. PICK a \in Tracked : a = authority[d].target
      OBVIOUS
    <3>2. <<d, p>> \in UnsettledControls(a)'
      BY <1>2, <3>1
    <3>3. CASE <<d, p>> \in UnsettledControls(a)
      BY <3>1, <3>3 DEF ControlInv, ControlRunKeepsBinding
    <3>4. CASE <<d, p>> \notin UnsettledControls(a)
      <4>1. d = c
        BY <2>3, <3>2, <3>4
      <4>2. a \in Agent
        BY SetAssumption
      <4>3. /\ authority[c].agent_version = managed[a].version
            /\ managed[a].membership = member.id
            /\ authority[c].membership = member.id
        BY <3>1, <4>1, <4>2
           DEF PrepareCommand, AssertAuthority, PinnedVersionsCurrent, DeviceVersionsCurrent,
               AssertManaged
      <4> QED
        BY <3>1, <4>1, <4>3
    <3> QED
      BY <3>3, <3>4
  <2> QED
    BY <2>5, <2>6 DEF ControlInv
<1> QED
  BY <1>3, <1>4

\* A settled control run is counted no more.
LEMMA SettleControl ==
  ASSUME ControlInv, LedgerInv', NEW c \in Cap, NEW q \in Call,
         SettleAgentExecution(c, q), UNCHANGED <<authority, managed>>,
         \A s \in Runs : s # <<c, q>> => run'[s] = run[s],
         run[<<c, q>>].state \notin Terminal \cup {"none"},
         run'[<<c, q>>].state \in Terminal
  PROVE  ControlInv'
<1> DEFINE r == <<c, q>>
           t == authority[c].target
<1>1. TypeOK /\ r \in Runs
  BY DEF ControlInv, LedgerInv, Runs
<1>2. \A a \in Tracked : UnsettledControls(a)' = UnsettledControls(a) \ {r}
  BY <1>1 DEF UnsettledControls
<1>3. \A a \in Tracked :
        r \in UnsettledControls(a) <=> a = t /\ q.action \in ControlAction
  BY <1>1 DEF UnsettledControls
<1>4. \A a \in Tracked : index'[a].unsettled_control =
        IF a = t /\ q.action \in ControlAction
        THEN index[a].unsettled_control - 1 ELSE index[a].unsettled_control
  <2>1. CASE IsTracked(c)
    <3>1. t \in Agent /\ t \in Tracked
      BY <2>1, SetAssumption DEF IsTracked
    <3>2. index' = [index EXCEPT ![t] = SettledIndex(index[t], c, q)]
      BY <2>1 DEF SettleAgentExecution
    <3>3. index[t] \in IndexEntry
      BY <1>1, <3>1 DEF TypeOK
    <3>4. SettledIndex(index[t], c, q).unsettled_control =
            IF q.action \in ControlAction
            THEN index[t].unsettled_control - 1 ELSE index[t].unsettled_control
      BY <3>3 DEF SettledIndex, IndexEntry
    <3>5. \A a \in Agent : index'[a] =
            IF a = t THEN SettledIndex(index[t], c, q) ELSE index[a]
      BY <1>1, <3>1, <3>2 DEF TypeOK
    <3> HIDE DEF t
    <3> QED
      BY <3>1, <3>4, <3>5, SetAssumption
  <2>2. CASE ~IsTracked(c)
    BY <2>2 DEF SettleAgentExecution, IsTracked
  <2> QED
    BY <2>1, <2>2
<1>5. \A a \in Tracked :
        /\ IsFiniteSet(UnsettledControls(a)')
        /\ index'[a].unsettled_control = Cardinality(UnsettledControls(a)')
  <2> TAKE a \in Tracked
  <2>1. /\ IsFiniteSet(UnsettledControls(a))
        /\ index[a].unsettled_control = Cardinality(UnsettledControls(a))
    BY DEF ControlInv
  <2>2. CASE r \in UnsettledControls(a)
    <3>1. /\ IsFiniteSet(UnsettledControls(a) \ {r})
          /\ Cardinality(UnsettledControls(a) \ {r}) = Cardinality(UnsettledControls(a)) - 1
      BY <2>1, <2>2, FS_RemoveElement
    <3> HIDE DEF r, t
    <3> QED
      BY <1>2, <1>3, <1>4, <2>1, <2>2, <3>1
  <2>3. CASE r \notin UnsettledControls(a)
    <3>1. UnsettledControls(a) \ {r} = UnsettledControls(a)
      BY <2>3
    <3> HIDE DEF r, t
    <3> QED
      BY <1>2, <1>3, <1>4, <2>1, <2>3, <3>1
  <2> QED
    BY <2>2, <2>3
<1>6. ControlRunKeepsBinding'
  <2> SUFFICES ASSUME NEW d \in Cap, NEW p \in Call,
                      authority[d].target \in Tracked,
                      (<<d, p>> \in UnsettledControls(authority[d].target))'
               PROVE  LET b == authority[d] m == managed[b.target] IN
                      \/ m.version = b.agent_version /\ m.membership = b.membership
                      \/ m.revoked /\ m.version = b.agent_version + 1
    BY DEF ControlRunKeepsBinding
  <2>1. PICK a \in Tracked : a = authority[d].target
    OBVIOUS
  <2>2. <<d, p>> \in UnsettledControls(a)'
    BY <2>1
  <2>3. <<d, p>> \in UnsettledControls(a)
    BY <1>2, <2>2
  <2> QED
    BY <2>1, <2>3 DEF ControlInv, ControlRunKeepsBinding
<1> QED
  BY <1>5, <1>6 DEF ControlInv

\* Steps of a command other than its preparation.
LEMMA CommandControl ==
  ASSUME ControlInv, LedgerInv', NEW c \in Cap, NEW q \in Call, Command(c, q)
  PROVE  ControlInv'
<1> DEFINE r == <<c, q>>
<1>1. TypeOK /\ r \in Runs
  BY DEF ControlInv, LedgerInv, Runs
<1>2. run[r] \in Execution
  BY <1>1 DEF TypeOK
<1>3. CASE GrantResultKey(c, q)
  BY <1>3, ControlUntouched DEF GrantResultKey, hostVars, runVars
<1>4. CASE QueueCommand(c, q)
  <2>1. /\ run[r].state = "queued" /\ run' = [run EXCEPT ![r].delivered = TRUE]
        /\ UNCHANGED <<authority, index, managed>>
    BY <1>4 DEF QueueCommand, Deliverable, capVars, hostVars
  <2>2. run'[r].state = "queued" /\ \A s \in Runs : s # r => run'[s] = run[s]
    BY <1>1, <1>2, <2>1 DEF TypeOK, Execution
  <2> QED
    BY <1>1, <2>1, <2>2, ControlRunKept DEF Terminal, Final
<1>5. ASSUME NEW a \in Attempt, BeginCommand(c, q, a) PROVE ControlInv'
  <2>1. /\ run[r].state = "queued"
        /\ run' = [run EXCEPT ![r].state = "running", ![r].attempt_id = a,
                              ![r].cursor = @ + 1]
        /\ UNCHANGED <<authority, index, managed>>
    BY <1>5 DEF BeginCommand, Startable, capVars, hostVars
  <2>2. run'[r].state = "running" /\ \A s \in Runs : s # r => run'[s] = run[s]
    BY <1>1, <1>2, <2>1 DEF TypeOK, Execution
  <2> QED
    BY <1>1, <2>1, <2>2, ControlRunKept DEF Terminal, Final
<1>6. ASSUME NEW final_state \in Final, NEW amount \in 0 .. q.budget_amount,
             NEW own_key \in BOOLEAN,
             FinishCommand(c, q, run[r].cursor, final_state, amount, own_key)
      PROVE  ControlInv'
  <2>1. /\ run[r].state = "running"
        /\ run' = [run EXCEPT ![r].state = final_state, ![r].result_record = TRUE,
                              ![r].cursor = @ + 1]
        /\ UNCHANGED <<authority, managed>>
    BY <1>6 DEF FinishCommand, hostVars
  <2>2. run'[r].state = final_state /\ \A s \in Runs : s # r => run'[s] = run[s]
    BY <1>1, <1>2, <2>1 DEF TypeOK, Execution
  <2>3. run[r].state \notin Terminal \cup {"none"}
    BY <2>1 DEF Terminal, Final
  <2>4. CASE KnownOutcome(final_state)
    <3>1. SettleAgentExecution(c, q) /\ final_state \in Terminal
      BY <1>6, <2>4 DEF FinishCommand, KnownOutcome, Terminal
    <3> QED
      BY <2>1, <2>2, <2>3, <3>1, SettleControl
  <2>5. CASE ~KnownOutcome(final_state)
    <3>1. UNCHANGED index /\ final_state \notin Terminal \cup {"none"}
      BY <1>6, <2>5 DEF FinishCommand, KnownOutcome, Terminal
    <3> QED
      BY <1>1, <2>1, <2>2, <2>3, <3>1, ControlRunKept
  <2> QED
    BY <2>4, <2>5
<1>7. CASE RequestStop(c, q)
  <2>1. UNCHANGED <<authority, managed>>
    BY <1>7 DEF RequestStop, hostVars
  <2>2. CASE run[r].state = "queued"
    <3>1. /\ SettleAgentExecution(c, q)
          /\ run' = [run EXCEPT ![r].stop_requested = TRUE, ![r].state = "cancelled",
                                ![r].cursor = @ + 1]
      BY <1>7, <2>2 DEF RequestStop
    <3>2. run'[r].state = "cancelled" /\ \A s \in Runs : s # r => run'[s] = run[s]
      BY <1>1, <1>2, <3>1 DEF TypeOK, Execution
    <3>3. run[r].state \notin Terminal \cup {"none"} /\ run'[r].state \in Terminal
      BY <2>2, <3>2 DEF Terminal, Final
    <3> QED
      BY <2>1, <3>1, <3>2, <3>3, SettleControl
  <2>3. CASE run[r].state # "queued"
    <3>1. /\ run[r].state = "running" /\ UNCHANGED index
          /\ run' = [run EXCEPT ![r].stop_requested = TRUE, ![r].cursor = @ + 1]
      BY <1>7, <2>3 DEF RequestStop
    <3>2. run'[r].state = "running" /\ \A s \in Runs : s # r => run'[s] = run[s]
      BY <1>1, <1>2, <3>1 DEF TypeOK, Execution
    <3> QED
      BY <1>1, <2>1, <3>1, <3>2, ControlRunKept DEF Terminal, Final
  <2> QED
    BY <2>2, <2>3
<1> QED
  BY <1>3, <1>4, <1>5, <1>6, <1>7, PrepareControl DEF Command

\* An Agent is revoked at any time, but rebound only when it is idle.
LEMMA AdministrationControl ==
  ASSUME ControlInv, LedgerInv', Tick \/ Administration
  PROVE  ControlInv'
<1>1. TypeOK
  BY DEF ControlInv, LedgerInv
<1>2. UNCHANGED <<run, authority, index>>
  BY DEF Tick, Administration, DeactivateOrganization, RotateKey, SaveRecord, RecoverIdentity,
         RevokeDevice, ChangeDevice, SetMember, RevokeCoordinatorBinding, RevokeMembership,
         RejoinHost, RevokeAgent, RebindAgent, capVars, runVars
<1>3. \A a \in Tracked : UnsettledControls(a)' = UnsettledControls(a)
  BY <1>2 DEF UnsettledControls
<1>4. ASSUME \A c \in Cap, q \in Call :
               authority[c].target \in Tracked
               /\ <<c, q>> \in UnsettledControls(authority[c].target) =>
                 LET b == authority[c] m == managed'[b.target] IN
                 \/ m.version = b.agent_version /\ m.membership = b.membership
                 \/ m.revoked /\ m.version = b.agent_version + 1
      PROVE  ControlInv'
  <2>1. ControlRunKeepsBinding'
    <3> SUFFICES ASSUME NEW c \in Cap, NEW q \in Call,
                        authority[c].target \in Tracked,
                        (<<c, q>> \in UnsettledControls(authority[c].target))'
                 PROVE  LET b == authority[c] m == managed'[b.target] IN
                        \/ m.version = b.agent_version /\ m.membership = b.membership
                        \/ m.revoked /\ m.version = b.agent_version + 1
      BY <1>2 DEF ControlRunKeepsBinding
    <3>1. PICK a \in Tracked : a = authority[c].target
      OBVIOUS
    <3>2. <<c, q>> \in UnsettledControls(a)'
      BY <1>2, <3>1
    <3>3. <<c, q>> \in UnsettledControls(a)
      BY <1>3, <3>2
    <3> QED
      BY <1>4, <3>1, <3>3
  <2>2. \A a \in Tracked :
          /\ IsFiniteSet(UnsettledControls(a)')
          /\ index'[a].unsettled_control = Cardinality(UnsettledControls(a)')
    BY <1>2, <1>3 DEF ControlInv
  <2> QED
    BY <2>1, <2>2 DEF ControlInv
<1>5. ASSUME NEW a \in Agent, RevokeAgent(a) PROVE ControlInv'
  <2>1. /\ ~managed[a].revoked
        /\ managed' = [managed EXCEPT ![a].revoked = TRUE, ![a].version = @ + 1]
    BY <1>5 DEF RevokeAgent
  <2>2. /\ managed'[a].revoked = TRUE /\ managed'[a].version = managed[a].version + 1
        /\ \A p \in Agent \ {a} : managed'[p] = managed[p]
    BY <1>1, <2>1 DEF TypeOK
  <2>3. \A c \in Cap, q \in Call :
          authority[c].target \in Tracked
          /\ <<c, q>> \in UnsettledControls(authority[c].target) =>
            LET b == authority[c] m == managed'[b.target] IN
            \/ m.version = b.agent_version /\ m.membership = b.membership
            \/ m.revoked /\ m.version = b.agent_version + 1
    BY <2>1, <2>2, SetAssumption DEF ControlInv, ControlRunKeepsBinding
  <2> QED
    BY <1>4, <2>3
<1>6. ASSUME NEW a \in Agent, NEW control \in BOOLEAN, RebindAgent(a, control)
      PROVE  ControlInv'
  <2>1. a \in Tracked /\ index[a].unsettled_control = 0
    BY <1>6 DEF RebindAgent, AgentIdle
  <2>2. UnsettledControls(a) = {}
    BY <2>1, FS_EmptySet DEF ControlInv
  <2>3. \A p \in Agent \ {a} : managed'[p] = managed[p]
    BY <1>1, <1>6 DEF RebindAgent, TypeOK
  <2>4. \A c \in Cap, q \in Call :
          authority[c].target \in Tracked
          /\ <<c, q>> \in UnsettledControls(authority[c].target) =>
            LET b == authority[c] m == managed'[b.target] IN
            \/ m.version = b.agent_version /\ m.membership = b.membership
            \/ m.revoked /\ m.version = b.agent_version + 1
    BY <2>2, <2>3, SetAssumption DEF ControlInv, ControlRunKeepsBinding
  <2> QED
    BY <1>4, <2>4
<1>7. CASE UNCHANGED managed
  BY <1>2, <1>7, ControlUntouched
<1> QED
  BY <1>5, <1>6, <1>7
     DEF Tick, Administration, DeactivateOrganization, RotateKey, SaveRecord, RecoverIdentity,
         RevokeDevice, ChangeDevice, SetMember, RevokeCoordinatorBinding, RevokeMembership,
         RejoinHost, hostVars

LEMMA InitControl == Init => ControlInv
<1> SUFFICES ASSUME Init PROVE ControlInv
  OBVIOUS
<1>1. \A a \in Tracked : UnsettledControls(a) = {} /\ index[a].unsettled_control = 0
  BY SetAssumption DEF Init, UnsettledControls, NoRun
<1>2. \A a \in Tracked :
        /\ IsFiniteSet(UnsettledControls(a))
        /\ index[a].unsettled_control = Cardinality(UnsettledControls(a))
  BY <1>1, FS_EmptySet
<1>3. ControlRunKeepsBinding
  BY <1>1 DEF ControlRunKeepsBinding
<1> QED
  BY <1>2, <1>3, InitLedger DEF ControlInv

LEMMA NextControl ==
  ASSUME ControlInv, [Next]_vars
  PROVE  ControlInv'
<1>1. LedgerInv'
  BY NextLedger DEF ControlInv
<1>2. CASE UNCHANGED vars
  BY <1>1, <1>2, ControlUntouched DEF vars, capVars, hostVars, runVars
<1>3. ASSUME NEW c \in Cap, RevokeCapability(c) PROVE ControlInv'
  BY <1>1, <1>3, ControlUntouched DEF RevokeCapability, hostVars, runVars
<1> QED
  BY <1>1, <1>2, <1>3, IssueControl, CommandControl, AdministrationControl DEF Next

LEMMA ControlInvariant == Spec => []ControlInv
<1> QED
  BY InitControl, NextControl, PTL DEF Spec

\* The counter of a tracked Agent is exactly the number of its control runs that
\* may still act or whose effects are unknown: what record_agent_execution adds
\* and settle_agent_execution takes away never drifts from the runs.
THEOREM ControlCounted == Spec => []ControlCountExact
<1>1. ControlInv => ControlCountExact
  BY DEF ControlInv, ControlCountExact
<1> QED
  BY <1>1, ControlInvariant, PTL

\* An Agent is never rebound under a control run that may still act or whose
\* effects are unknown (rebind_agent, confirm_reviewed_control).
THEOREM BindingKept == Spec => []ControlRunKeepsBinding
<1>1. ControlInv => ControlRunKeepsBinding
  BY DEF ControlInv
<1> QED
  BY <1>1, ControlInvariant, PTL

-----------------------------------------------------------------------------
(* Authority.  What a capability pins never runs ahead of the object it    *)
(* pins, and every version only advances: once it differs it always will.  *)

PinsBehind ==
  \A c \in Cap :
    LET b == authority[c] IN
    b.issued =>
      /\ b.membership <= member.id
      /\ b.generation <= generation
      /\ b.generation = generation => b.grant_version <= grant.version
      /\ b.target \in Agent => b.agent_version <= managed[b.target].version

\* What a step may do to the objects that are pinned.
VersionsAdvance ==
  /\ member'.id >= member.id
  /\ member'.id = member.id /\ member.revoked => member'.revoked
  /\ generation' >= generation
  /\ generation' = generation => grant'.version >= grant.version
  /\ \A a \in Agent : managed'[a].version >= managed[a].version

LEMMA VersionsOnlyAdvance ==
  ASSUME TypeOK, [Next]_vars
  PROVE  VersionsAdvance
<1> USE DEF orgVars, humanVars, hostVars, capVars, runVars
<1>1. /\ member.id \in Nat /\ generation \in Nat /\ grant.version \in Nat
      /\ \A a \in Agent : managed[a].version \in Nat
  BY DEF TypeOK, Grant
<1>2. CASE UNCHANGED <<generation, grant, member, managed>>
  BY <1>1, <1>2 DEF VersionsAdvance
<1>3. CASE RecoverIdentity
  <2>1. generation' = generation + 1 /\ UNCHANGED <<member, managed>>
    BY <1>3 DEF RecoverIdentity
  <2>2. generation' >= generation /\ generation' # generation
    BY <1>1, <2>1
  <2>3. /\ member'.id >= member.id
        /\ \A a \in Agent : managed'[a].version >= managed[a].version
    BY <1>1, <2>1
  <2> QED
    BY <2>1, <2>2, <2>3, Zenon DEF VersionsAdvance
<1>4. ASSUME RevokeDevice \/ \E actions \in SUBSET Permission : ChangeDevice(actions)
      PROVE  VersionsAdvance
  <2>1. grant'.version = grant.version + 1 /\ UNCHANGED <<generation, member, managed>>
    BY <1>4 DEF RevokeDevice, ChangeDevice, TypeOK, Grant
  <2> QED
    BY <1>1, <2>1 DEF VersionsAdvance
<1>5. CASE RevokeCoordinatorBinding \/ RevokeMembership \/ RejoinHost
  <2>1. UNCHANGED <<generation, grant, managed>>
    BY <1>5 DEF RevokeCoordinatorBinding, RevokeMembership, RejoinHost
  <2>2. member'.id >= member.id
    <3>1. member \in [id : Nat, revoked : BOOLEAN, bound : BOOLEAN]
      BY DEF TypeOK
    <3>2. member'.id \in {member.id, member.id + 1}
      BY <1>5, <3>1 DEF RevokeCoordinatorBinding, RevokeMembership, RejoinHost
    <3> QED
      BY <1>1, <3>2
  <2>3. member'.id = member.id /\ member.revoked => member'.revoked
    <3>1. CASE RevokeCoordinatorBinding
      BY <3>1 DEF RevokeCoordinatorBinding, TypeOK
    <3>2. CASE RevokeMembership
      BY <3>2 DEF RevokeMembership, TypeOK
    <3>3. CASE RejoinHost
      BY <1>1, <3>3 DEF RejoinHost
    <3> QED
      BY <1>5, <3>1, <3>2, <3>3
  <2>4. /\ generation' >= generation /\ grant'.version >= grant.version
        /\ \A a \in Agent : managed'[a].version >= managed[a].version
    BY <1>1, <2>1
  <2> QED
    BY <2>2, <2>3, <2>4, Zenon DEF VersionsAdvance
<1>6. ASSUME NEW a \in Agent,
             RevokeAgent(a) \/ \E control \in BOOLEAN : RebindAgent(a, control)
      PROVE  VersionsAdvance
  <2>1. /\ managed'[a].version = managed[a].version + 1
        /\ \A p \in Agent \ {a} : managed'[p] = managed[p]
        /\ UNCHANGED <<generation, grant, member>>
    BY <1>6 DEF RevokeAgent, RebindAgent, TypeOK
  <2> QED
    BY <1>1, <2>1 DEF VersionsAdvance
<1>7. CASE UNCHANGED vars
  BY <1>2, <1>7 DEF vars
<1>8. CASE Tick \/ DeactivateOrganization \/ RotateKey \/ SetMember
           \/ \E i \in Intent : SaveRecord(i)
  BY <1>2, <1>8 DEF Tick, DeactivateOrganization, RotateKey, SetMember, SaveRecord
<1>9. ASSUME NEW c \in Cap, RevokeCapability(c) \/ \E o \in Offer : IssueCapability(c, o)
      PROVE  VersionsAdvance
  BY <1>2, <1>9 DEF RevokeCapability, IssueCapability
<1>10. ASSUME NEW c \in Cap, NEW q \in Call, Command(c, q) PROVE VersionsAdvance
  BY <1>2, <1>10 DEF Command, GrantResultKey, PrepareCommand, QueueCommand, BeginCommand,
                     FinishCommand, RequestStop
<1>11. CASE Administration
  BY <1>3, <1>4, <1>5, <1>6, <1>8, <1>11 DEF Administration
<1> QED
  BY <1>7, <1>8, <1>9, <1>10, <1>11 DEF Next

\* The binding of an issued capability never changes.
LEMMA BindingsFixed ==
  ASSUME TypeOK, [Next]_vars, NEW c \in Cap
  PROVE  /\ authority[c].issued => authority'[c] = authority[c]
         /\ \/ authority'[c] = authority[c]
            \/ /\ authority'[c].issued = TRUE
               /\ authority'[c].membership = member.id
               /\ authority'[c].generation = generation
               /\ authority'[c].grant_version = grant.version
               /\ authority'[c].target \in Agent =>
                    authority'[c].agent_version = managed[authority'[c].target].version
               /\ UNCHANGED <<member, generation, grant, managed>>
<1> USE DEF orgVars, humanVars, hostVars, capVars, runVars
<1>1. CASE UNCHANGED authority
  BY <1>1
<1>2. ASSUME NEW d \in Cap, NEW o \in Offer, IssueCapability(d, o)
      PROVE  /\ authority[c].issued => authority'[c] = authority[c]
             /\ \/ authority'[c] = authority[c]
                \/ /\ authority'[c].issued = TRUE
                   /\ authority'[c].membership = member.id
                   /\ authority'[c].generation = generation
                   /\ authority'[c].grant_version = grant.version
                   /\ authority'[c].target \in Agent =>
                        authority'[c].agent_version = managed[authority'[c].target].version
                   /\ UNCHANGED <<member, generation, grant, managed>>
  <2>1. CASE c # d
    BY <1>2, <2>1 DEF IssueCapability, TypeOK
  <2>2. CASE c = d
    <3>1. /\ ~authority[c].issued /\ UNCHANGED <<member, generation, grant, managed>>
          /\ authority'[c] =
               [issued |-> TRUE, target |-> o.target, membership |-> member.id,
                agent_version |-> IF o.target \in Agent
                                  THEN managed[o.target].version ELSE 0,
                grant_version |-> grant.version, generation |-> generation,
                operate |-> o.actions \cap ControlAction # {}, contract |-> o.contract]
      BY <1>2, <2>2 DEF IssueCapability, TypeOK
    <3> QED
      BY <3>1
  <2> QED
    BY <2>1, <2>2
<1>3. ASSUME NEW d \in Cap, NEW q \in Call, Command(d, q) PROVE UNCHANGED authority
  BY <1>3 DEF Command, GrantResultKey, PrepareCommand, QueueCommand, BeginCommand,
              FinishCommand, RequestStop
<1>4. ASSUME Tick \/ Administration PROVE UNCHANGED authority
  BY <1>4 DEF Tick, Administration, DeactivateOrganization, RotateKey, SaveRecord,
              RecoverIdentity, RevokeDevice, ChangeDevice, SetMember,
              RevokeCoordinatorBinding, RevokeMembership, RejoinHost, RevokeAgent, RebindAgent
<1>5. ASSUME NEW d \in Cap, RevokeCapability(d) PROVE UNCHANGED authority
  BY <1>5 DEF RevokeCapability
<1>6. CASE UNCHANGED vars
  BY <1>1, <1>6 DEF vars
<1> QED
  BY <1>1, <1>2, <1>3, <1>4, <1>5, <1>6 DEF Next

LEMMA PinTypes ==
  ASSUME TypeOK
  PROVE  /\ member.id \in Nat /\ generation \in Nat /\ grant.version \in Nat
         /\ \A a \in Agent : managed[a].version \in Nat
         /\ \A c \in Cap : /\ authority[c].membership \in Nat /\ authority[c].generation \in Nat
                           /\ authority[c].grant_version \in Nat
                           /\ authority[c].agent_version \in Nat
  BY DEF TypeOK, Grant, AuthorityBinding

LEMMA NextPins ==
  ASSUME TypeOK, TypeOK', PinsBehind, [Next]_vars
  PROVE  PinsBehind'
<1> SUFFICES ASSUME NEW c \in Cap, authority'[c].issued
             PROVE  LET b == authority'[c] IN
                    /\ b.membership <= member'.id
                    /\ b.generation <= generation'
                    /\ b.generation = generation' => b.grant_version <= grant'.version
                    /\ b.target \in Agent => b.agent_version <= managed'[b.target].version
  BY DEF PinsBehind
<1>1. VersionsAdvance
  BY VersionsOnlyAdvance
<1>2. /\ member.id \in Nat /\ generation \in Nat /\ grant.version \in Nat
      /\ \A a \in Agent : managed[a].version \in Nat
      /\ authority[c].membership \in Nat /\ authority[c].generation \in Nat
      /\ authority[c].grant_version \in Nat /\ authority[c].agent_version \in Nat
  BY PinTypes
<1>3. /\ member'.id \in Nat /\ generation' \in Nat /\ grant'.version \in Nat
      /\ \A a \in Agent : managed'[a].version \in Nat
  BY DEF TypeOK, Grant
<1>4. CASE authority'[c] = authority[c]
  <2>1. LET b == authority[c] IN
        /\ b.membership <= member.id
        /\ b.generation <= generation
        /\ b.generation = generation => b.grant_version <= grant.version
        /\ b.target \in Agent => b.agent_version <= managed[b.target].version
    BY <1>4 DEF PinsBehind
  <2> QED
    BY <1>1, <1>2, <1>3, <1>4, <2>1 DEF VersionsAdvance
<1>5. CASE authority'[c] # authority[c]
  <2>1. /\ authority'[c].membership = member.id
        /\ authority'[c].generation = generation
        /\ authority'[c].grant_version = grant.version
        /\ authority'[c].target \in Agent =>
             authority'[c].agent_version = managed[authority'[c].target].version
        /\ UNCHANGED <<member, generation, grant, managed>>
    BY <1>5, BindingsFixed, Zenon
  <2> QED
    BY <1>2, <2>1
<1> QED
  BY <1>4, <1>5

LEMMA PinsInvariant == Spec => [](TypeOK /\ PinsBehind)
<1>1. Init => PinsBehind
  BY DEF Init, PinsBehind, NotIssued
<1>2. LedgerInv => TypeOK
  BY DEF LedgerInv
<1>3. LedgerInv' => TypeOK'
  BY DEF LedgerInv
<1>4. TypeOK /\ TypeOK' /\ PinsBehind /\ [Next]_vars => PinsBehind'
  BY NextPins
<1> QED
  BY <1>1, <1>2, <1>3, <1>4, LedgerInvariant, PTL DEF Spec

LEMMA LapsedStep ==
  ASSUME TypeOK, PinsBehind, TypeOK', [Next]_vars, NEW c \in Cap,
         authority[c].issued, ~PinnedVersionsCurrent(c)
  PROVE  ~PinnedVersionsCurrent(c)'
<1>1. VersionsAdvance /\ authority'[c] = authority[c]
  BY VersionsOnlyAdvance, BindingsFixed
<1>2. /\ member.id \in Nat /\ generation \in Nat /\ grant.version \in Nat
      /\ \A a \in Agent : managed[a].version \in Nat
      /\ authority[c].membership \in Nat /\ authority[c].generation \in Nat
      /\ authority[c].grant_version \in Nat /\ authority[c].agent_version \in Nat
  BY PinTypes
<1>3. /\ member'.id \in Nat /\ generation' \in Nat /\ grant'.version \in Nat
      /\ \A a \in Agent : managed'[a].version \in Nat
  BY DEF TypeOK, Grant
<1>4. LET b == authority[c] IN
      /\ b.membership <= member.id
      /\ b.generation <= generation
      /\ b.generation = generation => b.grant_version <= grant.version
      /\ b.target \in Agent => b.agent_version <= managed[b.target].version
  BY DEF PinsBehind
<1> QED
  BY <1>1, <1>2, <1>3, <1>4 DEF PinnedVersionsCurrent, DeviceVersionsCurrent, VersionsAdvance

\* Once a pinned version is no longer current it never is again: neither a new
\* membership, nor a rebind, nor recovery revives an old capability.
THEOREM LapsedForGood == Spec => LapsedAuthorityStaysLapsed
<1>1. TypeOK /\ PinsBehind /\ TypeOK' /\ [Next]_vars =>
        [\A c \in Cap : authority[c].issued /\ ~PinnedVersionsCurrent(c)
                          => ~PinnedVersionsCurrent(c)']_vars
  BY LapsedStep
<1> QED
  BY <1>1, PinsInvariant, PTL DEF Spec, LapsedAuthorityStaysLapsed

\* Only grant_result_key changes the keys, and never those of a command that is
\* reserved.
LEMMA KeysStep ==
  ASSUME TypeOK, [Next]_vars, NEW c \in Cap, NEW q \in cap[c].claims,
         NEW v \in 1 .. key_version'
  PROVE  <<q.intent, v>> \in result_keys'[c] <=> <<q.intent, v>> \in result_keys[c]
<1> USE DEF orgVars, humanVars, hostVars, capVars, runVars
<1>1. CASE UNCHANGED result_keys
  BY <1>1
<1>2. ASSUME NEW d \in Cap, NEW p \in Call, GrantResultKey(d, p)
      PROVE  <<q.intent, v>> \in result_keys'[c] <=> <<q.intent, v>> \in result_keys[c]
  <2>1. result_keys'[c] =
          IF c = d THEN result_keys[c] \cup {<<p.intent, key_version>>} ELSE result_keys[c]
    BY <1>2 DEF GrantResultKey, TypeOK
  <2>2. CASE c = d
    <3>1. <<p.intent, key_version>> \in result_keys[c] \/ q.intent # p.intent
      BY <1>2, <2>2 DEF GrantResultKey, MayGrantKey
    <3> QED
      BY <2>1, <2>2, <3>1
  <2> QED
    BY <2>1, <2>2
<1>3. ASSUME NEW d \in Cap, NEW p \in Call, Command(d, p), ~GrantResultKey(d, p)
      PROVE  UNCHANGED result_keys
  BY <1>3 DEF Command, PrepareCommand, QueueCommand, BeginCommand, FinishCommand, RequestStop
<1>4. ASSUME Tick \/ Administration PROVE UNCHANGED result_keys
  BY <1>4 DEF Tick, Administration, DeactivateOrganization, RotateKey, SaveRecord,
              RecoverIdentity, RevokeDevice, ChangeDevice, SetMember,
              RevokeCoordinatorBinding, RevokeMembership, RejoinHost, RevokeAgent, RebindAgent
<1>5. ASSUME NEW d \in Cap, RevokeCapability(d) \/ \E o \in Offer : IssueCapability(d, o)
      PROVE  UNCHANGED result_keys
  BY <1>5 DEF RevokeCapability, IssueCapability
<1>6. CASE UNCHANGED vars
  BY <1>1, <1>6 DEF vars
<1> QED
  BY <1>1, <1>2, <1>3, <1>4, <1>5, <1>6 DEF Next

\* The keys a result may be encrypted under are fixed when the run is created.
THEOREM KeysFixed == Spec => ResultKeysFixedByRun
<1>1. TypeOK /\ [Next]_vars =>
        [\A c \in Cap : \A q \in cap[c].claims : \A v \in 1 .. key_version' :
           <<q.intent, v>> \in result_keys'[c] <=> <<q.intent, v>> \in result_keys[c]]_vars
  BY KeysStep
<1> QED
  BY <1>1, TypeCorrect, PTL DEF Spec, ResultKeysFixedByRun

-----------------------------------------------------------------------------
(***************************************************************************)
(* NodeExecution implements CommandLifecycle under the mapping LifeView.   *)
(* A step that leaves `run' alone stutters; of the others, each is one of  *)
(* the four transactions of CommandLifecycle on one run, or a delivery,    *)
(* which a Host does not see.  That a prepared run is new, as Create       *)
(* demands, is where the invariant is needed: a command without a claim    *)
(* has no run (RunPerClaim).                                               *)
(***************************************************************************)

\* What changes one run changes the view of that run only.
LEMMA ViewOfOne ==
  ASSUME NEW r \in Runs, NEW e, TypeOK, run' = [run EXCEPT ![r] = e]
  PROVE  LifeView' = [LifeView EXCEPT ![r] = RunLife(e)]
  BY DEF LifeView, TypeOK

\* A step that leaves the runs alone leaves the view alone.
LEMMA ViewFrame ==
  ASSUME UNCHANGED run
  PROVE  UNCHANGED LifeView
  BY DEF LifeView

\* Two lives with the same fields are the same.
LEMMA SameLife ==
  ASSUME NEW l \in Lifecycle!Life, NEW m \in Lifecycle!Life,
         l.state = m.state, l.cursor = m.cursor,
         l.stop_requested = m.stop_requested, l.attempt_id = m.attempt_id
  PROVE  l = m
  BY DEF Lifecycle!Life

\* The view of a run is a life with the fields of the run.
LEMMA RunLifeFields ==
  ASSUME NEW e \in Execution
  PROVE  /\ RunLife(e) \in Lifecycle!Life
         /\ RunLife(e).state = e.state
         /\ RunLife(e).cursor = e.cursor
         /\ RunLife(e).stop_requested = e.stop_requested
         /\ RunLife(e).attempt_id = e.attempt_id
  BY DEF RunLife, Execution, RunState, Final, Lifecycle!Life, Lifecycle!State,
         Lifecycle!Final

\* What a start makes of a life, field by field.
LEMMA StartedFields ==
  ASSUME NEW l \in Lifecycle!Life, NEW a \in Attempt
  PROVE  LET m == Lifecycle!Started(l, a) IN
         /\ m \in Lifecycle!Life
         /\ m.state = "running"
         /\ m.cursor = l.cursor + 1
         /\ m.stop_requested = l.stop_requested
         /\ m.attempt_id = a
<1>1. "running" \in Lifecycle!State /\ l.cursor + 1 \in Nat
  BY DEF Lifecycle!Life, Lifecycle!State
<1>2. Lifecycle!Started(l, a) = [l EXCEPT !.state = "running", !.attempt_id = a,
                                          !.cursor = l.cursor + 1]
  BY DEF Lifecycle!Started, Lifecycle!Life
<1>3. Lifecycle!Started(l, a) \in Lifecycle!Life
  BY <1>1, <1>2 DEF Lifecycle!Life
<1> QED
  BY <1>2, <1>3 DEF Lifecycle!Life

\* What a result makes of a life.
LEMMA FinishedFields ==
  ASSUME NEW l \in Lifecycle!Life, NEW outcome \in Final
  PROVE  LET m == Lifecycle!Finished(l, outcome) IN
         /\ m \in Lifecycle!Life
         /\ m.state = outcome
         /\ m.cursor = l.cursor + 1
         /\ m.stop_requested = l.stop_requested
         /\ m.attempt_id = l.attempt_id
<1>1. outcome \in Lifecycle!State /\ l.cursor + 1 \in Nat
  BY DEF Final, Lifecycle!Life, Lifecycle!State, Lifecycle!Final
<1>2. Lifecycle!Finished(l, outcome) =
        [l EXCEPT !.state = outcome, !.cursor = l.cursor + 1]
  BY DEF Lifecycle!Finished, Lifecycle!Life
<1>3. Lifecycle!Finished(l, outcome) \in Lifecycle!Life
  BY <1>1, <1>2 DEF Lifecycle!Life
<1> QED
  BY <1>2, <1>3 DEF Lifecycle!Life

\* What a stop that was not requested before makes of a life.
LEMMA StoppedFields ==
  ASSUME NEW l \in Lifecycle!Life, ~l.stop_requested
  PROVE  LET m == Lifecycle!Stopped(l) IN
         /\ m \in Lifecycle!Life
         /\ m.state = IF l.state = "queued" THEN "cancelled" ELSE l.state
         /\ m.cursor = l.cursor + 1
         /\ m.stop_requested = TRUE
         /\ m.attempt_id = l.attempt_id
<1> DEFINE state == IF l.state = "queued" THEN "cancelled" ELSE l.state
<1>1. state \in Lifecycle!State /\ l.cursor + 1 \in Nat
  BY DEF Lifecycle!Life, Lifecycle!State, Lifecycle!Final
<1>2. Lifecycle!Stopped(l) = [l EXCEPT !.stop_requested = TRUE,
                                !.cursor = l.cursor + 1, !.state = state]
  BY DEF Lifecycle!Stopped, Lifecycle!Life
<1> HIDE DEF state
<1>3. Lifecycle!Stopped(l) \in Lifecycle!Life
  BY <1>1, <1>2 DEF Lifecycle!Life
<1>4. /\ Lifecycle!Stopped(l).state = state
      /\ Lifecycle!Stopped(l).cursor = l.cursor + 1
      /\ Lifecycle!Stopped(l).stop_requested = TRUE
      /\ Lifecycle!Stopped(l).attempt_id = l.attempt_id
  BY <1>2, <1>3 DEF Lifecycle!Life
<1> QED
  BY <1>3, <1>4 DEF state

\* A fresh prepare creates a run; a repeated one changes nothing.
LEMMA PrepareRefines ==
  ASSUME LedgerInv, NEW c \in Cap, NEW q \in Call, PrepareCommand(c, q)
  PROVE  [Lifecycle!LifeNext]_LifeView
<1> DEFINE r == <<c, q>>
           e == [NoRun EXCEPT !.state = "queued", !.cursor = 1,
                              !.capability_version = cap[c].revocation_version]
<1>1. r \in Runs /\ TypeOK /\ RunPerClaim
  BY DEF Runs, LedgerInv
<1>2. CASE q \in cap[c].claims
  <2>1. UNCHANGED run
    BY <1>2 DEF PrepareCommand
  <2> QED
    BY <2>1, ViewFrame
<1>3. CASE q \notin cap[c].claims
  <2>1. run' = [run EXCEPT ![r] = e]
    BY <1>3 DEF PrepareCommand
  <2>2. LifeView' = [LifeView EXCEPT ![r] = RunLife(e)]
    BY <1>1, <2>1, ViewOfOne
  <2>3. RunLife(e) = Lifecycle!Created
    BY DEF RunLife, NoRun, Lifecycle!Created
  <2>4. LifeView[r].state = "none"
    BY <1>1, <1>3 DEF LifeView, RunLife, RunPerClaim
  <2>5. Lifecycle!Create(r)
    BY <2>2, <2>3, <2>4 DEF Lifecycle!Create
  <2> QED
    BY <1>1, <2>5 DEF Lifecycle!LifeNext
<1> QED
  BY <1>2, <1>3

\* A delivery is not visible.
LEMMA QueueRefines ==
  ASSUME LedgerInv, NEW c \in Cap, NEW q \in Call, QueueCommand(c, q)
  PROVE  UNCHANGED LifeView
<1> DEFINE r == <<c, q>>
           e == [run[r] EXCEPT !.delivered = TRUE]
<1>1. r \in Runs /\ TypeOK
  BY DEF Runs, LedgerInv
<1>2. run' = [run EXCEPT ![r] = e]
  BY <1>1 DEF QueueCommand, TypeOK
<1>3. LifeView' = [LifeView EXCEPT ![r] = RunLife(e)]
  BY <1>1, <1>2, ViewOfOne
<1>4. RunLife(e) = LifeView[r]
  BY <1>1 DEF RunLife, LifeView, TypeOK, Execution
<1> QED
  BY <1>1, <1>3, <1>4 DEF LifeView

\* The Host's start.
LEMMA BeginRefines ==
  ASSUME LedgerInv, LedgerInv', NEW c \in Cap, NEW q \in Call, NEW a \in Attempt,
         BeginCommand(c, q, a)
  PROVE  Lifecycle!LifeNext
<1> DEFINE r == <<c, q>>
           e == [run[r] EXCEPT !.state = "running", !.attempt_id = a,
                               !.cursor = @ + 1]
<1>1. r \in Runs /\ TypeOK
  BY DEF Runs, LedgerInv
<1>2. run' = [run EXCEPT ![r] = e]
  BY <1>1 DEF BeginCommand, TypeOK, Execution
<1>3. LifeView' = [LifeView EXCEPT ![r] = RunLife(e)]
  BY <1>1, <1>2, ViewOfOne
<1>4. RunLife(e) = Lifecycle!Started(LifeView[r], a)
  <2>1. run[r] \in Execution /\ run'[r] \in Execution
    BY <1>1 DEF LedgerInv, TypeOK
  <2>2. e \in Execution /\ LifeView[r] = RunLife(run[r])
    BY <1>1, <1>2, <2>1 DEF LifeView, TypeOK
  <2>3. /\ e.state = "running" /\ e.cursor = run[r].cursor + 1
        /\ e.stop_requested = run[r].stop_requested /\ e.attempt_id = a
    BY <1>1, <2>1 DEF TypeOK, Execution
  <2> HIDE DEF e
  <2> QED
    BY <2>1, <2>2, <2>3, RunLifeFields, StartedFields, SameLife
<1>5. Lifecycle!Startable(LifeView[r])
  BY <1>1 DEF BeginCommand, Startable, LifeView, RunLife, Lifecycle!Startable
<1>6. Lifecycle!Start(r, a)
  BY <1>1, <1>3, <1>4, <1>5 DEF Lifecycle!Start, LifeView
<1> QED
  BY <1>1, <1>6 DEF Lifecycle!LifeNext

\* The Host's result, at the cursor of the run.
LEMMA FinishRefines ==
  ASSUME LedgerInv, LedgerInv', NEW c \in Cap, NEW q \in Call, NEW final_state \in Final,
         NEW amount, NEW own_key,
         FinishCommand(c, q, run[<<c, q>>].cursor, final_state, amount, own_key)
  PROVE  Lifecycle!LifeNext
<1> DEFINE r == <<c, q>>
           e == [run[r] EXCEPT !.state = final_state, !.result_record = TRUE,
                               !.cursor = @ + 1]
<1>1. r \in Runs /\ TypeOK
  BY DEF Runs, LedgerInv
<1>2. run' = [run EXCEPT ![r] = e]
  BY <1>1 DEF FinishCommand, TypeOK, Execution
<1>3. LifeView' = [LifeView EXCEPT ![r] = RunLife(e)]
  BY <1>1, <1>2, ViewOfOne
<1>4. RunLife(e) = Lifecycle!Finished(LifeView[r], final_state)
  <2>1. run[r] \in Execution /\ run'[r] \in Execution
    BY <1>1 DEF LedgerInv, TypeOK
  <2>2. e \in Execution /\ LifeView[r] = RunLife(run[r])
    BY <1>1, <1>2, <2>1 DEF LifeView, TypeOK
  <2>3. /\ e.state = final_state /\ e.cursor = run[r].cursor + 1
        /\ e.stop_requested = run[r].stop_requested
        /\ e.attempt_id = run[r].attempt_id
    BY <1>1, <2>1 DEF TypeOK, Execution
  <2> HIDE DEF e
  <2> QED
    BY <2>1, <2>2, <2>3, RunLifeFields, FinishedFields, SameLife
<1>5. Lifecycle!Finishable(LifeView[r], LifeView[r].cursor)
  BY <1>1 DEF FinishCommand, LifeView, RunLife, Lifecycle!Finishable
<1>6. final_state \in Lifecycle!Outcomes(LifeView[r])
  BY <1>1 DEF FinishCommand, LifeView, RunLife, Final, Lifecycle!Outcomes, Lifecycle!Final
<1>7. Lifecycle!Finish(r, LifeView[r].cursor, final_state)
  BY <1>1, <1>3, <1>4, <1>5, <1>6 DEF Lifecycle!Finish, LifeView
<1>8. final_state \in Lifecycle!Final
  BY DEF Final, Lifecycle!Final
<1> QED
  BY <1>1, <1>7, <1>8 DEF Lifecycle!LifeNext

\* The human's stop, of a queued and of a running run.
LEMMA StopRefines ==
  ASSUME LedgerInv, LedgerInv', NEW c \in Cap, NEW q \in Call, RequestStop(c, q)
  PROVE  Lifecycle!LifeNext
<1> DEFINE r == <<c, q>>
           e == [run[r] EXCEPT !.stop_requested = TRUE, !.cursor = @ + 1,
                   !.state = IF @ = "queued" THEN "cancelled" ELSE @]
<1>1. r \in Runs /\ TypeOK
  BY DEF Runs, LedgerInv
<1>2. run' = [run EXCEPT ![r] = e]
  BY <1>1 DEF RequestStop, TypeOK, Execution
<1>3. LifeView' = [LifeView EXCEPT ![r] = RunLife(e)]
  BY <1>1, <1>2, ViewOfOne
<1>4. RunLife(e) = Lifecycle!Stopped(LifeView[r])
  <2>1. run[r] \in Execution /\ run'[r] \in Execution
    BY <1>1 DEF LedgerInv, TypeOK
  <2>2. e \in Execution /\ LifeView[r] = RunLife(run[r])
    BY <1>1, <1>2, <2>1 DEF LifeView, TypeOK
  <2>3. /\ ~run[r].stop_requested /\ e.stop_requested = TRUE
        /\ e.state = IF run[r].state = "queued" THEN "cancelled" ELSE run[r].state
        /\ e.cursor = run[r].cursor + 1 /\ e.attempt_id = run[r].attempt_id
    BY <1>1, <2>1 DEF RequestStop, TypeOK, Execution
  <2> HIDE DEF e
  <2> DEFINE l == RunLife(run[r])
             m == Lifecycle!Stopped(l)
  <2>4. l \in Lifecycle!Life /\ l.state = run[r].state
        /\ l.cursor = run[r].cursor /\ l.attempt_id = run[r].attempt_id
    BY <2>1, RunLifeFields
  <2>5. ~l.stop_requested
    BY <2>3 DEF RunLife
  <2> HIDE DEF l
  <2>6. m \in Lifecycle!Life
    BY <2>4, <2>5, StoppedFields
  <2>7. m.state = IF l.state = "queued" THEN "cancelled" ELSE l.state
    BY <2>4, <2>5, StoppedFields
  <2>8. m.cursor = l.cursor + 1 /\ m.attempt_id = l.attempt_id
    BY <2>4, <2>5, StoppedFields
  <2>9. m.stop_requested = TRUE
    BY <2>4, <2>5, StoppedFields
  <2>10. RunLife(e) \in Lifecycle!Life /\ RunLife(e).state = e.state
         /\ RunLife(e).cursor = e.cursor /\ RunLife(e).attempt_id = e.attempt_id
    BY <2>2, RunLifeFields
  <2>11. RunLife(e).stop_requested = TRUE
    BY <2>3 DEF RunLife
  <2>12. RunLife(e).stop_requested = m.stop_requested
    BY <2>9, <2>11
  <2> HIDE DEF m
  <2>13. RunLife(e) = m
    BY <2>3, <2>4, <2>6, <2>7, <2>8, <2>10, <2>12, SameLife
  <2> QED
    BY <2>2, <2>13 DEF l, m
<1>5. LifeView[r].state \in {"queued", "running"}
  BY <1>1 DEF RequestStop, LifeView, RunLife
<1>6. Lifecycle!Stop(r)
  BY <1>1, <1>3, <1>4, <1>5 DEF Lifecycle!Stop, LifeView
<1> QED
  BY <1>1, <1>6 DEF Lifecycle!LifeNext

\* Every step of the contracts is a step of CommandLifecycle or stutters.
LEMMA NextRefines ==
  ASSUME LedgerInv, [Next]_vars
  PROVE  [Lifecycle!LifeNext]_LifeView
<1>1. CASE UNCHANGED vars
  BY <1>1, ViewFrame DEF vars, runVars
<1>2. ASSUME NEW c \in Cap, NEW q \in Call, Command(c, q)
      PROVE  [Lifecycle!LifeNext]_LifeView
  <2>0. LedgerInv'
    BY NextLedger
  <2>1. CASE GrantResultKey(c, q)
    BY <2>1, ViewFrame DEF GrantResultKey, runVars
  <2>2. CASE PrepareCommand(c, q)
    BY <2>2, PrepareRefines
  <2>3. CASE QueueCommand(c, q)
    BY <2>3, QueueRefines
  <2>4. ASSUME NEW a \in Attempt, BeginCommand(c, q, a)
        PROVE  [Lifecycle!LifeNext]_LifeView
    BY <2>0, <2>4, BeginRefines
  <2>5. ASSUME NEW final_state \in Final, NEW amount \in 0 .. q.budget_amount,
               NEW own_key \in BOOLEAN,
               FinishCommand(c, q, run[<<c, q>>].cursor, final_state, amount, own_key)
        PROVE  [Lifecycle!LifeNext]_LifeView
    BY <2>0, <2>5, FinishRefines
  <2>6. CASE RequestStop(c, q)
    BY <2>0, <2>6, StopRefines
  <2> QED
    BY <1>2, <2>1, <2>2, <2>3, <2>4, <2>5, <2>6 DEF Command
<1>3. ASSUME \/ \E c \in Cap, o \in Offer : IssueCapability(c, o)
             \/ \E c \in Cap : RevokeCapability(c)
             \/ Tick
             \/ Administration
      PROVE  UNCHANGED run
  BY <1>3 DEF IssueCapability, RevokeCapability, Tick, Administration,
              DeactivateOrganization, RotateKey, SaveRecord, RecoverIdentity,
              RevokeDevice, ChangeDevice, SetMember, RevokeCoordinatorBinding,
              RevokeMembership, RejoinHost, RevokeAgent, RebindAgent, runVars
<1> QED
  BY <1>1, <1>2, <1>3, ViewFrame DEF Next

\* Nothing is recorded of any run at first.
LEMMA InitRefines == Init => Lifecycle!LifeInit
  BY DEF Init, Lifecycle!LifeInit, LifeView, RunLife, NoRun, Lifecycle!NoLife

\* The contracts keep the promise of CommandLifecycle: whatever is called, a
\* run is created once, started at most once and by one attempt, and reaches
\* at most one final state.
THEOREM Implements == Spec => ImplementsLifecycle
<1>1. LedgerInv /\ [Next]_vars => [Lifecycle!LifeNext]_LifeView
  BY NextRefines
<1> QED
  BY <1>1, InitRefines, LedgerInvariant, PTL
  DEF Spec, ImplementsLifecycle, Lifecycle!LifeSpec
=============================================================================
