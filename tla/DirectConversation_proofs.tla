---------------------- MODULE DirectConversation_proofs ----------------------
(***************************************************************************)
(* Direct messages, for any number of messages, commands, devices, windows *)
(* and requests.  The permission on chain: its two accounts are exact, its *)
(* limit holds, a message has one run, and a run whose authority lapsed    *)
(* never begins.  The App's side: the Host is asked once per message, a    *)
(* request that was broadcast stays located, restrictions are dropped      *)
(* safely, and a submitted draft is not offered again.                     *)
(***************************************************************************)
EXTENDS DirectConversation, DirectDraft, Units_proofs

-----------------------------------------------------------------------------
(* The permission: its inductive invariant.                                *)

\* What the permission and the runs are made of; capabilities, which carry a
\* ledger of their own, play no part.
PermType ==
  [version : Nat, source : Nat, revoked : BOOLEAN, expired : BOOLEAN,
   kinds : SUBSET Kind, max_calls : Nat, budget_limit : Nat,
   spent : Nat, reserved : Nat, approved_spent : Nat, approved_reserved : Nat]
MessageType == [version : Nat, writer : Device \cup {NoDevice}, expired : BOOLEAN]
ApprovalType ==
  [state : ApprovalState, version : Nat, revision : Nat, by : Device \cup {NoDevice}]
RunType ==
  [state : RunState, stop : BOOLEAN, version : Nat, approved : BOOLEAN,
   reserved : Nat, spent : Nat, settled : BOOLEAN]
Shape ==
  /\ perm \in PermType
  /\ message \in [Message -> MessageType]
  /\ approval \in [Message -> ApprovalType]
  /\ message_runs \in [Message -> Command \cup {NoCommand}]
  /\ run \in [Command -> RunType]
  /\ workspace \in [protected : BOOLEAN, revision : Nat]
  /\ source \in Nat

\* A command without a run has settled nothing, what is not settled has spent
\* nothing, and one with a run has a message.
RunsMade ==
  \A c \in Command :
    /\ run[c].state = "none" => ~run[c].settled
    /\ ~run[c].settled => run[c].spent = 0
    /\ run[c].state # "none" => message[MessageOf[c]].version > 0

Amounts(a) == IF a THEN perm.approved_reserved ELSE perm.reserved
Spent(a) == IF a THEN perm.approved_spent ELSE perm.spent
Owed(a) == Blocks(Unsettled(a), [c \in Command |-> run[c].reserved])
Paid(a) == Blocks(SettledRuns(a), [c \in Command |-> run[c].spent])

\* The accounts are exact: LedgerExact, with the sums being finite.
Accounts ==
  \A a \in BOOLEAN :
    /\ IsFiniteSet(Owed(a)) /\ Amounts(a) = Cardinality(Owed(a))
    /\ IsFiniteSet(Paid(a)) /\ Spent(a) = Cardinality(Paid(a))

PermissionInv == Shape /\ RunsMade /\ OneRunPerMessage /\ StandingWithinLimit /\ Accounts

LEMMA AccountsAreLedger == Accounts => LedgerExact
<1>1. \A a \in BOOLEAN :
        /\ Owed(a) = UNION {Units(c, run[c].reserved) : c \in Unsettled(a)}
        /\ Paid(a) = UNION {Units(c, run[c].spent) : c \in SettledRuns(a)}
  BY DEF Owed, Paid, Blocks, Unsettled, SettledRuns
<1> QED
  BY <1>1 DEF Accounts, LedgerExact, Amounts, Spent

LEMMA InitInv == Init => PermissionInv
<1> SUFFICES ASSUME Init PROVE PermissionInv
  OBVIOUS
<1>1. Shape
  <2>1. "none" \in RunState /\ "none" \in ApprovalState
    BY DEF RunState, ApprovalState
  <2> QED
    BY <2>1 DEF Init, Shape, PermType, MessageType, ApprovalType, RunType, NoApproval, NoRun
<1>2. \A c \in Command : run[c].state = "none" /\ ~run[c].settled /\ run[c].spent = 0
  BY DEF Init, NoRun
<1>3. RunsMade
  BY <1>2 DEF RunsMade
<1>4. OneRunPerMessage
  BY <1>2, NameAssumption, RequestAssumption DEF OneRunPerMessage, Init, NoApproval
<1>5. StandingWithinLimit
  BY DEF StandingWithinLimit, Init
<1>6. \A a \in BOOLEAN : Owed(a) = {} /\ Paid(a) = {}
  BY <1>2 DEF Owed, Paid, Blocks, Unsettled, SettledRuns
<1>7. Accounts
  BY <1>6, FS_EmptySet DEF Accounts, Init, Amounts, Spent
<1> QED
  BY <1>1, <1>3, <1>4, <1>5, <1>7 DEF PermissionInv

-----------------------------------------------------------------------------
(* The accounts.                                                           *)

\* Steps that leave every claim and both accounts as they are.
LEMMA AccountsFrame ==
  ASSUME Accounts,
         \A c \in Command :
           /\ run'[c].state = "none" <=> run[c].state = "none"
           /\ run'[c].settled = run[c].settled /\ run'[c].approved = run[c].approved
           /\ run'[c].reserved = run[c].reserved /\ run'[c].spent = run[c].spent,
         perm'.reserved = perm.reserved, perm'.approved_reserved = perm.approved_reserved,
         perm'.spent = perm.spent, perm'.approved_spent = perm.approved_spent
  PROVE  Accounts'
<1>1. \A a \in BOOLEAN :
        Unsettled(a)' = Unsettled(a) /\ SettledRuns(a)' = SettledRuns(a)
  BY DEF Unsettled, SettledRuns
<1>2. [c \in Command |-> run[c].reserved]' = [c \in Command |-> run[c].reserved]
      /\ [c \in Command |-> run[c].spent]' = [c \in Command |-> run[c].spent]
  OBVIOUS
<1>3. \A a \in BOOLEAN : Owed(a)' = Owed(a) /\ Paid(a)' = Paid(a)
  BY <1>1, <1>2 DEF Owed, Paid
<1>4. \A a \in BOOLEAN : Amounts(a)' = Amounts(a) /\ Spent(a)' = Spent(a)
  BY DEF Amounts, Spent
<1> QED
  BY <1>3, <1>4 DEF Accounts

\* A reservation adds a block to what its account owes.
LEMMA AccountsReserved ==
  ASSUME RunsMade, Accounts, NEW c \in Command, NEW a \in BOOLEAN, NEW n \in Nat,
         run[c].state = "none",
         run'[c].state # "none", ~run'[c].settled, run'[c].approved = a, run'[c].reserved = n,
         \A d \in Command \ {c} : run'[d] = run[d],
         Amounts(a)' = Amounts(a) + n,
         \A b \in BOOLEAN \ {a} : Amounts(b)' = Amounts(b),
         \A b \in BOOLEAN : Spent(b)' = Spent(b)
  PROVE  Accounts'
<1> DEFINE S == Unsettled(a)
           f == [d \in Command |-> run[d].reserved]
           g == [d \in Command |-> run'[d].reserved]
<1>1. ~run[c].settled /\ S \subseteq Command /\ c \notin S
  BY DEF RunsMade, Unsettled
<1>2. Unsettled(a)' = S \cup {c}
  BY <1>1 DEF Unsettled
<1>3. \A b \in BOOLEAN \ {a} : Unsettled(b)' = Unsettled(b) /\ c \notin Unsettled(b)
  BY DEF Unsettled
<1>4. \A b \in BOOLEAN : SettledRuns(b)' = SettledRuns(b) /\ c \notin SettledRuns(b)
  BY <1>1 DEF SettledRuns
<1>5. Owed(a) = Blocks(S, f) /\ Owed(a)' = Blocks(S \cup {c}, g)
  BY <1>2 DEF Owed
<1>6. g[c] = n /\ \A d \in S : g[d] = f[d]
  BY <1>1
<1>7. \A b \in BOOLEAN \ {a} : Owed(b)' = Owed(b)
  BY <1>3 DEF Owed, Blocks, Unsettled
<1>8. \A b \in BOOLEAN : Paid(b)' = Paid(b)
  BY <1>4 DEF Paid, Blocks, SettledRuns
<1> HIDE DEF S, f, g
<1>9. IsFiniteSet(Owed(a)') /\ Cardinality(Owed(a)') = Cardinality(Owed(a)) + n
  <2>1. IsFiniteSet(Blocks(S, f))
    BY <1>5 DEF Accounts
  <2> QED
    BY <1>1, <1>5, <1>6, <2>1, BlockAdded
<1> QED
  BY <1>7, <1>8, <1>9 DEF Accounts

\* A settlement moves a block: the account owes it no more and has paid what was
\* spent of it.
LEMMA AccountsSettled ==
  ASSUME Accounts, NEW c \in Command, NEW a \in BOOLEAN, NEW n \in Nat, NEW m \in Nat,
         run[c].state # "none", ~run[c].settled, run[c].approved = a, run[c].reserved = m,
         run'[c].settled, run'[c].approved = a, run'[c].spent = n,
         \A d \in Command \ {c} : run'[d] = run[d],
         Amounts(a)' = Amounts(a) - m, Spent(a)' = Spent(a) + n,
         \A b \in BOOLEAN \ {a} : Amounts(b)' = Amounts(b) /\ Spent(b)' = Spent(b)
  PROVE  Accounts'
<1> DEFINE S == Unsettled(a)'
           T == SettledRuns(a)
           f == [d \in Command |-> run[d].reserved]
           g == [d \in Command |-> run'[d].reserved]
           h == [d \in Command |-> run[d].spent]
           i == [d \in Command |-> run'[d].spent]
<1>1. S \subseteq Command /\ c \notin S /\ T \subseteq Command /\ c \notin T
  BY DEF Unsettled, SettledRuns
<1>2. Unsettled(a) = S \cup {c} /\ SettledRuns(a)' = T \cup {c}
  BY <1>1 DEF Unsettled, SettledRuns
<1>3. \A b \in BOOLEAN \ {a} :
        /\ Unsettled(b)' = Unsettled(b) /\ c \notin Unsettled(b)
        /\ SettledRuns(b)' = SettledRuns(b) /\ c \notin SettledRuns(b)
  BY DEF Unsettled, SettledRuns
<1>4. /\ Owed(a)' = Blocks(S, g) /\ Owed(a) = Blocks(S \cup {c}, f)
      /\ Paid(a) = Blocks(T, h) /\ Paid(a)' = Blocks(T \cup {c}, i)
  BY <1>2 DEF Owed, Paid
<1>5. /\ f[c] = m /\ \A d \in S : f[d] = g[d]
      /\ i[c] = n /\ \A d \in T : i[d] = h[d]
  BY <1>1
<1>6. \A b \in BOOLEAN \ {a} : Owed(b)' = Owed(b) /\ Paid(b)' = Paid(b)
  BY <1>3 DEF Owed, Paid, Blocks, Unsettled, SettledRuns
<1> HIDE DEF S, T, f, g, h, i
<1>7. IsFiniteSet(Owed(a)') /\ Cardinality(Owed(a)) = Cardinality(Owed(a)') + m
  <2>1. IsFiniteSet(Blocks(S \cup {c}, f))
    BY <1>4 DEF Accounts
  <2>2. /\ IsFiniteSet(Blocks(S \cup {c}, f)) <=> IsFiniteSet(Blocks(S, g))
        /\ IsFiniteSet(Blocks(S, g)) =>
             Cardinality(Blocks(S \cup {c}, f)) = Cardinality(Blocks(S, g)) + m
    <3>1. c \notin S /\ m \in Nat /\ f[c] = m /\ \A d \in S : f[d] = g[d]
      BY <1>1, <1>5
    <3> QED
      BY ONLY <3>1, BlockAdded
  <2> QED
    BY <1>4, <2>1, <2>2
<1>8. IsFiniteSet(Paid(a)') /\ Cardinality(Paid(a)') = Cardinality(Paid(a)) + n
  <2>1. IsFiniteSet(Blocks(T, h))
    BY <1>4 DEF Accounts
  <2>2. /\ IsFiniteSet(Blocks(T \cup {c}, i)) <=> IsFiniteSet(Blocks(T, h))
        /\ IsFiniteSet(Blocks(T, h)) =>
             Cardinality(Blocks(T \cup {c}, i)) = Cardinality(Blocks(T, h)) + n
    <3>1. c \notin T /\ n \in Nat /\ i[c] = n /\ \A d \in T : i[d] = h[d]
      BY <1>1, <1>5
    <3> QED
      BY ONLY <3>1, BlockAdded
  <2> QED
    BY <1>4, <2>1, <2>2
<1>9. Cardinality(Owed(a)') \in Nat
  BY <1>7, FS_CardinalityType
<1> QED
  BY <1>6, <1>7, <1>8, <1>9 DEF Accounts

-----------------------------------------------------------------------------
(* Every action preserves the invariant.                                   *)

\* Steps that neither reserve nor settle anything.
SameClaims ==
  /\ \A c \in Command :
       /\ run'[c].state = "none" <=> run[c].state = "none"
       /\ run'[c].settled = run[c].settled /\ run'[c].approved = run[c].approved
       /\ run'[c].reserved = run[c].reserved /\ run'[c].spent = run[c].spent
  /\ message_runs' = message_runs
  /\ perm'.reserved = perm.reserved /\ perm'.approved_reserved = perm.approved_reserved
  /\ perm'.spent = perm.spent /\ perm'.approved_spent = perm.approved_spent
  /\ \A m \in Message :
       /\ approval'[m].state = "consumed" <=> approval[m].state = "consumed"
       /\ message[m].version > 0 => message'[m].version > 0

LEMMA FrameInv ==
  ASSUME PermissionInv, SameClaims, Shape', StandingWithinLimit'
  PROVE  PermissionInv'
<1>1. RunsMade'
  BY RequestAssumption DEF PermissionInv, SameClaims, RunsMade
<1>2. OneRunPerMessage'
  BY DEF PermissionInv, SameClaims, OneRunPerMessage
<1>3. Accounts'
  BY AccountsFrame DEF PermissionInv, SameClaims
<1> QED
  BY <1>1, <1>2, <1>3 DEF PermissionInv

LEMMA GrantedType ==
  ASSUME NEW r \in PermType, NEW v \in Nat, NEW s \in Nat, NEW k \in SUBSET Kind,
         NEW x \in Nat, NEW l \in Nat
  PROVE  [r EXCEPT !.version = v, !.source = s, !.revoked = FALSE, !.expired = FALSE,
                   !.kinds = k, !.max_calls = x, !.budget_limit = l] \in PermType
  BY DEF PermType

LEMMA RevokedType ==
  ASSUME NEW r \in PermType, NEW v \in Nat
  PROVE  /\ [r EXCEPT !.revoked = TRUE, !.version = v] \in PermType
         /\ [r EXCEPT !.expired = TRUE] \in PermType
  BY DEF PermType

LEMMA UpdateInv ==
  ASSUME PermissionInv, NEW d \in Device, NEW p \in Policy, NEW v,
         UpdatePermission(d, v, p)
  PROVE  PermissionInv'
<1>1. perm \in PermType /\ source \in Nat
  BY DEF PermissionInv, Shape
<1>2. p.kinds \in SUBSET Kind /\ p.max_calls \in Nat /\ p.budget_limit \in Nat
  BY PolicyAssumption
<1>3. perm' = Granted(p)
  BY DEF UpdatePermission
<1>4. perm' \in PermType
  <2>1. perm.version + 1 \in Nat
    BY <1>1 DEF PermType
  <2>2. perm' = [perm EXCEPT !.version = perm.version + 1, !.source = source,
                   !.revoked = FALSE, !.expired = FALSE, !.kinds = p.kinds,
                   !.max_calls = p.max_calls, !.budget_limit = p.budget_limit]
    BY <1>1, <1>3 DEF Granted, PermType
  <2> QED
    BY <1>1, <1>2, <2>1, <2>2, GrantedType
<1>5. /\ perm'.reserved = perm.reserved /\ perm'.approved_reserved = perm.approved_reserved
      /\ perm'.spent = perm.spent /\ perm'.approved_spent = perm.approved_spent
      /\ perm'.budget_limit = p.budget_limit
  BY <1>1, <1>3 DEF Granted, PermType
<1>6. UNCHANGED <<message, approval, message_runs, run, workspace, source>>
  BY DEF UpdatePermission
<1>7. SameClaims
  BY <1>5, <1>6 DEF SameClaims
<1>8. Shape'
  BY <1>4, <1>6 DEF PermissionInv, Shape
<1>9. StandingWithinLimit'
  BY <1>5 DEF UpdatePermission, FitsLimit, StandingWithinLimit
<1> QED
  BY <1>7, <1>8, <1>9, FrameInv

\* Steps that change the permission, but neither its accounts nor its limit.
LEMMA PermissionStep ==
  ASSUME PermissionInv, UNCHANGED <<message, approval, message_runs, run, workspace, source>>,
         \/ perm' = [perm EXCEPT !.revoked = TRUE, !.version = @ + 1]
         \/ perm' = [perm EXCEPT !.expired = TRUE]
         \/ perm' = perm
  PROVE  PermissionInv'
<1>1. perm \in PermType
  BY DEF PermissionInv, Shape
<1>2. perm' \in PermType
  <2>1. perm.version + 1 \in Nat
    BY <1>1 DEF PermType
  <2>2. \/ perm' = [perm EXCEPT !.revoked = TRUE, !.version = perm.version + 1]
        \/ perm' = [perm EXCEPT !.expired = TRUE]
        \/ perm' = perm
    BY <1>1 DEF PermType
  <2> QED
    BY <1>1, <2>1, <2>2, RevokedType
<1>3. /\ perm'.reserved = perm.reserved /\ perm'.approved_reserved = perm.approved_reserved
      /\ perm'.spent = perm.spent /\ perm'.approved_spent = perm.approved_spent
      /\ perm'.budget_limit = perm.budget_limit
  BY <1>1 DEF PermType
<1>4. SameClaims
  BY <1>3 DEF SameClaims
<1>5. Shape' /\ StandingWithinLimit'
  BY <1>2, <1>3 DEF PermissionInv, Shape, StandingWithinLimit
<1> QED
  BY <1>4, <1>5, FrameInv

\* A message is written or expires.
LEMMA MessageStep ==
  ASSUME PermissionInv, NEW m \in Message, NEW x \in MessageType,
         UNCHANGED <<perm, approval, message_runs, run, workspace, source>>,
         message' = [message EXCEPT ![m] = x],
         message[m].version > 0 => x.version > 0
  PROVE  PermissionInv'
<1>1. message \in [Message -> MessageType]
  BY DEF PermissionInv, Shape
<1>2. message' \in [Message -> MessageType]
  BY <1>1
<1>3. SameClaims
  BY <1>1 DEF SameClaims
<1>4. Shape' /\ StandingWithinLimit'
  BY <1>2 DEF PermissionInv, Shape, StandingWithinLimit
<1> QED
  BY <1>3, <1>4, FrameInv

\* An approval is asked for or decided: it is not consumed before nor after.
LEMMA ApprovalStep ==
  ASSUME PermissionInv, NEW m \in Message, NEW x \in ApprovalType,
         UNCHANGED <<perm, message, message_runs, run, workspace, source>>,
         approval' = [approval EXCEPT ![m] = x],
         approval[m].state # "consumed", x.state # "consumed"
  PROVE  PermissionInv'
<1>1. approval \in [Message -> ApprovalType]
  BY DEF PermissionInv, Shape
<1>2. approval' \in [Message -> ApprovalType]
  BY <1>1
<1>3. SameClaims
  BY <1>1 DEF SameClaims
<1>4. Shape' /\ StandingWithinLimit'
  BY <1>2 DEF PermissionInv, Shape, StandingWithinLimit
<1> QED
  BY <1>3, <1>4, FrameInv

LEMMA AccountType ==
  ASSUME NEW r \in PermType, NEW x \in Nat
  PROVE  /\ [r EXCEPT !.reserved = x] \in PermType
         /\ [r EXCEPT !.approved_reserved = x] \in PermType
  BY DEF PermType

LEMMA StandingType ==
  ASSUME NEW r \in PermType, NEW x \in Nat, NEW y \in Nat
  PROVE  [r EXCEPT !.reserved = x, !.spent = y] \in PermType
  BY DEF PermType

LEMMA ApprovedType ==
  ASSUME NEW r \in PermType, NEW x \in Nat, NEW y \in Nat
  PROVE  [r EXCEPT !.approved_reserved = x, !.approved_spent = y] \in PermType
  BY DEF PermType

\* A new run: prepare_message and prepare_approved_message.
LEMMA ReserveInv ==
  ASSUME PermissionInv, NEW c \in Command, NEW a \in BOOLEAN,
         MayReserve(c, a), Reserved(c, a), MessageCurrent(MessageOf[c]),
         ~a => NormalAllowed(MessageOf[c]),
         approval' = IF a THEN Consumed(MessageOf[c]) ELSE approval,
         UNCHANGED <<message, workspace, source>>
  PROVE  PermissionInv'
<1> DEFINE m == MessageOf[c]
           n == AmountOf[m]
           x == [NoRun EXCEPT !.state = "queued", !.version = perm.version,
                              !.approved = a, !.reserved = n]
<1>1. m \in Message /\ n \in Nat
  BY RequestAssumption
<1>2. /\ perm \in PermType /\ approval \in [Message -> ApprovalType]
      /\ message_runs \in [Message -> Command \cup {NoCommand}]
      /\ run \in [Command -> RunType]
  BY DEF PermissionInv, Shape
<1>3. /\ perm.version \in Nat /\ perm.reserved \in Nat /\ perm.spent \in Nat
      /\ perm.approved_reserved \in Nat /\ perm.approved_spent \in Nat
      /\ perm.budget_limit \in Nat
  BY <1>2 DEF PermType
<1>4. /\ run[c].state = "none" /\ message_runs[m] = NoCommand
      /\ message[m].version > 0
  BY DEF MayReserve, MessageCurrent
<1>5. /\ perm' = IF a THEN [perm EXCEPT !.approved_reserved = @ + n]
                      ELSE [perm EXCEPT !.reserved = @ + n]
      /\ message_runs' = [message_runs EXCEPT ![m] = c]
      /\ run' = [run EXCEPT ![c] = x]
  BY DEF Reserved
<1>6. x \in RunType
  <2>1. "queued" \in RunState
    BY DEF RunState
  <2> QED
    BY <1>1, <1>3, <2>1 DEF NoRun, RunType
<1>7. x.state = "queued" /\ ~x.settled /\ x.approved = a /\ x.reserved = n
      /\ x.spent = 0
  BY DEF NoRun
<1>8. ~a => perm.spent + perm.reserved + n <= perm.budget_limit
  BY DEF NormalAllowed
<1> HIDE DEF x, n, m
<1>9. /\ perm'.spent = perm.spent /\ perm'.approved_spent = perm.approved_spent
      /\ perm'.reserved = IF a THEN perm.reserved ELSE perm.reserved + n
      /\ perm'.approved_reserved = IF a THEN perm.approved_reserved + n
                                        ELSE perm.approved_reserved
      /\ perm'.budget_limit = perm.budget_limit
  BY <1>2, <1>5 DEF PermType
<1>10. run'[c] = x /\ \A d \in Command \ {c} : run'[d] = run[d]
  BY <1>2, <1>5
<1>11. Shape'
  <2>1. perm' \in PermType
    <3>1. perm.reserved + n \in Nat /\ perm.approved_reserved + n \in Nat
      BY <1>1, <1>3
    <3>2. perm' = [perm EXCEPT !.approved_reserved = perm.approved_reserved + n]
          \/ perm' = [perm EXCEPT !.reserved = perm.reserved + n]
      BY <1>2, <1>5 DEF PermType
    <3> QED
      BY <1>2, <3>1, <3>2, AccountType
  <2>2. run' \in [Command -> RunType] /\ message_runs' \in [Message -> Command \cup {NoCommand}]
    BY <1>1, <1>2, <1>5, <1>6
  <2>3. approval' \in [Message -> ApprovalType]
    <3>1. "consumed" \in ApprovalState
      BY DEF ApprovalState
    <3>2. approval[m] \in ApprovalType
      BY <1>1, <1>2
    <3>3. [approval[m] EXCEPT !.state = "consumed"] \in ApprovalType
      BY <3>1, <3>2 DEF ApprovalType
    <3>4. Consumed(m) = [approval EXCEPT ![m] = [approval[m] EXCEPT !.state = "consumed"]]
      BY <1>1, <1>2 DEF Consumed
    <3> QED
      BY <1>1, <1>2, <3>3, <3>4 DEF m
  <2> QED
    BY <2>1, <2>2, <2>3 DEF PermissionInv, Shape
<1>12. RunsMade'
  <2>1. \A d \in Command : MessageOf[d] \in Message
    BY RequestAssumption
  <2> QED
    BY <1>4, <1>7, <1>10 DEF PermissionInv, RunsMade, m
<1>13. \A d \in Command : MessageOf[d] = m => run[d].state = "none"
  BY <1>1, <1>4, NameAssumption DEF PermissionInv, OneRunPerMessage
<1>14. OneRunPerMessage'
  <2> SUFFICES ASSUME NEW k \in Message
               PROVE  /\ \A d \in Command : MessageOf[d] = k =>
                           (run'[d].state # "none" <=> message_runs'[k] = d)
                      /\ approval'[k].state = "consumed"
                           <=> \E d \in Command : MessageOf[d] = k /\ run'[d].state # "none"
                                                  /\ run'[d].approved
    BY DEF OneRunPerMessage
  <2>1. CASE k # m
    <3>1. message_runs'[k] = message_runs[k] /\ approval'[k] = approval[k]
      BY <1>1, <1>2, <1>5, <2>1 DEF Consumed, m
    <3>2. \A d \in Command : MessageOf[d] = k => run'[d] = run[d]
      BY <1>10, <2>1 DEF m
    <3> QED
      BY <3>1, <3>2 DEF PermissionInv, OneRunPerMessage
  <2>2. CASE k = m
    <3>1. message_runs'[m] = c
      BY <1>1, <1>2, <1>5
    <3>2. \A d \in Command \ {c} : MessageOf[d] = m => run'[d].state = "none"
      BY <1>10, <1>13
    <3>3. approval[m].state # "consumed"
      BY <1>1, <1>13 DEF PermissionInv, OneRunPerMessage
    <3>4. approval'[m].state = "consumed" <=> a
      <4>1. approval[m] \in ApprovalType
        BY <1>1, <1>2
      <4>2. Consumed(m)[m].state = "consumed"
        BY <1>1, <1>2, <4>1 DEF Consumed, ApprovalType
      <4> QED
        BY <3>3, <4>2 DEF m
    <3>5. run'[c].state # "none" /\ run'[c].approved = a /\ MessageOf[c] = m
      BY <1>7, <1>10 DEF m
    <3> QED
      BY <2>2, <3>1, <3>2, <3>4, <3>5
  <2> QED
    BY <2>1, <2>2
<1>15. StandingWithinLimit'
  BY <1>1, <1>3, <1>8, <1>9 DEF PermissionInv, StandingWithinLimit
<1>16. Accounts'
  <2>1. Amounts(a)' = Amounts(a) + n
    BY <1>9 DEF Amounts
  <2>2. \A b \in BOOLEAN \ {a} : Amounts(b)' = Amounts(b)
    BY <1>9 DEF Amounts
  <2>3. \A b \in BOOLEAN : Spent(b)' = Spent(b)
    BY <1>9 DEF Spent
  <2>4. /\ run'[c].state # "none" /\ ~run'[c].settled /\ run'[c].approved = a
        /\ run'[c].reserved = n
    BY <1>7, <1>10
  <2> QED
    BY <1>1, <1>4, <1>10, <2>1, <2>2, <2>3, <2>4, AccountsReserved DEF PermissionInv
<1> QED
  BY <1>11, <1>12, <1>14, <1>15, <1>16 DEF PermissionInv

\* What settle does to the accounts of a permission.
LEMMA SettledAccounts ==
  ASSUME perm \in PermType, NEW c \in Command, run[c] \in RunType, NEW n \in Nat,
         Settlable(c, n), perm' = Settled(c, n), NEW a \in BOOLEAN, a = run[c].approved
  PROVE  /\ perm' \in PermType /\ perm'.budget_limit = perm.budget_limit
         /\ perm'.spent + perm'.reserved <= perm.spent + perm.reserved
         /\ Amounts(a)' = Amounts(a) - run[c].reserved /\ Spent(a)' = Spent(a) + n
         /\ \A b \in BOOLEAN \ {a} : Amounts(b)' = Amounts(b) /\ Spent(b)' = Spent(b)
<1> DEFINE r == run[c].reserved
<1>1. r \in Nat
  BY DEF RunType
<1>2. /\ perm.reserved \in Nat /\ perm.spent \in Nat
      /\ perm.approved_reserved \in Nat /\ perm.approved_spent \in Nat
  BY DEF PermType
<1>3. n <= r
  BY DEF Settlable
<1>4. CASE a = TRUE
  <2> DEFINE x == perm.approved_reserved - r
             y == perm.approved_spent + n
  <2>1. x \in Nat /\ y \in Nat
    BY <1>1, <1>2, <1>4 DEF Settlable
  <2>2. perm' = [perm EXCEPT !.approved_reserved = x, !.approved_spent = y]
    BY <1>4 DEF Settled, PermType
  <2> HIDE DEF x, y
  <2>3. perm' \in PermType
    <3>1. [perm EXCEPT !.approved_reserved = x, !.approved_spent = y] \in PermType
      BY <2>1, ApprovedType
    <3> QED
      BY <2>2, <3>1, Zenon
  <2>4. /\ perm'.approved_reserved = x /\ perm'.approved_spent = y
        /\ perm'.reserved = perm.reserved /\ perm'.spent = perm.spent
        /\ perm'.budget_limit = perm.budget_limit
    BY <2>2 DEF PermType
  <2>5. /\ Amounts(TRUE)' = x /\ Amounts(TRUE) = perm.approved_reserved
        /\ Spent(TRUE)' = y /\ Spent(TRUE) = perm.approved_spent
        /\ Amounts(FALSE)' = Amounts(FALSE) /\ Spent(FALSE)' = Spent(FALSE)
    BY <2>4 DEF Amounts, Spent
  <2>6. perm'.spent + perm'.reserved <= perm.spent + perm.reserved
    BY <1>2, <2>4
  <2> QED
    BY <1>4, <2>3, <2>4, <2>5, <2>6 DEF x, y
<1>5. CASE a = FALSE
  <2> DEFINE x == perm.reserved - r
             y == perm.spent + n
  <2>1. x \in Nat /\ y \in Nat /\ y + x <= perm.spent + perm.reserved
    BY <1>1, <1>2, <1>3, <1>5 DEF Settlable
  <2>2. perm' = [perm EXCEPT !.reserved = x, !.spent = y]
    BY <1>5 DEF Settled, PermType
  <2> HIDE DEF x, y
  <2>3. perm' \in PermType
    <3>1. [perm EXCEPT !.reserved = x, !.spent = y] \in PermType
      BY <2>1, StandingType
    <3> QED
      BY <2>2, <3>1, Zenon
  <2>4. /\ perm'.reserved = x /\ perm'.spent = y
        /\ perm'.approved_reserved = perm.approved_reserved
        /\ perm'.approved_spent = perm.approved_spent
        /\ perm'.budget_limit = perm.budget_limit
    BY <2>2 DEF PermType
  <2>5. /\ Amounts(FALSE)' = x /\ Amounts(FALSE) = perm.reserved
        /\ Spent(FALSE)' = y /\ Spent(FALSE) = perm.spent
        /\ Amounts(TRUE)' = Amounts(TRUE) /\ Spent(TRUE)' = Spent(TRUE)
    BY <2>4 DEF Amounts, Spent
  <2> QED
    BY <1>5, <2>1, <2>3, <2>4, <2>5 DEF x, y
<1> QED
  BY <1>4, <1>5

\* A run ends with a known outcome: finish_message, and request_stop of a queued
\* run.
LEMMA SettleInv ==
  ASSUME PermissionInv, NEW c \in Command, NEW n \in Nat, NEW x \in RunType,
         Settlable(c, n), perm' = Settled(c, n), run' = [run EXCEPT ![c] = x],
         run[c].state # "none", x.state # "none", x.settled, x.spent = n,
         x.approved = run[c].approved,
         UNCHANGED <<message, approval, message_runs, workspace, source>>
  PROVE  PermissionInv'
<1>1. perm \in PermType /\ run \in [Command -> RunType] /\ run[c] \in RunType
  BY DEF PermissionInv, Shape
<1>2. PICK a \in BOOLEAN, r \in Nat : a = run[c].approved /\ r = run[c].reserved
  BY <1>1 DEF RunType
<1>3. /\ perm' \in PermType /\ perm'.budget_limit = perm.budget_limit
      /\ perm'.spent + perm'.reserved <= perm.spent + perm.reserved
      /\ Amounts(a)' = Amounts(a) - r /\ Spent(a)' = Spent(a) + n
      /\ \A b \in BOOLEAN \ {a} : Amounts(b)' = Amounts(b) /\ Spent(b)' = Spent(b)
  BY <1>1, <1>2, SettledAccounts
<1>4. run[c].approved = a /\ run[c].reserved = r /\ x.approved = a /\ ~run[c].settled
  BY <1>2 DEF Settlable
<1>5. run'[c] = x /\ \A d \in Command \ {c} : run'[d] = run[d]
  BY <1>1
<1>6. Shape'
  <2>1. run' \in [Command -> RunType]
    BY <1>1
  <2> QED
    BY <1>3, <2>1 DEF PermissionInv, Shape
<1>7. \A d \in Command : /\ run'[d].state = "none" <=> run[d].state = "none"
                         /\ run'[d].approved = run[d].approved
  BY <1>5
<1>8. RunsMade'
  <2>1. \A d \in Command : /\ run'[d].state = "none" => ~run'[d].settled
                           /\ ~run'[d].settled => run'[d].spent = 0
    BY <1>5 DEF PermissionInv, RunsMade
  <2> QED
    BY <1>7, <2>1 DEF PermissionInv, RunsMade
<1>9. OneRunPerMessage'
  BY <1>7 DEF PermissionInv, OneRunPerMessage
<1>10. StandingWithinLimit'
  BY <1>1, <1>3 DEF PermissionInv, StandingWithinLimit, PermType
<1>11. Accounts'
  <2>1. run'[c].settled /\ run'[c].spent = n /\ run'[c].approved = a
    BY <1>4, <1>5
  <2> QED
    BY <1>2, <1>3, <1>4, <1>5, <2>1, AccountsSettled DEF PermissionInv
<1> QED
  BY <1>6, <1>8, <1>9, <1>10, <1>11 DEF PermissionInv

\* A run begins, is asked to stop, or ends with an unknown outcome.
LEMMA RunStep ==
  ASSUME PermissionInv, NEW c \in Command, NEW x \in RunType,
         run' = [run EXCEPT ![c] = x], run[c].state # "none", x.state # "none",
         x.settled = run[c].settled, x.approved = run[c].approved,
         x.reserved = run[c].reserved, x.spent = run[c].spent,
         UNCHANGED <<perm, message, approval, message_runs, workspace, source>>
  PROVE  PermissionInv'
<1>1. run \in [Command -> RunType]
  BY DEF PermissionInv, Shape
<1>2. run' \in [Command -> RunType] /\ run'[c] = x
      /\ \A d \in Command \ {c} : run'[d] = run[d]
  BY <1>1
<1>3. SameClaims
  BY <1>2 DEF SameClaims
<1>4. Shape' /\ StandingWithinLimit'
  BY <1>2 DEF PermissionInv, Shape, StandingWithinLimit
<1> QED
  BY <1>3, <1>4, FrameInv

\* What the entries make of a run.
LEMMA RunUpdates ==
  ASSUME run \in [Command -> RunType], NEW c \in Command, NEW n \in Nat, NEW s \in RunState
  PROVE  /\ [run[c] EXCEPT !.state = s] \in RunType
         /\ [run[c] EXCEPT !.stop = TRUE] \in RunType
         /\ [run[c] EXCEPT !.state = s, !.settled = TRUE, !.spent = n] \in RunType
         /\ [run[c] EXCEPT !.state = s, !.stop = TRUE, !.settled = TRUE] \in RunType
<1>1. run[c] \in RunType
  OBVIOUS
<1> QED
  BY <1>1 DEF RunType

LEMMA BeginInv ==
  ASSUME PermissionInv, NEW c \in Command, BeginMessage(c)
  PROVE  PermissionInv'
<1> DEFINE x == [run[c] EXCEPT !.state = "running"]
<1>1. run \in [Command -> RunType] /\ run[c] \in RunType
  BY DEF PermissionInv, Shape
<1>2. "running" \in RunState
  BY DEF RunState
<1>3. x \in RunType
  BY <1>1, <1>2, RunUpdates
<1>4. run' = [run EXCEPT ![c] = x] /\ run[c].state # "none"
  BY <1>1 DEF BeginMessage, MayBegin
<1>5. /\ x.state # "none" /\ x.settled = run[c].settled /\ x.approved = run[c].approved
      /\ x.reserved = run[c].reserved /\ x.spent = run[c].spent
  BY <1>1 DEF RunType
<1>6. UNCHANGED <<perm, message, approval, message_runs, workspace, source>>
  BY DEF BeginMessage
<1> HIDE DEF x
<1> QED
  BY <1>3, <1>4, <1>5, <1>6, RunStep

LEMMA FinishInv ==
  ASSUME PermissionInv, NEW c \in Command, NEW outcome \in Final,
         NEW spent \in 0 .. run[c].reserved, FinishMessage(c, outcome, spent)
  PROVE  PermissionInv'
<1>1. run \in [Command -> RunType] /\ run[c] \in RunType
  BY DEF PermissionInv, Shape
<1>2. spent \in Nat /\ outcome \in RunState /\ outcome # "none"
  BY DEF RunState, Final
<1>3. run[c].state # "none" /\ UNCHANGED <<message, approval, message_runs, workspace, source>>
  BY DEF FinishMessage
<1>4. CASE outcome = "needs_confirmation"
  <2> DEFINE x == [run[c] EXCEPT !.state = outcome]
  <2>1. x \in RunType
    BY <1>1, <1>2, RunUpdates
  <2>2. run' = [run EXCEPT ![c] = x] /\ perm' = perm
    BY <1>1, <1>4 DEF FinishMessage
  <2>3. /\ x.state # "none" /\ x.settled = run[c].settled /\ x.approved = run[c].approved
        /\ x.reserved = run[c].reserved /\ x.spent = run[c].spent
    BY <1>1, <1>2 DEF RunType
  <2> HIDE DEF x
  <2> QED
    BY <1>3, <2>1, <2>2, <2>3, RunStep
<1>5. CASE outcome # "needs_confirmation"
  <2> DEFINE x == [run[c] EXCEPT !.state = outcome, !.settled = TRUE, !.spent = spent]
  <2>1. x \in RunType
    BY <1>1, <1>2, RunUpdates
  <2>2. /\ run' = [run EXCEPT ![c] = x] /\ Settlable(c, spent)
        /\ perm' = Settled(c, spent)
    BY <1>1, <1>5 DEF FinishMessage
  <2>3. x.state # "none" /\ x.settled /\ x.spent = spent /\ x.approved = run[c].approved
    BY <1>1, <1>2 DEF RunType
  <2> HIDE DEF x
  <2> QED
    BY <1>2, <1>3, <2>1, <2>2, <2>3, SettleInv
<1> QED
  BY <1>4, <1>5

LEMMA StopInv ==
  ASSUME PermissionInv, NEW c \in Command, NEW d \in Device, RequestStop(c, d)
  PROVE  PermissionInv'
<1>1. run \in [Command -> RunType] /\ run[c] \in RunType
  BY DEF PermissionInv, Shape
<1>2. "cancelled" \in RunState /\ 0 \in Nat
  BY DEF RunState, Final
<1>3. run[c].state # "none" /\ UNCHANGED <<message, approval, message_runs, workspace, source>>
  BY DEF RequestStop
<1>4. CASE run[c].state = "queued"
  <2> DEFINE x == [run[c] EXCEPT !.state = "cancelled", !.stop = TRUE, !.settled = TRUE]
  <2>1. x \in RunType
    BY <1>1, <1>2, RunUpdates
  <2>2. run' = [run EXCEPT ![c] = x] /\ Settlable(c, 0) /\ perm' = Settled(c, 0)
    BY <1>1, <1>4 DEF RequestStop
  <2>3. x.state # "none" /\ x.settled /\ x.spent = run[c].spent
        /\ x.approved = run[c].approved
    BY <1>1 DEF RunType
  <2>4. run[c].spent = 0
    BY <2>2 DEF Settlable, PermissionInv, RunsMade
  <2> HIDE DEF x
  <2> QED
    BY <1>2, <1>3, <2>1, <2>2, <2>3, <2>4, SettleInv
<1>5. CASE run[c].state # "queued"
  <2> DEFINE x == [run[c] EXCEPT !.stop = TRUE]
  <2>1. x \in RunType
    BY <1>1, <1>2, RunUpdates
  <2>2. run' = [run EXCEPT ![c] = x] /\ perm' = perm
    BY <1>1, <1>5 DEF RequestStop
  <2>3. /\ x.state # "none" /\ x.settled = run[c].settled /\ x.approved = run[c].approved
        /\ x.reserved = run[c].reserved /\ x.spent = run[c].spent
    BY <1>1, <1>3 DEF RunType
  <2> HIDE DEF x
  <2> QED
    BY <1>3, <2>1, <2>2, <2>3, RunStep
<1> QED
  BY <1>4, <1>5

LEMMA RequestInv ==
  ASSUME PermissionInv, NEW m \in Message, NEW d \in Device, RequestApproval(m, d)
  PROVE  PermissionInv'
<1> DEFINE x == [state |-> "requested", version |-> perm.version,
                 revision |-> workspace.revision, by |-> NoDevice]
<1>1. perm.version \in Nat /\ workspace.revision \in Nat
  BY DEF PermissionInv, Shape, PermType
<1>2. "requested" \in ApprovalState
  BY DEF ApprovalState
<1>3. x \in ApprovalType
  BY <1>1, <1>2 DEF ApprovalType
<1>4. /\ approval' = [approval EXCEPT ![m] = x]
      /\ approval[m].state # "consumed" /\ x.state # "consumed"
      /\ UNCHANGED <<perm, message, message_runs, run, workspace, source>>
  BY DEF RequestApproval
<1> HIDE DEF x
<1> QED
  BY <1>3, <1>4, ApprovalStep

LEMMA DecideInv ==
  ASSUME PermissionInv, NEW m \in Message, NEW d \in Device, NEW approve \in BOOLEAN,
         DecideApproval(m, d, approve)
  PROVE  PermissionInv'
<1> DEFINE s == IF approve THEN "approved" ELSE "rejected"
           x == [approval[m] EXCEPT !.state = s, !.by = d]
<1>1. approval \in [Message -> ApprovalType] /\ approval[m] \in ApprovalType
  BY DEF PermissionInv, Shape
<1>2. s \in ApprovalState /\ s # "consumed"
  BY DEF ApprovalState
<1>3. approval' = [approval EXCEPT ![m] = x]
  BY <1>1 DEF DecideApproval
<1> HIDE DEF s
<1>4. x \in ApprovalType /\ x.state = s
  BY <1>1, <1>2 DEF ApprovalType
<1>5. /\ approval[m].state # "consumed"
      /\ UNCHANGED <<perm, message, message_runs, run, workspace, source>>
  BY DEF DecideApproval
<1> HIDE DEF x
<1> QED
  BY <1>2, <1>3, <1>4, <1>5, ApprovalStep

LEMMA CreateInv ==
  ASSUME PermissionInv, NEW m \in Message, NEW d \in Device, NEW v, CreateMessage(m, d, v)
  PROVE  PermissionInv'
<1> DEFINE x == [message[m] EXCEPT !.version = perm.version, !.writer = d]
<1>1. message \in [Message -> MessageType] /\ message[m] \in MessageType
      /\ perm.version \in Nat
  BY DEF PermissionInv, Shape, PermType
<1>2. /\ perm.version > 0 /\ message' = [message EXCEPT ![m] = x]
      /\ UNCHANGED <<perm, approval, message_runs, run, workspace, source>>
  BY <1>1 DEF CreateMessage, Current
<1>3. x \in MessageType /\ x.version = perm.version
  BY <1>1 DEF MessageType
<1> HIDE DEF x
<1> QED
  BY <1>2, <1>3, MessageStep

LEMMA EnvironmentInv ==
  ASSUME PermissionInv, Environment
  PROVE  PermissionInv'
<1>1. CASE ChangeWorkspace
  <2>1. SameClaims
    BY <1>1 DEF ChangeWorkspace, SameClaims
  <2>2. workspace' \in [protected : BOOLEAN, revision : Nat]
    BY <1>1 DEF ChangeWorkspace, PermissionInv, Shape
  <2>3. Shape' /\ StandingWithinLimit'
    BY <1>1, <2>2 DEF ChangeWorkspace, PermissionInv, Shape, StandingWithinLimit
  <2> QED
    BY <2>1, <2>3, FrameInv
<1>2. CASE ChangeSource
  <2>1. SameClaims
    BY <1>2 DEF ChangeSource, SameClaims
  <2>2. Shape' /\ StandingWithinLimit'
    BY <1>2 DEF ChangeSource, PermissionInv, Shape, StandingWithinLimit
  <2> QED
    BY <2>1, <2>2, FrameInv
<1>3. CASE ExpirePermission
  BY <1>3, PermissionStep DEF ExpirePermission
<1>4. CASE \E d \in Device : RevokeGrant(d)
  BY <1>4, PermissionStep DEF RevokeGrant
<1>5. ASSUME NEW m \in Message, ExpireMessage(m) PROVE PermissionInv'
  <2> DEFINE x == [message[m] EXCEPT !.expired = TRUE]
  <2>1. message \in [Message -> MessageType] /\ message[m] \in MessageType
    BY <1>5 DEF PermissionInv, Shape
  <2>2. /\ message' = [message EXCEPT ![m] = x]
        /\ UNCHANGED <<perm, approval, message_runs, run, workspace, source>>
    BY <1>5, <2>1 DEF ExpireMessage
  <2>3. x \in MessageType /\ x.version = message[m].version
    BY <2>1 DEF MessageType
  <2> HIDE DEF x
  <2> QED
    BY <1>5, <2>2, <2>3, MessageStep
<1> QED
  BY <1>1, <1>2, <1>3, <1>4, <1>5 DEF Environment

LEMMA NextInv ==
  ASSUME PermissionInv, [Next]_vars
  PROVE  PermissionInv'
<1>1. ASSUME NEW d \in Device, NEW p \in Policy, UpdatePermission(d, perm.version, p)
      PROVE  PermissionInv'
  BY <1>1, UpdateInv
<1>2. ASSUME NEW d \in Device, RevokePermission(d, perm.version) PROVE PermissionInv'
  BY <1>2, PermissionStep DEF RevokePermission
<1>3. ASSUME NEW d \in Device, NEW m \in Message,
             \/ CreateMessage(m, d, perm.version) \/ RequestApproval(m, d)
             \/ \E approve \in BOOLEAN : DecideApproval(m, d, approve)
      PROVE  PermissionInv'
  BY <1>3, CreateInv, RequestInv, DecideInv
<1>4. ASSUME NEW d \in Device, NEW k \in Cap,
             \/ IssueCapability(k, d, perm.version, 10000)
             \/ \E m \in Message : IssueApprovedCapability(k, d, m)
      PROVE  PermissionInv'
  <2>1. UNCHANGED <<perm, message, approval, message_runs, run, workspace, source>>
    <3>1. CASE IssueCapability(k, d, perm.version, 10000)
      <4>1. UNCHANGED <<perm, message, approval, message_runs, run, workspace, source, grant>>
        BY ONLY <3>1 DEF IssueCapability
      <4> QED
        BY ONLY <4>1
    <3>2. ASSUME NEW m \in Message, IssueApprovedCapability(k, d, m)
          PROVE  UNCHANGED <<perm, message, approval, message_runs, run, workspace, source>>
      <4>1. UNCHANGED <<perm, message, approval, message_runs, run, workspace, source, grant>>
        BY ONLY <3>2 DEF IssueApprovedCapability
      <4> QED
        BY ONLY <4>1
    <3> QED
      BY <1>4, <3>1, <3>2
  <2> QED
    BY <2>1, PermissionStep
<1>5. ASSUME NEW c \in Command, PrepareMessage(c) PROVE PermissionInv'
  BY <1>5, ReserveInv DEF PrepareMessage
<1>6. ASSUME NEW c \in Command, PrepareApprovedMessage(c) PROVE PermissionInv'
  BY <1>6, ReserveInv DEF PrepareApprovedMessage
<1>7. ASSUME NEW c \in Command, BeginMessage(c) PROVE PermissionInv'
  BY <1>7, BeginInv
<1>8. ASSUME NEW c \in Command, NEW outcome \in Final, NEW spent \in 0 .. run[c].reserved,
             FinishMessage(c, outcome, spent)
      PROVE  PermissionInv'
  BY <1>8, FinishInv
<1>9. ASSUME NEW c \in Command, NEW d \in Device, RequestStop(c, d) PROVE PermissionInv'
  BY <1>9, StopInv
<1>10. CASE Environment
  BY <1>10, EnvironmentInv
<1>11. CASE UNCHANGED vars
  BY <1>11, PermissionStep DEF vars
<1> QED
  BY <1>1, <1>2, <1>3, <1>4, <1>5, <1>6, <1>7, <1>8, <1>9, <1>10, <1>11 DEF Next

LEMMA PermissionInvariant == Spec => []PermissionInv
<1>1. PermissionInv /\ [Next]_vars => PermissionInv'
  BY NextInv
<1> QED
  BY InitInv, <1>1, PTL DEF Spec

\* Both accounts of the permission are the sums over the individual claims, over
\* any number of runs, renewals, approvals and settlements.
THEOREM AccountsExact == Spec => []LedgerExact
<1>1. PermissionInv => LedgerExact
  BY AccountsAreLedger DEF PermissionInv
<1> QED
  BY <1>1, PermissionInvariant, PTL

\* The standing account never owes more than the limit in force.
THEOREM LimitHolds == Spec => []StandingWithinLimit
<1>1. PermissionInv => StandingWithinLimit
  BY DEF PermissionInv
<1> QED
  BY <1>1, PermissionInvariant, PTL

\* A message has one run for good, and an approval is consumed by exactly the run
\* that was reserved with it.
THEOREM RunsUnique == Spec => []OneRunPerMessage
<1>1. PermissionInv => OneRunPerMessage
  BY DEF PermissionInv
<1> QED
  BY <1>1, PermissionInvariant, PTL

-----------------------------------------------------------------------------
(* Lapsed runs.                                                            *)

\* What a queued run relies on: its version, its message's writer, and who
\* approved it.
Held(c) ==
  /\ run'[c].version = run[c].version /\ run'[c].approved = run[c].approved
  /\ message'[MessageOf[c]].writer = message[MessageOf[c]].writer
  /\ run[c].approved => approval'[MessageOf[c]].by = approval[MessageOf[c]].by
  /\ perm'.version >= perm.version /\ grant' \subseteq grant

LEMMA HeldLapses ==
  ASSUME PermissionInv, NEW c \in Command, Lapsed(c), Held(c), run'[c].state # "running",
         perm'.version \in Nat
  PROVE  run'[c].state # "running" /\ (run'[c].state = "queued" => Lapsed(c)')
<1>1. perm.version \in Nat /\ run[c].version \in Nat
  BY DEF PermissionInv, Shape, PermType, RunType
<1> QED
  BY <1>1 DEF Lapsed, Held

\* A step that leaves the run alone.
LEMMA OtherStep ==
  ASSUME PermissionInv, NEW c \in Command, Lapsed(c), run'[c] = run[c],
         message'[MessageOf[c]].writer = message[MessageOf[c]].writer,
         run[c].approved => approval'[MessageOf[c]].by = approval[MessageOf[c]].by,
         perm'.version \in Nat, perm'.version >= perm.version, grant' \subseteq grant
  PROVE  run'[c].state # "running" /\ (run'[c].state = "queued" => Lapsed(c)')
<1>1. Held(c)
  BY DEF Held
<1>2. run'[c].state # "running"
  BY DEF Lapsed
<1> QED
  BY <1>1, <1>2, HeldLapses

\* Reserving and settling leave the version alone.
LEMMA SameVersion ==
  ASSUME perm \in PermType, NEW c \in Command
  PROVE  /\ \A a \in BOOLEAN : Reserved(c, a) => perm'.version = perm.version
         /\ \A n \in Nat : perm' = Settled(c, n) => perm'.version = perm.version
<1>1. \A a \in BOOLEAN : Reserved(c, a) => perm'.version = perm.version
  BY DEF Reserved, PermType
<1>2. \A n \in Nat : Settled(c, n).version = perm.version
  BY DEF Settled, PermType
<1> QED
  BY <1>1, <1>2

LEMMA LapsedStep ==
  ASSUME PermissionInv, [Next]_vars, NEW c \in Command, Lapsed(c)
  PROVE  run'[c].state # "running" /\ (run'[c].state = "queued" => Lapsed(c)')
<1> DEFINE m == MessageOf[c]
           Goal == run'[c].state # "running" /\ (run'[c].state = "queued" => Lapsed(c)')
<1>1. /\ perm \in PermType /\ message \in [Message -> MessageType]
      /\ approval \in [Message -> ApprovalType] /\ run \in [Command -> RunType]
  BY DEF PermissionInv, Shape
<1>2. perm.version \in Nat /\ perm.version >= perm.version
  BY <1>1 DEF PermType
<1>3. run[c].state = "queued" /\ m \in Message /\ message[m].version > 0
  BY RequestAssumption DEF Lapsed, PermissionInv, RunsMade
<1>4. run[c].approved => approval[m].state = "consumed"
  BY <1>3 DEF PermissionInv, OneRunPerMessage
<1>5. ASSUME UNCHANGED <<message, approval, run>>, grant' \subseteq grant,
             perm'.version \in Nat, perm'.version >= perm.version
      PROVE  Goal
  BY <1>5, OtherStep
<1>6. ASSUME NEW d \in Device, NEW p \in Policy, UpdatePermission(d, perm.version, p)
      PROVE  Goal
  <2>1. perm'.version = perm.version + 1
    BY <1>1, <1>6 DEF UpdatePermission, Granted, PermType
  <2>2. UNCHANGED <<message, approval, run, grant>>
    BY <1>6 DEF UpdatePermission
  <2> QED
    BY <1>2, <1>5, <2>1, <2>2
<1>7. ASSUME NEW d \in Device, RevokePermission(d, perm.version) PROVE Goal
  <2>1. perm'.version = perm.version + 1
    BY <1>1, <1>7 DEF RevokePermission, PermType
  <2>2. UNCHANGED <<message, approval, run, grant>>
    BY <1>7 DEF RevokePermission
  <2> QED
    BY <1>2, <1>5, <2>1, <2>2
<1>8. ASSUME NEW d \in Device, NEW k \in Message, CreateMessage(k, d, perm.version)
      PROVE  Goal
  <2>1. k # m
    BY <1>3, <1>8 DEF CreateMessage
  <2>2. message'[m] = message[m] /\ UNCHANGED <<perm, approval, run, grant>>
    BY <1>1, <1>3, <1>8, <2>1 DEF CreateMessage
  <2> QED
    BY <1>2, <2>2, OtherStep
<1>9. ASSUME NEW d \in Device, NEW k \in Message,
             RequestApproval(k, d) \/ \E approve \in BOOLEAN : DecideApproval(k, d, approve)
      PROVE  Goal
  <2>1. UNCHANGED <<perm, message, run, grant>>
    BY <1>9 DEF RequestApproval, DecideApproval
  <2>2. approval[k].state # "consumed" /\ \A j \in Message \ {k} : approval'[j] = approval[j]
    BY <1>1, <1>9 DEF RequestApproval, DecideApproval
  <2>3. run[c].approved => approval'[m] = approval[m]
    BY <1>3, <1>4, <2>2
  <2> QED
    BY <1>2, <2>1, <2>3, OtherStep
<1>10. ASSUME NEW d \in Device, NEW k \in Cap,
              \/ IssueCapability(k, d, perm.version, 10000)
              \/ \E j \in Message : IssueApprovedCapability(k, d, j)
       PROVE  Goal
  <2>1. CASE IssueCapability(k, d, perm.version, 10000)
    <3>1. UNCHANGED <<perm, message, approval, run, grant>>
      BY ONLY <2>1 DEF IssueCapability
    <3> QED
      BY <1>2, <1>5, <3>1
  <2>2. ASSUME NEW j \in Message, IssueApprovedCapability(k, d, j) PROVE Goal
    <3>1. UNCHANGED <<perm, message, approval, run, grant>>
      BY ONLY <2>2 DEF IssueApprovedCapability
    <3> QED
      BY <1>2, <1>5, <3>1
  <2> QED
    BY <1>10, <2>1, <2>2
<1>11. ASSUME NEW d \in Command, PrepareMessage(d) PROVE Goal
  <2>1. Reserved(d, FALSE) /\ run[d].state = "none"
        /\ UNCHANGED <<message, approval, grant>>
    BY <1>11 DEF PrepareMessage, MayReserve
  <2>2. run'[c] = run[c]
    BY <1>1, <1>3, <2>1 DEF Reserved
  <2>3. perm'.version = perm.version
    BY <1>1, <2>1, SameVersion
  <2> QED
    BY <1>2, <2>1, <2>2, <2>3, OtherStep
<1>12. ASSUME NEW d \in Command, PrepareApprovedMessage(d) PROVE Goal
  <2>1. Reserved(d, TRUE) /\ run[d].state = "none" /\ approval' = Consumed(MessageOf[d])
        /\ UNCHANGED <<message, grant>>
    BY <1>12 DEF PrepareApprovedMessage, MayReserve
  <2>2. run'[c] = run[c]
    BY <1>1, <1>3, <2>1 DEF Reserved
  <2>3. perm'.version = perm.version
    BY <1>1, <2>1, SameVersion
  <2>4. approval'[m].by = approval[m].by
    <3>1. approval[m] \in ApprovalType
      BY <1>1, <1>3
    <3> QED
      BY <1>1, <1>3, <2>1, <3>1 DEF Consumed, ApprovalType
  <2> QED
    BY <1>2, <2>1, <2>2, <2>3, <2>4, OtherStep
<1>13. ASSUME NEW d \in Command, BeginMessage(d) PROVE Goal
  <2>1. d # c
    BY <1>2, <1>13 DEF BeginMessage, MayBegin, Lapsed, Approved
  <2>2. run'[c] = run[c] /\ UNCHANGED <<perm, message, approval, grant>>
    BY <1>1, <1>13, <2>1 DEF BeginMessage
  <2> QED
    BY <1>2, <2>2, OtherStep
<1>14. ASSUME NEW d \in Command, NEW outcome \in Final, NEW spent \in 0 .. run[d].reserved,
              FinishMessage(d, outcome, spent)
       PROVE  Goal
  <2>1. d # c
    BY <1>3, <1>14 DEF FinishMessage
  <2>2. run'[c] = run[c] /\ UNCHANGED <<message, approval, grant>>
    BY <1>1, <1>14, <2>1 DEF FinishMessage
  <2>3. perm' = perm \/ perm' = Settled(d, spent)
    BY <1>14 DEF FinishMessage
  <2>4. perm'.version = perm.version
    BY <1>1, <2>3, SameVersion
  <2> QED
    BY <1>2, <2>2, <2>4, OtherStep
<1>15. ASSUME NEW d \in Command, NEW e \in Device, RequestStop(d, e) PROVE Goal
  <2>1. CASE d = c
    <3>1. run'[c].state = "cancelled"
      <4>1. run[c] \in RunType
        BY <1>1
      <4> QED
        BY <1>1, <1>3, <1>15, <2>1, <4>1 DEF RequestStop, RunType
    <3> QED
      BY <3>1
  <2>2. CASE d # c
    <3>1. run'[c] = run[c] /\ UNCHANGED <<message, approval, grant>>
      BY <1>1, <1>15, <2>2 DEF RequestStop
    <3>2. perm' = perm \/ perm' = Settled(d, 0)
      BY <1>15 DEF RequestStop
    <3>3. perm'.version = perm.version
      BY <1>1, <3>2, SameVersion
    <3> QED
      BY <1>2, <3>1, <3>3, OtherStep
  <2> QED
    BY <2>1, <2>2
<1>16. ASSUME Environment PROVE Goal
  <2>1. CASE ChangeWorkspace \/ ChangeSource \/ \E d \in Device : RevokeGrant(d)
    <3>1. UNCHANGED <<perm, message, approval, run>> /\ grant' \subseteq grant
      BY <2>1 DEF ChangeWorkspace, ChangeSource, RevokeGrant
    <3> QED
      BY <1>2, <1>5, <3>1
  <2>2. CASE ExpirePermission
    <3>1. perm'.version = perm.version /\ UNCHANGED <<message, approval, run, grant>>
      BY <1>1, <2>2 DEF ExpirePermission, PermType
    <3> QED
      BY <1>2, <1>5, <3>1
  <2>3. ASSUME NEW k \in Message, ExpireMessage(k) PROVE Goal
    <3>1. message[m] \in MessageType /\ message[k] \in MessageType
      BY <1>1, <1>3
    <3>2. message'[m].writer = message[m].writer /\ UNCHANGED <<perm, approval, run, grant>>
      BY <1>1, <1>3, <2>3, <3>1 DEF ExpireMessage, MessageType
    <3> QED
      BY <1>2, <3>2, OtherStep
  <2> QED
    BY <1>16, <2>1, <2>2, <2>3 DEF Environment
<1>17. ASSUME UNCHANGED vars PROVE Goal
  BY <1>2, <1>5, <1>17 DEF vars
<1> HIDE DEF Goal
<1>18. Goal
  BY <1>6, <1>7, <1>8, <1>9, <1>10, <1>11, <1>12, <1>13, <1>14, <1>15, <1>16, <1>17 DEF Next
<1> QED
  BY <1>18 DEF Goal

\* A run whose permission was renewed or revoked, or whose writer or approver lost
\* the grant, never begins, whatever happens afterwards.
THEOREM LapsedRunsNeverBegin == Spec => LapsedNeverStarts
<1>1. PermissionInv /\ [Next]_vars =>
        [\A c \in Command :
           Lapsed(c) => /\ run'[c].state # "running"
                        /\ run'[c].state = "queued" => Lapsed(c)']_vars
  BY LapsedStep
<1> QED
  BY <1>1, PermissionInvariant, PTL DEF Spec, LapsedNeverStarts

-----------------------------------------------------------------------------
(***************************************************************************)
(* Drafts.  No value comes back once it was replaced, since each save and  *)
(* each mark draws a token, except the empty one, by a deletion.  A save   *)
(* whose revision is still the stored value has therefore seen every       *)
(* submission since the last deletion.                                     *)
(***************************************************************************)

Value == [token : Nat, text : Text, attempted : Nat]
EditorType ==
  [pc : {"closed", "open", "restoring", "saving"}, text : Text, original : Value,
   expected : Value, since : Nat]

\* A value has no token and no request id that was not drawn.
DrawnBy(v, n) == v.token <= n /\ v.attempted <= n

\* Neither have the window's revisions, or the time its save began at.
EditorDrawn(e, n) == DrawnBy(e.original, n) /\ DrawnBy(e.expected, n) /\ e.since <= n

\* A save that may still be written began after every submission.
SaveSeen(e, v, x) == e.pc = "saving" /\ e.expected = v => \A t \in Text : x[t] <= e.since

DraftInv ==
  /\ stored \in Value /\ token \in Nat /\ begun \in Nat
  /\ editor \in [Writer -> EditorType] /\ submitted \in [Text -> Nat]
  /\ DrawnBy(stored, token) /\ begun <= token
  /\ \A t \in Text : submitted[t] <= token
  /\ \A w \in Writer : EditorDrawn(editor[w], token) /\ SaveSeen(editor[w], stored, submitted)
  /\ SubmittedNotUnsent

LEMMA InitDraft == DraftInit => DraftInv
<1> SUFFICES ASSUME DraftInit PROVE DraftInv
  OBVIOUS
<1>1. Empty \in Value /\ Empty.token = 0 /\ Empty.attempted = 0
  BY TextAssumption DEF Empty, Value
<1>2. Shut \in EditorType /\ Shut.original = Empty /\ Shut.expected = Empty
      /\ Shut.since = 0 /\ Shut.pc = "closed"
  BY <1>1, TextAssumption DEF Shut, EditorType
<1>3. submitted \in [Text -> Nat] /\ \A t \in Text : submitted[t] = 0
  BY DEF DraftInit, NothingSubmitted
<1>4. stored = Empty /\ token = 0 /\ begun = 0 /\ editor = [w \in Writer |-> Shut]
  BY DEF DraftInit
<1>5. \A w \in Writer : editor[w] = Shut
  BY <1>4
<1>6. EditorDrawn(Shut, 0) /\ SaveSeen(Shut, stored, submitted) /\ DrawnBy(Empty, 0)
  BY <1>1, <1>2 DEF EditorDrawn, SaveSeen, DrawnBy
<1>7. SubmittedNotUnsent
  BY <1>1, <1>4 DEF SubmittedNotUnsent, Unsent
<1> QED
  BY <1>1, <1>2, <1>3, <1>4, <1>5, <1>6, <1>7 DEF DraftInv

\* A step of one editor that stores nothing.
LEMMA EditorStep ==
  ASSUME DraftInv, NEW w \in Writer, NEW e \in EditorType,
         editor' = [editor EXCEPT ![w] = e], UNCHANGED <<stored, token, submitted, begun>>,
         EditorDrawn(e, token), SaveSeen(e, stored, submitted)
  PROVE  DraftInv'
<1>1. editor' \in [Writer -> EditorType]
  BY DEF DraftInv
<1>2. \A v \in Writer : editor'[v] = IF v = w THEN e ELSE editor[v]
  BY DEF DraftInv
<1>3. \A v \in Writer : EditorDrawn(editor'[v], token) /\ SaveSeen(editor'[v], stored, submitted)
  BY <1>2 DEF DraftInv
<1> QED
  BY <1>1, <1>3 DEF DraftInv, SubmittedNotUnsent

\* A save or a mark: the new value is none that a window expects.
LEMMA DrawingStep ==
  ASSUME DraftInv, NEW w \in Writer, NEW e \in EditorType, NEW v \in Value,
         NEW x \in [Text -> Nat], NEW b \in Nat,
         editor' = [editor EXCEPT ![w] = e], stored' = v, token' = token + 1,
         submitted' = x, begun' = b,
         v.token = token + 1 \/ v.attempted = token + 1, DrawnBy(v, token + 1),
         b <= token, \A t \in Text : x[t] <= token + 1,
         EditorDrawn(e, token + 1), e.pc # "saving",
         Unsent(v) => x[v.text] <= b
  PROVE  DraftInv'
<1>1. editor' \in [Writer -> EditorType] /\ token \in Nat
  BY DEF DraftInv
<1>2. \A u \in Writer : editor'[u] = IF u = w THEN e ELSE editor[u]
  BY DEF DraftInv
<1>3. ASSUME NEW u \in Writer, u # w
      PROVE  EditorDrawn(editor[u], token + 1) /\ SaveSeen(editor[u], v, x)
  <2>1. /\ editor[u] \in EditorType /\ EditorDrawn(editor[u], token)
    BY DEF DraftInv
  <2>2. /\ editor[u].original \in Value /\ editor[u].expected \in Value
        /\ editor[u].since \in Nat
    BY <2>1 DEF EditorType
  <2>3. EditorDrawn(editor[u], token + 1)
    BY <1>1, <2>1, <2>2 DEF EditorDrawn, DrawnBy, Value
  <2>4. editor[u].expected # v
    BY <1>1, <2>1, <2>2 DEF EditorDrawn, DrawnBy, Value
  <2> QED
    BY <2>3, <2>4 DEF SaveSeen
<1>4. SaveSeen(e, v, x)
  BY DEF SaveSeen
<1>5. \A u \in Writer : EditorDrawn(editor'[u], token') /\ SaveSeen(editor'[u], stored', submitted')
  BY <1>2, <1>3, <1>4
<1>6. SubmittedNotUnsent'
  BY DEF SubmittedNotUnsent, Unsent
<1>7. token' \in Nat /\ begun' <= token'
  BY <1>1
<1> QED
  BY <1>1, <1>5, <1>6, <1>7 DEF DraftInv

LEMMA NextDraft ==
  ASSUME DraftInv, [DraftNext]_draftVars
  PROVE  DraftInv'
<1>1. CASE UNCHANGED draftVars
  BY <1>1 DEF draftVars, DraftInv, SubmittedNotUnsent
<1>2. ASSUME NEW w \in Writer,
             \/ Open(w) \/ Restore(w) \/ RestoreEnds(w) \/ Save(w) \/ SaveEnds(w)
             \/ Mark(w) \/ Discard(w) \/ CloseEditor(w)
             \/ \E t \in Text : Edit(w, t)
      PROVE  DraftInv'
  <2> DEFINE s == editor[w]
  <2>1. /\ s \in EditorType /\ stored \in Value /\ token \in Nat /\ begun \in Nat
        /\ editor \in [Writer -> EditorType] /\ submitted \in [Text -> Nat]
    BY DEF DraftInv
  <2>2. /\ s.text \in Text /\ s.original \in Value /\ s.expected \in Value /\ s.since \in Nat
        /\ stored.token \in Nat /\ stored.text \in Text /\ stored.attempted \in Nat
    BY <2>1 DEF EditorType, Value
  <2>3. /\ EditorDrawn(s, token) /\ SaveSeen(s, stored, submitted) /\ DrawnBy(stored, token)
        /\ \A t \in Text : submitted[t] <= token
    BY DEF DraftInv
  <2>4. /\ Empty \in Value /\ Empty.token = 0 /\ Empty.attempted = 0
        /\ Shut \in EditorType /\ Shut.pc = "closed" /\ Shut.original = Empty
        /\ Shut.expected = Empty /\ Shut.since = 0
    BY TextAssumption DEF Empty, Shut, Value, EditorType
  <2>5. DrawnBy(Empty, token) /\ DrawnBy(Empty, token + 1)
    BY <2>1, <2>4 DEF DrawnBy
  <2>6. CASE Open(w)
    <3> DEFINE e == [Shut EXCEPT !.pc = "open", !.original = stored]
    <3>1. e \in EditorType /\ e.pc = "open" /\ e.original = stored /\ e.expected = Empty
          /\ e.since = 0
      BY <2>1, <2>4 DEF EditorType
    <3>2. editor' = [editor EXCEPT ![w] = e] /\ UNCHANGED <<stored, token, submitted, begun>>
      BY <2>6 DEF Open
    <3> HIDE DEF e
    <3>3. EditorDrawn(e, token) /\ SaveSeen(e, stored, submitted)
      BY <2>1, <2>3, <2>5, <3>1 DEF EditorDrawn, SaveSeen
    <3> QED
      BY <3>1, <3>2, <3>3, EditorStep
  <2>7. CASE Restore(w)
    <3> DEFINE e == IF Unsent(stored)
                    THEN [s EXCEPT !.pc = "restoring", !.original = stored]
                    ELSE [s EXCEPT !.text = NoText, !.original = stored]
    <3>1. e \in EditorType /\ e.pc # "saving" /\ e.original = stored /\ e.expected = s.expected
          /\ e.since = s.since
      BY <2>1, <2>7, TextAssumption DEF Restore, EditorType
    <3>2. editor' = [editor EXCEPT ![w] = e] /\ UNCHANGED <<stored, token, submitted, begun>>
      BY <2>1, <2>7 DEF Restore, EditorType
    <3> HIDE DEF e
    <3>3. EditorDrawn(e, token) /\ SaveSeen(e, stored, submitted)
      BY <2>3, <3>1 DEF EditorDrawn, SaveSeen
    <3> QED
      BY <3>1, <3>2, <3>3, EditorStep
  <2>8. CASE RestoreEnds(w)
    <3> PICK t \in Text :
          /\ editor' = [editor EXCEPT ![w] = [s EXCEPT !.pc = "open", !.text = t]]
          /\ UNCHANGED <<stored, token, submitted, begun>>
      <4>1. [s EXCEPT !.pc = "open"] = [s EXCEPT !.pc = "open", !.text = s.text]
        BY <2>1 DEF EditorType
      <4> QED
        BY <2>1, <2>2, <2>8, <4>1 DEF RestoreEnds
    <3> DEFINE e == [s EXCEPT !.pc = "open", !.text = t]
    <3>1. e \in EditorType /\ e.pc = "open" /\ e.original = s.original
          /\ e.expected = s.expected /\ e.since = s.since
      BY <2>1 DEF EditorType
    <3>2. editor' = [editor EXCEPT ![w] = e]
      OBVIOUS
    <3> HIDE DEF e
    <3>3. EditorDrawn(e, token) /\ SaveSeen(e, stored, submitted)
      BY <2>3, <3>1 DEF EditorDrawn, SaveSeen
    <3> QED
      BY <3>1, <3>2, <3>3, EditorStep
  <2>9. ASSUME NEW t \in Text, Edit(w, t) PROVE DraftInv'
    <3> DEFINE e == [s EXCEPT !.text = t]
    <3>1. e \in EditorType /\ e.pc = "open" /\ e.original = s.original
          /\ e.expected = s.expected /\ e.since = s.since
      BY <2>1, <2>9 DEF EditorType, Edit
    <3>2. editor' = [editor EXCEPT ![w] = e] /\ UNCHANGED <<stored, token, submitted, begun>>
      BY <2>1, <2>9 DEF Edit, EditorType
    <3> HIDE DEF e
    <3>3. EditorDrawn(e, token) /\ SaveSeen(e, stored, submitted)
      BY <2>3, <3>1 DEF EditorDrawn, SaveSeen
    <3> QED
      BY <3>1, <3>2, <3>3, EditorStep
  <2>10. CASE Save(w)
    <3> DEFINE e == [s EXCEPT !.pc = "saving", !.expected = s.original, !.since = token]
    <3>1. e \in EditorType /\ e.original = s.original
          /\ e.expected = s.original /\ e.since = token
      BY <2>1, <2>2 DEF EditorType
    <3>2. editor' = [editor EXCEPT ![w] = e] /\ UNCHANGED <<stored, token, submitted, begun>>
      BY <2>1, <2>10 DEF Save, EditorType
    <3> HIDE DEF e
    <3>3. EditorDrawn(e, token) /\ SaveSeen(e, stored, submitted)
      BY <2>1, <2>3, <3>1 DEF EditorDrawn, SaveSeen
    <3> QED
      BY <3>1, <3>2, <3>3, EditorStep
  <2>11. CASE SaveEnds(w) /\ editor' = [editor EXCEPT ![w].pc = "open"]
              /\ UNCHANGED <<stored, token, begun>>
    <3> DEFINE e == [s EXCEPT !.pc = "open"]
    <3>1. e \in EditorType /\ e.pc = "open" /\ e.original = s.original
          /\ e.expected = s.expected /\ e.since = s.since
      BY <2>1 DEF EditorType
    <3>2. editor' = [editor EXCEPT ![w] = e] /\ UNCHANGED <<stored, token, submitted, begun>>
      BY <2>1, <2>11 DEF SaveEnds, EditorType
    <3> HIDE DEF e
    <3>3. EditorDrawn(e, token) /\ SaveSeen(e, stored, submitted)
      BY <2>3, <3>1 DEF EditorDrawn, SaveSeen
    <3> QED
      BY <3>1, <3>2, <3>3, EditorStep
  <2>12. CASE SaveEnds(w) /\ Writable(w, s.expected) /\ token' = token + 1
              /\ stored' = [token |-> token', text |-> s.text, attempted |-> 0]
              /\ begun' = s.since
              /\ editor' = [editor EXCEPT ![w].pc = "open", ![w].original = stored']
    <3> DEFINE v == [token |-> token + 1, text |-> s.text, attempted |-> 0]
               e == [s EXCEPT !.pc = "open", !.original = v]
    <3>1. v \in Value /\ v.token = token + 1 /\ v.attempted = 0 /\ v.text = s.text
      BY <2>1, <2>2 DEF Value
    <3>2. token' = token + 1 /\ stored' = v /\ begun' = s.since /\ submitted' = submitted
          /\ editor' = [editor EXCEPT ![w] = e]
      BY <2>1, <2>12 DEF SaveEnds, EditorType
    <3> HIDE DEF v
    <3>3. e \in EditorType /\ e.pc = "open" /\ e.original = v /\ e.expected = s.expected
          /\ e.since = s.since
      BY <2>1, <3>1 DEF EditorType
    <3> HIDE DEF e
    <3>4. s.since <= token /\ s.expected.token <= token /\ s.expected.attempted <= token
          /\ s.expected.token \in Nat /\ s.expected.attempted \in Nat
      BY <2>2, <2>3 DEF EditorDrawn, DrawnBy, Value
    <3>5. DrawnBy(v, token + 1) /\ EditorDrawn(e, token + 1)
      BY <2>1, <2>2, <3>1, <3>3, <3>4 DEF DrawnBy, EditorDrawn
    <3>6. submitted[v.text] <= s.since
      BY <2>2, <2>3, <2>12, <3>1 DEF SaveSeen, SaveEnds, Writable
    <3>7. \A t \in Text : submitted[t] <= token + 1
      BY <2>1, <2>3
    <3> QED
      BY <2>1, <2>2, <3>1, <3>2, <3>3, <3>4, <3>5, <3>6, <3>7, DrawingStep
  <2>13. CASE Mark(w)
    <3> DEFINE n == token + 1
               v == Marked(stored, n)
               e == [s EXCEPT !.original = v]
               x == [submitted EXCEPT ![s.text] = n]
    <3>0. n \in Nat /\ 0 < n
      BY <2>1
    <3>1. v \in Value /\ v.attempted = n /\ v.token \in {stored.token, n}
      BY <2>1, <2>2, <3>0, TextAssumption DEF Value, Marked
    <3>2. token' = n /\ stored' = v /\ begun' = begun /\ submitted' = x
          /\ editor' = [editor EXCEPT ![w] = e]
      BY <2>1, <2>13 DEF Mark, EditorType
    <3> HIDE DEF v
    <3>3. e \in EditorType /\ e.pc = "open" /\ e.original = v /\ e.expected = s.expected
          /\ e.since = s.since
      BY <2>1, <2>13, <3>1 DEF EditorType, Mark
    <3> HIDE DEF e
    <3>4. s.since <= token /\ s.expected.token <= token /\ s.expected.attempted <= token
          /\ s.expected.token \in Nat /\ s.expected.attempted \in Nat /\ stored.token <= token
      BY <2>2, <2>3 DEF EditorDrawn, DrawnBy, Value
    <3>5. DrawnBy(v, token + 1) /\ EditorDrawn(e, token + 1)
      BY <2>1, <2>2, <3>1, <3>3, <3>4 DEF DrawnBy, EditorDrawn
    <3>6. x \in [Text -> Nat] /\ \A t \in Text : x[t] <= token + 1
      BY <2>1, <2>2, <2>3
    <3>7. ~Unsent(v)
      BY <3>0, <3>1 DEF Unsent
    <3>8. begun <= token
      BY DEF DraftInv
    <3> HIDE DEF x
    <3> QED
      BY <2>1, <3>1, <3>2, <3>3, <3>5, <3>6, <3>7, <3>8, DrawingStep
  <2>14. CASE Discard(w)
    <3> DEFINE e == [s EXCEPT !.original = Empty]
    <3>1. stored' = Empty /\ editor' = [editor EXCEPT ![w] = e] /\ token' = token
          /\ submitted' = NothingSubmitted /\ begun' = begun
      BY <2>1, <2>14 DEF Discard, EditorType
    <3>2. e \in EditorType /\ e.original = Empty /\ e.expected = s.expected /\ e.since = s.since
      BY <2>1, <2>4 DEF EditorType
    <3> HIDE DEF e
    <3>3. EditorDrawn(e, token)
      BY <2>3, <2>5, <3>2 DEF EditorDrawn
    <3>4. NothingSubmitted \in [Text -> Nat] /\ \A t \in Text : NothingSubmitted[t] = 0
      BY DEF NothingSubmitted
    <3>5. \A u \in Writer : editor'[u] = IF u = w THEN e ELSE editor[u]
      BY <2>1, <3>1
    <3>6. editor' \in [Writer -> EditorType]
      BY <2>1, <3>1, <3>2
    <3>7. \A u \in Writer : EditorDrawn(editor'[u], token)
      BY <3>3, <3>5 DEF DraftInv
    <3>8. ASSUME NEW u \in Writer PROVE SaveSeen(editor'[u], Empty, NothingSubmitted)
      <4>1. editor'[u].since \in Nat
        BY <3>6 DEF EditorType
      <4> QED
        BY <3>4, <4>1 DEF SaveSeen
    <3>9. SubmittedNotUnsent'
      BY <2>4, <3>1 DEF SubmittedNotUnsent, Unsent
    <3>10. begun <= token /\ \A t \in Text : NothingSubmitted[t] <= token
      BY <2>1, <3>4 DEF DraftInv
    <3> QED
      BY <2>1, <2>4, <2>5, <3>1, <3>4, <3>6, <3>7, <3>8, <3>9, <3>10 DEF DraftInv
  <2>15. CASE CloseEditor(w)
    <3>1. EditorDrawn(Shut, token) /\ SaveSeen(Shut, stored, submitted)
      BY <2>1, <2>4, <2>5 DEF EditorDrawn, SaveSeen
    <3> QED
      BY <2>4, <2>15, <3>1, EditorStep DEF CloseEditor
  <2>16. CASE SaveEnds(w)
    BY <2>11, <2>12, <2>16 DEF SaveEnds
  <2> QED
    BY <1>2, <2>6, <2>7, <2>8, <2>9, <2>10, <2>13, <2>14, <2>15, <2>16
<1> QED
  BY <1>1, <1>2 DEF DraftNext

\* However many windows save, restore and submit: unless the user deleted the
\* draft since, a text that was submitted is offered as unsent only by a save
\* begun after the submission.
THEOREM SubmittedStaysSubmitted == DraftSpec => []SubmittedNotUnsent
<1>1. DraftInv /\ [DraftNext]_draftVars => DraftInv'
  BY NextDraft
<1>2. DraftInv => SubmittedNotUnsent
  BY DEF DraftInv
<1> QED
  BY InitDraft, <1>1, <1>2, PTL DEF DraftSpec

-----------------------------------------------------------------------------
(* The inductive invariant of the conversation.                            *)

OperationOrNone == Operation \cup {NoOperation}
CommandOrNone == Command \cup {NoCommand}
PinType ==
  {<< >>} \cup (PermType \X Nat \X (SUBSET Device) \X [protected : BOOLEAN, revision : Nat])
ViewType ==
  [m : Message \cup {NoMessage}, current : BOOLEAN, version : Nat, settled : BOOLEAN,
   superseded : BOOLEAN]
WinType ==
  [ready : BOOLEAN, live : BOOLEAN, pc : Pc, op : OperationOrNone, fee : OperationOrNone,
   pin : PinType, version : Nat, cmd : CommandOrNone, view : ViewType,
   receipt : OperationOrNone, pending : CommandOrNone]
EntryType ==
  [status : {"none", "sent", "confirmed", "failed"}, cmd : CommandOrNone, version : Nat]
Forms ==
  /\ course \in Course
  /\ grant \in SUBSET Device
  /\ journal \in [Operation -> EntryType]
  /\ signed \in SUBSET Command
  /\ delivered \in [Command -> Nat]
  /\ win \in [Window -> WinType]

\* The run of a message was reserved with this command.
Reserves(c) == message_runs[MessageOf[c]] = c

\* A run is quoted, submitted and journalled with a command for its message.
Fits(s) ==
  /\ s.fee # NoOperation /\ s.fee.kind = "run"
       => s.cmd \in Command /\ MessageOf[s.cmd] = s.fee.m
  /\ s.pc \in {"submit", "await"}
       => /\ s.op \in Operation
          /\ s.op.kind = "run" => s.cmd \in Command /\ MessageOf[s.cmd] = s.op.m
  /\ s.pc \in {"prepare", "send", "marked"} => s.fee = NoOperation
  /\ s.pc = "prepare" => s.op \in Operation
CommandsFit ==
  /\ \A w \in Window : Fits(win[w])
  /\ \A o \in Operation :
       o.kind = "run" /\ journal[o].status # "none" => journal[o].cmd \in Command

\* A window holds a command from the signature to the delivery, and no other one
\* does.
Holds(s, c) == s.cmd = c \/ s.pending = c
HeldOnce ==
  \A w \in Window, c \in Command :
    Holds(win[w], c) => /\ c \in signed /\ delivered[c] = 0
                        /\ \A v \in Window : Holds(win[v], c) => v = w

\* What a window may deliver is what the run was reserved with.
MayDeliver(s) ==
  /\ s.cmd \in Command => s.cmd # s.pending
  /\ s.pending \in Command => Reserves(s.pending)
  /\ s.pc = "send" /\ s.live => s.pending \in Command
  /\ s.pc = "marked" /\ s.live => s.cmd \in Command /\ Reserves(s.cmd)
Deliveries ==
  /\ \A w \in Window : MayDeliver(win[w])
  /\ \A c \in Command : delivered[c] > 0 => delivered[c] = 1 /\ c \in signed /\ Reserves(c)

\* The message has no run, and its permission is not in force any more.
Past(m) == message_runs[m] = NoCommand /\ message[m].version \in 1 .. perm.version - 1
RunOver(m) == message_runs[m] # NoCommand /\ run[message_runs[m]].settled

\* What a window has read of a message that is over stays true.
ViewHolds(v) ==
  /\ v.settled => v.m \in Message /\ RunOver(v.m)
  /\ v.superseded => v.m \in Message /\ Past(v.m)
ViewsHold == \A w \in Window : ViewHolds(win[w].view)

\* A request that was broadcast, whose outcome the App has to ask about.
Waiting(o) == o \in Operation /\ Tracked(o) /\ journal[o].status = "sent"
Over(o) ==
  \/ o.kind = "run" /\ o.m \in Message /\ RunOver(o.m)
  \/ o.kind = "decision" /\ o.m \in Message /\ Past(o.m)
Safe(o) == o \in unresolved \/ Over(o)

\* Where the one window knows a request from, in each of its states.
Locates(s) ==
  /\ s.ready = s.live
  /\ \A o \in Operation : Waiting(o) =>
       /\ s.ready => Safe(o) \/ s.receipt = o \/ (s.pc = "await" /\ s.op = o)
       /\ ~s.ready => Safe(o) \/ locator = o
       /\ s.ready /\ s.pc = "prepare" => Safe(o)
       /\ s.ready /\ s.receipt = o => Safe(o) \/ locator = o
  /\ s.ready /\ s.fee # NoOperation => locator = s.fee /\ s.receipt = NoOperation
  /\ s.ready /\ s.pc \in {"submit", "await"} => s.fee # NoOperation /\ s.op = s.fee
  /\ s.ready /\ s.pc \in {"send", "marked"} => s.receipt = NoOperation
Located ==
  /\ \A o \in Operation : Waiting(o) => course.windows # {}
  /\ OneWindow => \A w \in course.windows : Locates(win[w])

ConversationInv ==
  PermissionInv /\ Forms /\ CommandsFit /\ HeldOnce /\ Deliveries /\ ViewsHold /\ Located

-----------------------------------------------------------------------------
(* What a transaction leaves for good.                                     *)

\* A message keeps its run and its version, a settled run stays settled, and only
\* a message of the version in force gets a run.
ForGood ==
  /\ perm'.version \in Nat /\ perm'.version >= perm.version
  /\ \A m \in Message :
       /\ message[m].version > 0 => message'[m].version = message[m].version
       /\ message_runs[m] # NoCommand => message_runs'[m] = message_runs[m]
       /\ message_runs[m] = NoCommand /\ message[m].version # perm.version
            => message_runs'[m] = NoCommand
  /\ \A c \in Command : run[c].settled => run'[c].settled

\* Steps of the permission, the approvals, the capabilities and the environment.
LEMMA QuietStep ==
  ASSUME PermissionInv, UNCHANGED <<message, message_runs, run>>,
         perm'.version \in Nat, perm'.version >= perm.version
  PROVE  ForGood
  BY DEF ForGood

\* Steps of the runs that exist.
LEMMA RunningStep ==
  ASSUME PermissionInv, UNCHANGED <<message, message_runs>>,
         perm'.version = perm.version, NEW c \in Command,
         \A d \in Command \ {c} : run'[d] = run[d], run[c].settled => run'[c].settled
  PROVE  ForGood
<1>1. perm.version \in Nat
  BY DEF PermissionInv, Shape, PermType
<1>2. \A d \in Command : run[d].settled => run'[d].settled
  OBVIOUS
<1> QED
  BY <1>1, <1>2 DEF ForGood

LEMMA ReservingStep ==
  ASSUME PermissionInv, NEW c \in Command, NEW a \in BOOLEAN, Reserved(c, a),
         MayReserve(c, a), MessageCurrent(MessageOf[c]), UNCHANGED message
  PROVE  ForGood
<1> DEFINE m == MessageOf[c]
<1>1. /\ perm \in PermType /\ message_runs \in [Message -> Command \cup {NoCommand}]
      /\ run \in [Command -> RunType] /\ m \in Message /\ perm.version \in Nat
  BY RequestAssumption DEF PermissionInv, Shape, PermType
<1>2. perm'.version = perm.version
  BY <1>1, SameVersion
<1>3. message_runs[m] = NoCommand /\ message[m].version = perm.version
  BY DEF MayReserve, MessageCurrent
<1>4. \A j \in Message : message_runs'[j] = IF j = m THEN c ELSE message_runs[j]
  BY <1>1 DEF Reserved
<1>5. run[c].state = "none" /\ ~run[c].settled
  BY DEF MayReserve, PermissionInv, RunsMade
<1>6. \A d \in Command \ {c} : run'[d] = run[d]
  BY <1>1 DEF Reserved
<1> QED
  BY <1>1, <1>2, <1>3, <1>4, <1>5, <1>6 DEF ForGood

LEMMA ChainForGood ==
  ASSUME PermissionInv, [Next]_vars
  PROVE  ForGood
<1>1. /\ perm \in PermType /\ message \in [Message -> MessageType]
      /\ run \in [Command -> RunType]
  BY DEF PermissionInv, Shape
<1>2. perm.version \in Nat /\ perm.version >= perm.version
  BY <1>1 DEF PermType
<1>3. ASSUME NEW d \in Device, NEW p \in Policy, UpdatePermission(d, perm.version, p)
      PROVE  ForGood
  <2>1. perm'.version = perm.version + 1
    BY <1>1, <1>3 DEF UpdatePermission, Granted, PermType
  <2>2. UNCHANGED <<message, message_runs, run>>
    BY <1>3 DEF UpdatePermission
  <2> QED
    BY <1>2, <2>1, <2>2, QuietStep
<1>4. ASSUME NEW d \in Device, RevokePermission(d, perm.version) PROVE ForGood
  <2>1. perm'.version = perm.version + 1
    BY <1>1, <1>4 DEF RevokePermission, PermType
  <2>2. UNCHANGED <<message, message_runs, run>>
    BY <1>4 DEF RevokePermission
  <2> QED
    BY <1>2, <2>1, <2>2, QuietStep
<1>5. ASSUME NEW d \in Device, NEW m \in Message, CreateMessage(m, d, perm.version)
      PROVE  ForGood
  <2>1. message[m].version = 0 /\ UNCHANGED <<perm, message_runs, run>>
    BY <1>5 DEF CreateMessage
  <2>2. \A j \in Message \ {m} : message'[j] = message[j]
    BY <1>1, <1>5 DEF CreateMessage
  <2> QED
    BY <1>2, <2>1, <2>2 DEF ForGood
<1>6. ASSUME NEW d \in Device, NEW m \in Message,
             RequestApproval(m, d) \/ \E approve \in BOOLEAN : DecideApproval(m, d, approve)
      PROVE  ForGood
  <2>1. UNCHANGED <<perm, message, message_runs, run>>
    BY <1>6 DEF RequestApproval, DecideApproval
  <2> QED
    BY <1>2, <2>1, QuietStep
<1>7. ASSUME NEW d \in Device, NEW k \in Cap,
             \/ IssueCapability(k, d, perm.version, 10000)
             \/ \E j \in Message : IssueApprovedCapability(k, d, j)
      PROVE  ForGood
  <2>1. CASE IssueCapability(k, d, perm.version, 10000)
    <3>1. UNCHANGED <<perm, message, message_runs, run>>
      BY ONLY <2>1 DEF IssueCapability
    <3> QED
      BY <1>2, <3>1, QuietStep
  <2>2. ASSUME NEW j \in Message, IssueApprovedCapability(k, d, j) PROVE ForGood
    <3>1. UNCHANGED <<perm, message, message_runs, run>>
      BY ONLY <2>2 DEF IssueApprovedCapability
    <3> QED
      BY <1>2, <3>1, QuietStep
  <2> QED
    BY <1>7, <2>1, <2>2
<1>8. ASSUME NEW c \in Command, PrepareMessage(c) PROVE ForGood
  BY <1>8, ReservingStep DEF PrepareMessage
<1>9. ASSUME NEW c \in Command, PrepareApprovedMessage(c) PROVE ForGood
  BY <1>9, ReservingStep DEF PrepareApprovedMessage
<1>10. ASSUME NEW c \in Command, BeginMessage(c) PROVE ForGood
  <2>1. run' = [run EXCEPT ![c].state = "running"]
        /\ UNCHANGED <<perm, message, message_runs>>
    BY <1>10 DEF BeginMessage
  <2>2. run'[c].settled = run[c].settled /\ \A d \in Command \ {c} : run'[d] = run[d]
    <3>1. run[c] \in RunType
      BY <1>1
    <3> QED
      BY <1>1, <2>1, <3>1 DEF RunType
  <2> QED
    BY <2>1, <2>2, RunningStep
<1>11. ASSUME NEW c \in Command, NEW outcome \in Final, NEW spent \in 0 .. run[c].reserved,
              FinishMessage(c, outcome, spent)
       PROVE  ForGood
  <2>1. /\ UNCHANGED <<message, message_runs>>
        /\ perm' = perm \/ perm' = Settled(c, spent)
        /\ \/ run' = [run EXCEPT ![c].state = outcome]
           \/ run' = [run EXCEPT ![c].state = outcome, ![c].settled = TRUE, ![c].spent = spent]
    BY <1>11 DEF FinishMessage
  <2>2. run[c].settled => run'[c].settled
    <3>1. run[c] \in RunType
      BY <1>1
    <3> QED
      BY <1>1, <2>1, <3>1 DEF RunType
  <2>3. \A d \in Command \ {c} : run'[d] = run[d]
    BY <1>1, <2>1
  <2>4. spent \in Nat
    OBVIOUS
  <2>5. perm'.version = perm.version
    BY <1>1, <2>1, <2>4, SameVersion
  <2> QED
    BY <2>1, <2>2, <2>3, <2>5, RunningStep
<1>12. ASSUME NEW c \in Command, NEW d \in Device, RequestStop(c, d) PROVE ForGood
  <2>1. /\ UNCHANGED <<message, message_runs>>
        /\ perm' = perm \/ perm' = Settled(c, 0)
        /\ \/ run' = [run EXCEPT ![c].stop = TRUE]
           \/ run' = [run EXCEPT ![c].state = "cancelled", ![c].stop = TRUE, ![c].settled = TRUE]
    BY <1>12 DEF RequestStop
  <2>2. run[c].settled => run'[c].settled
    <3>1. run[c] \in RunType
      BY <1>1
    <3> QED
      BY <1>1, <2>1, <3>1 DEF RunType
  <2>3. \A e \in Command \ {c} : run'[e] = run[e]
    BY <1>1, <2>1
  <2>4. perm'.version = perm.version
    BY <1>1, <2>1, SameVersion
  <2> QED
    BY <2>1, <2>2, <2>3, <2>4, RunningStep
<1>13. ASSUME Environment PROVE ForGood
  <2>1. CASE ChangeWorkspace \/ ChangeSource \/ \E d \in Device : RevokeGrant(d)
    <3>1. UNCHANGED <<perm, message, message_runs, run>>
      BY <2>1 DEF ChangeWorkspace, ChangeSource, RevokeGrant
    <3> QED
      BY <1>2, <3>1, QuietStep
  <2>2. CASE ExpirePermission
    <3>1. perm'.version = perm.version /\ UNCHANGED <<message, message_runs, run>>
      BY <1>1, <2>2 DEF ExpirePermission, PermType
    <3> QED
      BY <1>2, <3>1, QuietStep
  <2>3. ASSUME NEW k \in Message, ExpireMessage(k) PROVE ForGood
    <3>1. \A j \in Message : message[j] \in MessageType
      BY <1>1
    <3>2. \A j \in Message : message'[j].version = message[j].version
      BY <1>1, <2>3, <3>1 DEF ExpireMessage, MessageType
    <3>3. UNCHANGED <<perm, message_runs, run>>
      BY <2>3 DEF ExpireMessage
    <3> QED
      BY <1>2, <3>2, <3>3 DEF ForGood
  <2> QED
    BY <1>13, <2>1, <2>2, <2>3 DEF Environment
<1>14. ASSUME UNCHANGED vars PROVE ForGood
  <2>1. UNCHANGED <<perm, message, message_runs, run>>
    BY <1>14 DEF vars
  <2> QED
    BY <1>2, <2>1, QuietStep
<1> QED
  BY <1>3, <1>4, <1>5, <1>6, <1>7, <1>8, <1>9, <1>10, <1>11, <1>12, <1>13, <1>14 DEF Next

\* What is over stays over, and a reserved command stays the one reserved.
LEMMA OverForGood ==
  ASSUME PermissionInv, PermissionInv', ForGood
  PROVE  /\ \A c \in Command : Reserves(c) => Reserves(c)'
         /\ \A m \in Message : RunOver(m) => RunOver(m)'
         /\ \A m \in Message : Past(m) => Past(m)'
<1>1. /\ perm.version \in Nat /\ message_runs \in [Message -> Command \cup {NoCommand}]
      /\ message \in [Message -> MessageType]
  BY DEF PermissionInv, Shape, PermType
<1>2. \A c \in Command : Reserves(c) => Reserves(c)'
  BY RequestAssumption, NameAssumption DEF Reserves, ForGood
<1>3. \A m \in Message : RunOver(m) => RunOver(m)'
  BY <1>1 DEF RunOver, ForGood
<1>4. ASSUME NEW m \in Message, Past(m) PROVE Past(m)'
  <2>1. message[m].version \in Nat /\ message[m].version > 0
        /\ message[m].version < perm.version /\ message_runs[m] = NoCommand
    BY <1>1, <1>4 DEF Past, MessageType
  <2>2. message'[m].version = message[m].version /\ message_runs'[m] = NoCommand
        /\ perm'.version \in Nat /\ perm'.version >= perm.version
    BY <2>1, <1>1 DEF ForGood
  <2> QED
    BY <1>1, <2>1, <2>2 DEF Past
<1> QED
  BY <1>2, <1>3, <1>4

-----------------------------------------------------------------------------
(* The first state, and the steps on the chain.                            *)

LEMMA Courses ==
  ASSUME NEW c \in Course
  PROVE  /\ c.windows \in SUBSET Window /\ c.operations \in SUBSET Operation
         /\ c.policy \in Policy /\ c.asked \in SUBSET Message /\ c.written \in SUBSET Message
  BY CourseAssumption

LEMMA ClosedWindow ==
  /\ Closed \in WinType
  /\ Closed.ready = FALSE /\ Closed.live = FALSE /\ Closed.pc = "idle" /\ Closed.op = NoOperation
  /\ Closed.fee = NoOperation /\ Closed.cmd = NoCommand /\ Closed.pending = NoCommand
  /\ Closed.receipt = NoOperation /\ Closed.view = NoView
<1>1. NoView \in ViewType /\ << >> \in PinType /\ "idle" \in Pc
      /\ NoOperation \in OperationOrNone /\ NoCommand \in CommandOrNone
  BY DEF NoView, ViewType, PinType, Pc, OperationOrNone, CommandOrNone
<1> HIDE DEF NoView
<1> QED
  BY <1>1 DEF Closed, WinType

LEMMA ConversationStartsInv == ConversationInit => ConversationInv
<1> SUFFICES ASSUME ConversationInit PROVE ConversationInv
  OBVIOUS
<1>1. /\ course \in Course /\ course.policy \in Policy
      /\ course.policy.kinds \in SUBSET Kind /\ course.policy.max_calls \in Nat
      /\ course.policy.budget_limit \in Nat
  <2>1. course \in Course
    BY DEF ConversationInit
  <2>2. course.policy \in Policy
    BY <2>1, Courses
  <2> QED
    BY <2>1, <2>2, PolicyAssumption
<1>2. Shape
  <2>1. "none" \in RunState /\ "none" \in ApprovalState /\ "requested" \in ApprovalState
    BY DEF RunState, ApprovalState
  <2>2. perm \in PermType
    BY <1>1 DEF ConversationInit, PermType
  <2>3. message \in [Message -> MessageType]
    <3>1. message \in [Message -> [version : {0, 1}, writer : Device \cup {NoDevice},
                                   expired : {FALSE}]]
      BY DEF ConversationInit
    <3>2. ASSUME NEW x \in [version : {0, 1}, writer : Device \cup {NoDevice}, expired : {FALSE}]
          PROVE  x \in MessageType
      <4>1. x = [version |-> x.version, writer |-> x.writer, expired |-> x.expired]
            /\ x.version \in {0, 1} /\ x.writer \in Device \cup {NoDevice} /\ x.expired \in {FALSE}
        OBVIOUS
      <4>2. x.version \in Nat
        BY <4>1
      <4>3. x.expired \in BOOLEAN
        BY <4>1, Zenon
      <4> QED
        BY <4>1, <4>2, <4>3 DEF MessageType
    <3> QED
      BY <3>1, <3>2
  <2>4. approval \in [Message -> ApprovalType]
    <3>1. NoApproval \in ApprovalType
      BY <2>1 DEF NoApproval, ApprovalType
    <3>2. [NoApproval EXCEPT !.state = "requested", !.version = 1] \in ApprovalType
      BY <2>1, <3>1 DEF ApprovalType
    <3> QED
      BY <3>1, <3>2 DEF ConversationInit
  <2>5. run \in [Command -> RunType]
    BY <2>1 DEF ConversationInit, NoRun, RunType
  <2> QED
    BY <2>2, <2>3, <2>4, <2>5 DEF ConversationInit, Shape
<1>3. \A c \in Command : run[c].state = "none" /\ ~run[c].settled /\ run[c].spent = 0
  BY DEF ConversationInit, NoRun
<1>4. RunsMade
  BY <1>3 DEF RunsMade
<1>5. OneRunPerMessage
  <2>1. \A m \in Message : message_runs[m] = NoCommand
    BY DEF ConversationInit
  <2>2. \A m \in Message : approval[m].state # "consumed"
    <3>1. NoApproval.state # "consumed"
          /\ [NoApproval EXCEPT !.state = "requested", !.version = 1].state # "consumed"
      BY DEF NoApproval
    <3> QED
      BY <3>1 DEF ConversationInit
  <2> QED
    BY <1>3, <2>1, <2>2, NameAssumption DEF OneRunPerMessage
<1>6. StandingWithinLimit
  BY <1>1 DEF StandingWithinLimit, ConversationInit
<1>7. Accounts
  <2>1. \A a \in BOOLEAN : Owed(a) = {} /\ Paid(a) = {}
    BY <1>3 DEF Owed, Paid, Blocks, Unsettled, SettledRuns
  <2> QED
    BY <2>1, FS_EmptySet DEF Accounts, ConversationInit, Amounts, Spent
<1>8. PermissionInv
  BY <1>2, <1>4, <1>5, <1>6, <1>7 DEF PermissionInv
<1>9. \A w \in Window : win[w] = Closed
  BY DEF ConversationInit
<1>10. \A o \in Operation : journal[o] = NoEntry /\ NoEntry.status = "none"
                             /\ NoEntry \in EntryType
  BY DEF ConversationInit, NoEntry, EntryType, CommandOrNone
<1>11. Forms
  <2>1. win \in [Window -> WinType]
    BY ClosedWindow DEF ConversationInit
  <2>2. journal \in [Operation -> EntryType]
    BY <1>10 DEF ConversationInit
  <2> QED
    BY <2>1, <2>2 DEF Forms, ConversationInit
<1>12. CommandsFit
  BY <1>9, <1>10, ClosedWindow DEF CommandsFit, Fits
<1>13. HeldOnce
  BY <1>9, ClosedWindow, NameAssumption DEF HeldOnce, Holds
<1>14. Deliveries
  <2>1. \A w \in Window : MayDeliver(win[w])
    BY <1>9, ClosedWindow, NameAssumption DEF MayDeliver
  <2> QED
    BY <2>1 DEF Deliveries, ConversationInit
<1>15. ViewsHold
  BY <1>9, ClosedWindow DEF ViewsHold, ViewHolds, NoView
<1>16. Located
  <2>1. \A o \in Operation : ~Waiting(o)
    BY <1>10 DEF Waiting
  <2>2. \A w \in course.windows : w \in Window
    BY <1>1, Courses
  <2>3. \A w \in Window : Locates(win[w])
    BY <1>9, <2>1, ClosedWindow DEF Locates
  <2> QED
    BY <2>1, <2>2, <2>3 DEF Located
<1> QED
  BY <1>8, <1>11, <1>12, <1>13, <1>14, <1>15, <1>16 DEF ConversationInv

\* What the transaction of a request does, the contract allows.
LEMMA EffectIsNext ==
  ASSUME ConversationInv, NEW o \in Operation, journal[o].status = "sent", Effect(o)
  PROVE  Next
<1>1. PICK d \in Device :
       \/ o.kind = "permission" /\ UpdatePermission(d, o.version, o.policy)
       \/ o.kind = "revoke" /\ RevokePermission(d, o.version)
       \/ o.kind = "message" /\ CreateMessage(o.m, d, journal[o].version)
       \/ o.kind = "approval" /\ RequestApproval(o.m, d)
       \/ o.kind = "decision" /\ DecideApproval(o.m, d, o.approve)
       \/ /\ o.kind = "capability"
          /\ \E k \in Cap : IF approval[o.m].state = "none"
                            THEN IssueCapability(k, d, journal[o].version, 10000)
                            ELSE IssueApprovedCapability(k, d, o.m)
       \/ /\ o.kind = "run"
          /\ IF cap[CapOf[journal[o].cmd]].approval = NoMessage
             THEN PrepareMessage(journal[o].cmd)
             ELSE PrepareApprovedMessage(journal[o].cmd)
       \/ o.kind = "stop" /\ message_runs[o.m] # NoCommand /\ RequestStop(message_runs[o.m], d)
  BY DEF Effect
<1>2. CASE o.kind = "permission"
  <2>1. o.policy \in Policy /\ UpdatePermission(d, o.version, o.policy)
    BY <1>1, <1>2, OperationAssumption
  <2>2. o.version = perm.version
    BY <2>1 DEF UpdatePermission
  <2> QED
    BY <2>1, <2>2 DEF Next
<1>3. CASE o.kind = "revoke"
  <2>1. RevokePermission(d, o.version)
    BY <1>1, <1>3
  <2>2. o.version = perm.version
    BY <2>1 DEF RevokePermission
  <2> QED
    BY <2>1, <2>2 DEF Next
<1>4. CASE o.kind = "message"
  <2>1. o.m \in Message /\ CreateMessage(o.m, d, journal[o].version)
    BY <1>1, <1>4, OperationAssumption
  <2>2. journal[o].version = perm.version
    BY <2>1 DEF CreateMessage
  <2> QED
    BY <2>1, <2>2 DEF Next
<1>5. CASE o.kind = "approval"
  <2>1. o.m \in Message /\ RequestApproval(o.m, d)
    BY <1>1, <1>5, OperationAssumption
  <2> QED
    BY <2>1 DEF Next
<1>6. CASE o.kind = "decision"
  <2>1. o.m \in Message /\ o.approve \in BOOLEAN /\ DecideApproval(o.m, d, o.approve)
    BY <1>1, <1>6, OperationAssumption
  <2> QED
    BY <2>1 DEF Next
<1>7. CASE o.kind = "capability"
  <2>1. PICK k \in Cap : \/ IssueCapability(k, d, journal[o].version, 10000)
                         \/ IssueApprovedCapability(k, d, o.m)
    BY <1>1, <1>7
  <2>2. o.m \in Message
    BY <1>7, OperationAssumption
  <2>3. CASE IssueApprovedCapability(k, d, o.m)
    BY <2>2, <2>3 DEF Next
  <2>4. CASE IssueCapability(k, d, journal[o].version, 10000)
    <3>1. journal[o].version = perm.version
      BY <2>4 DEF IssueCapability
    <3> QED
      BY <2>4, <3>1 DEF Next
  <2> QED
    BY <2>1, <2>3, <2>4
<1>8. CASE o.kind = "run"
  <2>1. journal[o].cmd \in Command
    BY <1>8 DEF ConversationInv, CommandsFit
  <2>2. PrepareMessage(journal[o].cmd) \/ PrepareApprovedMessage(journal[o].cmd)
    BY <1>1, <1>8
  <2> QED
    BY <2>1, <2>2 DEF Next
<1>9. CASE o.kind = "stop"
  <2>1. o.m \in Message /\ message_runs[o.m] # NoCommand /\ RequestStop(message_runs[o.m], d)
    BY <1>1, <1>9, OperationAssumption
  <2>2. message_runs[o.m] \in Command
    BY <2>1 DEF ConversationInv, PermissionInv, Shape
  <2> QED
    BY <2>1, <2>2 DEF Next
<1> QED
  BY <1>1, <1>2, <1>3, <1>4, <1>5, <1>6, <1>7, <1>8, <1>9

LEMMA HostIsNext ==
  ASSUME ConversationInv, HostRuns
  PROVE  Next
<1>1. PICK c \in Command : BeginMessage(c) \/ FinishMessage(c, "succeeded", run[c].reserved)
  BY DEF HostRuns
<1>2. run[c].reserved \in 0 .. run[c].reserved /\ "succeeded" \in Final
  BY DEF ConversationInv, PermissionInv, Shape, RunType, Final
<1> QED
  BY <1>1, <1>2 DEF Next

\* Grants are only revoked.
LEMMA GrantsShrink ==
  ASSUME [Next]_vars
  PROVE  grant' \subseteq grant
<1>1. ASSUME NEW d \in Device, NEW p \in Policy, UpdatePermission(d, perm.version, p)
      PROVE  grant' = grant
  BY <1>1 DEF UpdatePermission
<1>2. ASSUME NEW d \in Device, RevokePermission(d, perm.version) PROVE grant' = grant
  BY <1>2 DEF RevokePermission
<1>3. ASSUME NEW d \in Device, NEW m \in Message,
             \/ CreateMessage(m, d, perm.version) \/ RequestApproval(m, d)
             \/ \E approve \in BOOLEAN : DecideApproval(m, d, approve)
      PROVE  grant' = grant
  BY <1>3 DEF CreateMessage, RequestApproval, DecideApproval
<1>4. ASSUME NEW d \in Device, NEW k \in Cap,
             \/ IssueCapability(k, d, perm.version, 10000)
             \/ \E m \in Message : IssueApprovedCapability(k, d, m)
      PROVE  grant' = grant
  <2>1. CASE IssueCapability(k, d, perm.version, 10000)
    BY ONLY <2>1 DEF IssueCapability
  <2>2. ASSUME NEW m \in Message, IssueApprovedCapability(k, d, m) PROVE grant' = grant
    BY ONLY <2>2 DEF IssueApprovedCapability
  <2> QED
    BY <1>4, <2>1, <2>2
<1>5. ASSUME NEW c \in Command,
             \/ PrepareMessage(c) \/ PrepareApprovedMessage(c) \/ BeginMessage(c)
             \/ \E outcome \in Final, spent \in 0 .. run[c].reserved :
                  FinishMessage(c, outcome, spent)
             \/ \E d \in Device : RequestStop(c, d)
      PROVE  grant' = grant
  BY <1>5 DEF PrepareMessage, PrepareApprovedMessage, BeginMessage, FinishMessage, RequestStop
<1>6. CASE Environment
  BY <1>6 DEF Environment, ChangeWorkspace, ChangeSource, ExpirePermission, RevokeGrant,
              ExpireMessage
<1>7. CASE UNCHANGED vars
  BY <1>7 DEF vars
<1> QED
  BY <1>1, <1>2, <1>3, <1>4, <1>5, <1>6, <1>7 DEF Next

\* A step of the chain on which the windows learn nothing.
LEMMA ChainStepInv ==
  ASSUME ConversationInv, [Next]_vars,
         UNCHANGED <<unresolved, locator, signed, delivered, win, course>>,
         journal' \in [Operation -> EntryType],
         \A o \in Operation :
           /\ journal'[o].cmd = journal[o].cmd
           /\ journal'[o].status # "none" => journal[o].status # "none"
           /\ journal'[o].status = "sent" => journal[o].status = "sent"
  PROVE  ConversationInv'
<1>1. PermissionInv /\ PermissionInv' /\ ForGood
  BY NextInv, ChainForGood DEF ConversationInv
<1>2. Forms'
  BY GrantsShrink DEF ConversationInv, Forms
<1>3. CommandsFit'
  BY DEF ConversationInv, CommandsFit, Fits
<1>4. HeldOnce'
  BY DEF ConversationInv, HeldOnce, Holds
<1>5. Deliveries'
  <2>1. \A w \in Window : MayDeliver(win[w]) => MayDeliver(win[w])'
    BY <1>1, OverForGood DEF MayDeliver
  <2>2. \A c \in Command : Reserves(c) => Reserves(c)'
    BY <1>1, OverForGood
  <2> QED
    BY <2>1, <2>2 DEF ConversationInv, Deliveries
<1>6. ViewsHold'
  BY <1>1, OverForGood DEF ConversationInv, ViewsHold, ViewHolds
<1>7. Located'
  <2>1. \A o \in Operation : Waiting(o)' => Waiting(o)
    BY DEF Waiting
  <2>2. \A o \in Operation : Safe(o) => Safe(o)'
    BY <1>1, OverForGood DEF Safe, Over
  <2>3. course \in Course
    BY DEF ConversationInv, Forms
  <2>4. \A w \in course.windows : Locates(win[w]) => Locates(win[w])'
    BY <2>1, <2>2 DEF Locates
  <2> QED
    BY <2>1, <2>4 DEF ConversationInv, Located, OneWindow
<1> QED
  BY <1>1, <1>2, <1>3, <1>4, <1>5, <1>6, <1>7 DEF ConversationInv

LEMMA LandInv ==
  ASSUME ConversationInv, UNCHANGED course, NEW o \in Operation, Land(o) \/ Abort(o)
  PROVE  ConversationInv'
<1>1. [Next]_vars /\ UNCHANGED <<unresolved, locator, signed, delivered, win, course>>
  BY EffectIsNext DEF Land, Abort, chainVars
<1>2. PICK x \in {"confirmed", "failed"} : journal' = [journal EXCEPT ![o].status = x]
  BY DEF Land, Abort
<1>3. journal \in [Operation -> EntryType] /\ journal[o].status = "sent"
  BY DEF ConversationInv, Forms, Land, Abort
<1>4. \A p \in Operation : journal[p] \in EntryType
  BY <1>3
<1>5. journal' \in [Operation -> EntryType]
  BY <1>2, <1>3, <1>4 DEF EntryType
<1>6. \A p \in Operation :
        /\ journal'[p].cmd = journal[p].cmd
        /\ journal'[p].status # "none" => journal[p].status # "none"
        /\ journal'[p].status = "sent" => journal[p].status = "sent"
  BY <1>2, <1>3, <1>4 DEF EntryType
<1> QED
  BY <1>1, <1>5, <1>6, ChainStepInv

LEMMA HostInv ==
  ASSUME ConversationInv, UNCHANGED course, HostRuns
  PROVE  ConversationInv'
<1>1. Next /\ UNCHANGED <<journal, unresolved, locator, signed, delivered, win, course>>
  BY HostIsNext DEF HostRuns, convVars
<1>2. journal' \in [Operation -> EntryType]
  BY <1>1 DEF ConversationInv, Forms
<1> QED
  BY <1>1, <1>2, ChainStepInv

-----------------------------------------------------------------------------
(* The steps of a window.                                                  *)

\* Windows that are used one at a time are one window.
LEMMA OnlyWindow ==
  ASSUME Forms, OneWindow, NEW w \in course.windows
  PROVE  \A v \in course.windows : v = w
<1>1. IsFiniteSet(course.windows)
  BY Courses, WindowAssumption, FS_Subset DEF Forms
<1>2. IsFiniteSet(course.windows \ {w})
      /\ Cardinality(course.windows \ {w}) = Cardinality(course.windows) - 1
  BY <1>1, FS_RemoveElement
<1>3. Cardinality(course.windows) \in Nat /\ Cardinality(course.windows \ {w}) \in Nat
  BY <1>1, <1>2, FS_CardinalityType
<1>4. Cardinality(course.windows \ {w}) = 0
  BY <1>2, <1>3 DEF OneWindow
<1>5. course.windows \ {w} = {}
  BY <1>2, <1>4, FS_EmptySet
<1> QED
  BY <1>5

\* What is left to show of a step of a window: what its new state holds.
LEMMA WindowStepInv ==
  ASSUME ConversationInv, UNCHANGED <<vars, course>>, NEW w \in course.windows,
         NEW n \in WinType, win' = [win EXCEPT ![w] = n],
         journal' \in [Operation -> EntryType],
         \A o \in Operation :
           o.kind = "run" /\ journal'[o].status # "none" => journal'[o].cmd \in Command,
         signed \subseteq signed', signed' \subseteq Command,
         delivered' \in [Command -> Nat],
         \A c \in Command :
           \/ delivered'[c] = delivered[c]
           \/ /\ delivered'[c] = 1 /\ c \in signed /\ Reserves(c)
              /\ Holds(win[w], c) /\ ~Holds(n, c),
         \A c \in Command : Holds(n, c) => Holds(win[w], c) \/ c \in signed' \ signed,
         Fits(n), MayDeliver(n), ViewHolds(n.view),
         OneWindow => Locates(n)'
  PROVE  ConversationInv'
<1>1. w \in Window /\ win \in [Window -> WinType] /\ course \in Course
  BY Courses DEF ConversationInv, Forms
<1>2. \A v \in Window : win'[v] = IF v = w THEN n ELSE win[v]
  BY <1>1
<1>3. UNCHANGED <<perm, message, approval, message_runs, run, cap, workspace, source, grant>>
  BY DEF vars
<1>4. PermissionInv'
  BY NextInv DEF ConversationInv
<1>5. Forms'
  <2>1. win' \in [Window -> WinType]
    BY <1>1
  <2>2. course' \in Course /\ grant' \in SUBSET Device
    BY <1>3 DEF ConversationInv, Forms
  <2> QED
    BY <2>1, <2>2 DEF Forms
<1>6. CommandsFit'
  <2>1. \A v \in Window : Fits(win'[v])
    BY <1>2 DEF ConversationInv, CommandsFit
  <2>2. \A v \in Window : Fits(win[v])'
    BY <2>1 DEF Fits
  <2> QED
    BY <2>2 DEF CommandsFit
<1>7. HeldOnce'
  <2> SUFFICES ASSUME NEW v \in Window, NEW c \in Command, Holds(win'[v], c)
               PROVE  /\ c \in signed' /\ delivered'[c] = 0
                      /\ \A u \in Window : Holds(win'[u], c) => u = v
    BY DEF HeldOnce, Holds
  <2>1. \A u \in Window : Holds(win[u], c) =>
          /\ c \in signed /\ delivered[c] = 0
          /\ \A z \in Window : Holds(win[z], c) => z = u
    BY DEF ConversationInv, HeldOnce
  <2>2. c \notin signed => delivered[c] = 0
    BY DEF ConversationInv, Forms, Deliveries
  <2>3. CASE v = w
    <3>1. Holds(n, c)
      BY <1>2, <2>3
    <3>2. delivered'[c] = delivered[c]
      BY <3>1
    <3>3. CASE Holds(win[w], c)
      BY <1>1, <1>2, <2>1, <2>3, <3>2, <3>3
    <3>4. CASE c \in signed' \ signed
      BY <1>2, <2>1, <2>2, <2>3, <3>2, <3>4
    <3> QED
      BY <3>1, <3>3, <3>4
  <2>4. CASE v # w
    <3>1. Holds(win[v], c)
      BY <1>2, <2>4
    <3>2. ~Holds(win[w], c) /\ c \in signed
      BY <1>1, <2>1, <2>4, <3>1
    <3>3. ~Holds(n, c) /\ delivered'[c] = delivered[c]
      BY <3>2
    <3> QED
      BY <1>2, <2>1, <3>1, <3>2, <3>3
  <2> QED
    BY <2>3, <2>4
<1>8. Deliveries'
  <2>1. \A v \in Window : MayDeliver(win'[v])
    BY <1>2 DEF ConversationInv, Deliveries
  <2>2. \A v \in Window : MayDeliver(win[v])'
    BY <1>3, <2>1 DEF MayDeliver, Reserves
  <2>3. \A c \in Command : delivered[c] > 0 => delivered[c] = 1 /\ c \in signed /\ Reserves(c)
    BY DEF ConversationInv, Deliveries
  <2>4. \A c \in Command : Reserves(c) => Reserves(c)'
    BY <1>3 DEF Reserves
  <2> QED
    BY <2>2, <2>3, <2>4 DEF Deliveries
<1>9. ViewsHold'
  <2>1. \A v \in Window : ViewHolds(win'[v].view)
    BY <1>2 DEF ConversationInv, ViewsHold
  <2>2. \A v \in Window : ViewHolds(win[v].view)'
    BY <1>3, <2>1 DEF ViewHolds, RunOver, Past
  <2> QED
    BY <2>2 DEF ViewsHold
<1>10. Located'
  <2>1. course' = course /\ course.windows # {}
    OBVIOUS
  <2>2. ASSUME OneWindow, NEW v \in course.windows PROVE Locates(win[v])'
    <3>1. v = w /\ win'[v] = n
      BY <1>1, <1>2, <2>2, OnlyWindow DEF ConversationInv
    <3> QED
      BY <2>2, <3>1 DEF Locates
  <2> QED
    BY <2>1, <2>2 DEF Located, OneWindow
<1> QED
  BY <1>4, <1>5, <1>6, <1>7, <1>8, <1>9, <1>10 DEF ConversationInv

\* Rows that leave the unresolved requests have an outcome, or are over.
DroppedSafely ==
  \A o \in unresolved \ unresolved' : journal[o].status \in Known \/ Over(o)

LEMMA SafeKept ==
  ASSUME UNCHANGED <<vars, journal>>, DroppedSafely, NEW o \in Operation
  PROVE  /\ Waiting(o)' <=> Waiting(o)
         /\ Waiting(o) /\ Safe(o) => Safe(o)'
<1>1. Waiting(o)' <=> Waiting(o)
  BY DEF Waiting
<1>2. Over(o) => Over(o)'
  BY DEF Over, RunOver, Past, vars
<1>3. Waiting(o) => journal[o].status \notin Known
  BY DEF Waiting, Known
<1> QED
  BY <1>1, <1>2, <1>3 DEF Safe, DroppedSafely

LEMMA RefreshedRows ==
  ASSUME NEW rows, NEW left \in Refreshed(rows)
  PROVE  left \subseteq rows /\ \A o \in rows \ left : journal[o].status \in Known
  BY DEF Refreshed

\* What a message replaces is over.
LEMMA KeptRows ==
  ASSUME NEW w, ViewHolds(win[w].view), NEW o, NEW rows, Unblocked(w, o, rows)
  PROVE  Kept(o, rows) \subseteq rows /\ \A u \in rows \ Kept(o, rows) : Over(u)
<1>1. CASE o.kind = "message"
  <2>1. \A u \in rows : CanComposeAfter(w, u)
    BY <1>1 DEF Unblocked
  <2>2. \A u \in rows : Over(u)
    BY <2>1 DEF CanComposeAfter, ViewHolds, Over
  <2> QED
    BY <1>1, <2>2 DEF Kept
<1>2. CASE o.kind # "message"
  BY <1>2 DEF Kept
<1> QED
  BY <1>1, <1>2

\* What is recorded with an answer is kept unless the answer is known.
LEMMA RecordedRows ==
  ASSUME NEW rows, NEW o, NEW a \in Answers(o)
  PROVE  /\ \A u \in rows \ Recorded(rows, o, a) : journal[u].status \in Known
         /\ Tracked(o) /\ journal[o].status \notin Known => o \in Recorded(rows, o, a)
  BY DEF Answers, Recorded, Known

\* What the invariant says of one window.
LEMMA WindowFacts ==
  ASSUME ConversationInv, NEW w \in course.windows
  PROVE  /\ w \in Window /\ win \in [Window -> WinType] /\ win[w] \in WinType
         /\ Fits(win[w]) /\ MayDeliver(win[w]) /\ ViewHolds(win[w].view)
         /\ OneWindow => Locates(win[w])
         /\ \A c \in Command : Holds(win[w], c) => c \in signed
<1>1. w \in Window /\ win \in [Window -> WinType]
  BY Courses DEF ConversationInv, Forms
<1> QED
  BY <1>1 DEF ConversationInv, CommandsFit, Deliveries, ViewsHold, Located, HeldOnce

\* A step of a window that signs, broadcasts and delivers nothing.
LEMMA QuietWindowInv ==
  ASSUME ConversationInv, UNCHANGED <<vars, course, journal, signed, delivered>>,
         NEW w \in course.windows, NEW n \in WinType, win' = [win EXCEPT ![w] = n],
         \A c \in Command : Holds(n, c) => Holds(win[w], c),
         Fits(n), MayDeliver(n), ViewHolds(n.view), OneWindow => Locates(n)'
  PROVE  ConversationInv'
<1>1. journal' \in [Operation -> EntryType] /\ delivered' \in [Command -> Nat]
      /\ signed \subseteq signed' /\ signed' \subseteq Command
  BY DEF ConversationInv, Forms
<1>2. \A o \in Operation :
        o.kind = "run" /\ journal'[o].status # "none" => journal'[o].cmd \in Command
  BY DEF ConversationInv, CommandsFit
<1> QED
  BY <1>1, <1>2, WindowStepInv

\* A window opens.
LEMMA LoadInv ==
  ASSUME ConversationInv, UNCHANGED course, NEW w \in course.windows, Load(w)
  PROVE  ConversationInv' /\ DroppedSafely
<1>1. [Closed EXCEPT !.ready = TRUE, !.live = TRUE] \in WinType
  BY ClosedWindow DEF WinType
<1>2. PICK n \in WinType : n = [Closed EXCEPT !.ready = TRUE, !.live = TRUE]
  BY <1>1
<1>3. /\ n.ready = TRUE /\ n.live = TRUE /\ n.pc = "idle" /\ n.op = NoOperation
      /\ n.fee = NoOperation /\ n.cmd = NoCommand /\ n.view = NoView
      /\ n.receipt = NoOperation /\ n.pending = NoCommand
  BY <1>2, ClosedWindow DEF WinType
<1>4. win' = [win EXCEPT ![w] = n] /\ ~win[w].ready
      /\ UNCHANGED <<vars, journal, locator, signed, delivered>>
  BY <1>2 DEF Load, chainVars
<1>5. PICK rows : /\ \/ /\ rows = unresolved
                        /\ locator = NoOperation \/ journal[locator].status = "none"
                     \/ \E a \in Answers(locator) : rows = Recorded(unresolved, locator, a)
                  /\ unresolved' \in Refreshed(rows)
  BY DEF Load
<1>6. \A u \in unresolved \ rows : journal[u].status \in Known
  BY <1>5, RecordedRows
<1>7. unresolved' \subseteq rows /\ \A u \in rows \ unresolved' : journal[u].status \in Known
  BY <1>5, RefreshedRows
<1>8. DroppedSafely
  BY <1>6, <1>7 DEF DroppedSafely
<1>9. \A o \in Operation : Waiting(o) /\ locator = o => o \in unresolved'
  <2> SUFFICES ASSUME NEW o \in Operation, Waiting(o), locator = o PROVE o \in unresolved'
    OBVIOUS
  <2>1. journal[o].status = "sent" /\ Tracked(o) /\ journal[o].status \notin Known
        /\ o # NoOperation
    BY OperationAssumption DEF Waiting, Known
  <2>2. o \in rows
    BY <1>5, <2>1, RecordedRows
  <2> QED
    BY <1>7, <2>1, <2>2
<1>10. \A o \in Operation : (Waiting(o)' <=> Waiting(o)) /\ (Waiting(o) /\ Safe(o) => Safe(o)')
  BY <1>4, <1>8, SafeKept
<1>11. OneWindow => Locates(n)'
  <2>1. \A o \in Operation : o \in unresolved' => Safe(o)'
    BY DEF Safe
  <2> QED
    BY <1>3, <1>4, <1>9, <1>10, <2>1, WindowFacts DEF Locates
<1>12. Fits(n) /\ MayDeliver(n) /\ ViewHolds(n.view) /\ \A c \in Command : ~Holds(n, c)
  BY <1>3, NameAssumption DEF Fits, MayDeliver, ViewHolds, NoView, Holds
<1> QED
  BY <1>4, <1>8, <1>11, <1>12, QuietWindowInv

\* A window is closed.
LEMMA CloseInv ==
  ASSUME ConversationInv, UNCHANGED course, NEW w \in course.windows, Close(w)
  PROVE  ConversationInv' /\ DroppedSafely
<1> DEFINE s == win[w]
           x == [Closed EXCEPT !.pc = s.pc, !.op = s.op, !.pin = s.pin, !.version = s.version,
                               !.cmd = s.cmd]
<1>1. s \in WinType /\ Fits(s) /\ MayDeliver(s) /\ (OneWindow => Locates(s))
  BY WindowFacts
<1>2. x \in WinType
  BY <1>1, ClosedWindow DEF WinType
<1>3. PICK n \in WinType : n = x
  BY <1>2
<1>4. /\ n.ready = FALSE /\ n.live = FALSE /\ n.pc = s.pc /\ n.op = s.op
      /\ n.fee = NoOperation /\ n.cmd = s.cmd /\ n.view = NoView
      /\ n.receipt = NoOperation /\ n.pending = NoCommand
  BY <1>3, ClosedWindow DEF WinType
<1>5. win' = [win EXCEPT ![w] = n] /\ s.ready
      /\ UNCHANGED <<vars, journal, unresolved, locator, signed, delivered>>
  BY <1>3 DEF Close, chainVars
<1> HIDE DEF s, x
<1>6. DroppedSafely
  BY <1>5 DEF DroppedSafely
<1>7. \A o \in Operation : (Waiting(o)' <=> Waiting(o)) /\ (Waiting(o) /\ Safe(o) => Safe(o)')
  BY <1>5, <1>6, SafeKept
<1>8. OneWindow => Locates(n)'
  BY <1>1, <1>4, <1>5, <1>7 DEF Locates
<1>9. Fits(n) /\ MayDeliver(n) /\ ViewHolds(n.view)
  BY <1>1, <1>4, NameAssumption DEF Fits, MayDeliver, ViewHolds, NoView
<1>10. \A c \in Command : Holds(n, c) => Holds(win[w], c)
  BY <1>4, NameAssumption DEF Holds, s
<1> QED
  BY <1>5, <1>6, <1>8, <1>9, <1>10, QuietWindowInv

\* Nothing changes but the state of one window.
LEMMA SteadyRows ==
  ASSUME UNCHANGED <<vars, journal, unresolved>>
  PROVE  /\ DroppedSafely
         /\ \A o \in Operation : (Waiting(o)' <=> Waiting(o)) /\ (Safe(o) => Safe(o)')
<1>1. DroppedSafely
  BY DEF DroppedSafely
<1>2. \A o \in Operation : Safe(o) => Safe(o)'
  BY DEF Safe, Over, RunOver, Past, vars
<1> QED
  BY <1>1, <1>2, SafeKept

\* An operation throws.
LEMMA ThrowInv ==
  ASSUME ConversationInv, UNCHANGED course, NEW w \in course.windows, Throw(w)
  PROVE  ConversationInv' /\ DroppedSafely
<1> DEFINE s == win[w]
           x == [s EXCEPT !.pc = "idle", !.op = NoOperation, !.fee = NoOperation,
                          !.pin = << >>, !.cmd = NoCommand, !.version = 0, !.view = NoView]
<1>1. s \in WinType /\ MayDeliver(s) /\ (OneWindow => Locates(s))
  BY WindowFacts
<1>2. x \in WinType
  BY <1>1, ClosedWindow DEF WinType, Closed
<1>3. PICK n \in WinType : n = x
  BY <1>2
<1>4. /\ n.ready = s.ready /\ n.live = s.live /\ n.pc = "idle" /\ n.op = NoOperation
      /\ n.fee = NoOperation /\ n.cmd = NoCommand /\ n.view = NoView
      /\ n.receipt = s.receipt /\ n.pending = s.pending
  BY <1>1, <1>3 DEF WinType
<1>5. /\ win' = [win EXCEPT ![w] = n]
      /\ s.pc = "await" => ~s.live \/ journal[s.op].status \in Known
      /\ UNCHANGED <<vars, journal, unresolved, locator, signed, delivered>>
  BY <1>3 DEF Throw, Thrown, chainVars
<1> HIDE DEF s, x
<1>6. DroppedSafely
      /\ \A o \in Operation : (Waiting(o)' <=> Waiting(o)) /\ (Safe(o) => Safe(o)')
  BY <1>5, SteadyRows
<1>7. \A o \in Operation : Waiting(o) => journal[o].status \notin Known
  BY DEF Waiting, Known
<1>8. OneWindow => Locates(n)'
  BY <1>1, <1>4, <1>5, <1>6, <1>7 DEF Locates
<1>9. Fits(n) /\ MayDeliver(n) /\ ViewHolds(n.view)
  BY <1>1, <1>4, NameAssumption DEF Fits, MayDeliver, ViewHolds, NoView
<1>10. \A c \in Command : Holds(n, c) => Holds(win[w], c)
  BY <1>4, NameAssumption DEF Holds, s
<1> QED
  BY <1>5, <1>6, <1>8, <1>9, <1>10, QuietWindowInv

\* A message is read, with its run.
LEMMA ReadInv ==
  ASSUME ConversationInv, UNCHANGED course, NEW w \in course.windows, NEW m \in Message,
         Read(w, m)
  PROVE  ConversationInv' /\ DroppedSafely
<1> DEFINE s == win[w]
           c == message_runs[m]
           settled == c # NoCommand /\ message[m].version = perm.version
                        /\ run[c].state = "succeeded" /\ run[c].settled
           superseded == c = NoCommand /\ approval[m].state # "none"
                           /\ message[m].version < perm.version
           v == [m |-> m, current |-> Current, version |-> perm.version,
                 settled |-> settled, superseded |-> superseded]
           x == [s EXCEPT !.view = v]
<1>1. w \in Window /\ win \in [Window -> WinType] /\ s \in WinType /\ Fits(s) /\ MayDeliver(s)
      /\ (OneWindow => Locates(s))
  BY WindowFacts
<1>2. /\ win' = [win EXCEPT ![w].view = v] /\ message[m].version > 0
      /\ UNCHANGED <<vars, journal, unresolved, locator, signed, delivered>>
  BY DEF Read, chainVars
<1>3. perm.version \in Nat /\ message[m].version \in Nat
  BY DEF ConversationInv, PermissionInv, Shape, PermType, MessageType
<1>4. settled => RunOver(m)
  BY DEF RunOver
<1>5. superseded => Past(m)
  BY <1>2, <1>3 DEF Past
<1>6. settled \in BOOLEAN /\ superseded \in BOOLEAN /\ Current \in BOOLEAN
  BY Zenon DEF Current
<1> HIDE DEF settled, superseded
<1>7. v \in ViewType
  <2> DEFINE current == Current
  <2>1. current \in BOOLEAN
    BY <1>6
  <2> HIDE DEF current
  <2>2. [m |-> m, current |-> current, version |-> perm.version,
         settled |-> settled, superseded |-> superseded] \in ViewType
    BY <1>3, <1>6, <2>1 DEF ViewType
  <2> QED
    BY <2>2 DEF current
<1>8. v.m = m /\ v.settled = settled /\ v.superseded = superseded
  OBVIOUS
<1> HIDE DEF v
<1>9. x \in WinType
  BY <1>1, <1>7 DEF WinType
<1>10. win' = [win EXCEPT ![w] = x]
  BY <1>1, <1>2 DEF WinType
<1>11. PICK n \in WinType : n = x
  BY <1>9
<1>12. /\ n.ready = s.ready /\ n.live = s.live /\ n.pc = s.pc /\ n.op = s.op
       /\ n.fee = s.fee /\ n.cmd = s.cmd /\ n.view = v /\ n.receipt = s.receipt
       /\ n.pending = s.pending
  BY <1>1, <1>11 DEF WinType
<1> HIDE DEF s, x
<1>13. win' = [win EXCEPT ![w] = n]
  BY <1>10, <1>11
<1>14. DroppedSafely
       /\ \A o \in Operation : (Waiting(o)' <=> Waiting(o)) /\ (Safe(o) => Safe(o)')
  BY <1>2, SteadyRows
<1>15. OneWindow => Locates(n)'
  BY <1>1, <1>2, <1>12, <1>14 DEF Locates
<1>16. Fits(n) /\ MayDeliver(n)
  BY <1>1, <1>12 DEF Fits, MayDeliver
<1>17. ViewHolds(n.view)
  BY <1>4, <1>5, <1>8, <1>12 DEF ViewHolds
<1>18. \A d \in Command : Holds(n, d) => Holds(win[w], d)
  BY <1>12 DEF Holds, s
<1> QED
  BY <1>2, <1>13, <1>14, <1>15, <1>16, <1>17, <1>18, QuietWindowInv

\* A quote is asked for.
LEMMA PrepareInv ==
  ASSUME ConversationInv, UNCHANGED course, NEW w \in course.windows,
         NEW o \in Operation, Prepare(w, o)
  PROVE  ConversationInv' /\ DroppedSafely
<1> DEFINE s == win[w]
           x == [s EXCEPT !.pc = "prepare", !.op = o]
           known == IF s.receipt = NoOperation THEN unresolved
                    ELSE Recorded(unresolved, s.receipt, "unknown")
<1>1. w \in Window /\ win \in [Window -> WinType] /\ s \in WinType /\ Fits(s) /\ MayDeliver(s)
      /\ ViewHolds(s.view) /\ (OneWindow => Locates(s))
  BY WindowFacts
<1>2. x \in WinType
  BY <1>1 DEF WinType, Pc, OperationOrNone
<1>3. PICK n \in WinType : n = x
  BY <1>2
<1>4. /\ n.ready = s.ready /\ n.live = s.live /\ n.pc = "prepare" /\ n.op = o
      /\ n.fee = s.fee /\ n.cmd = s.cmd /\ n.view = s.view /\ n.receipt = s.receipt
      /\ n.pending = s.pending
  BY <1>1, <1>3 DEF WinType
<1>5. /\ win' = [win EXCEPT ![w] = n] /\ s.ready /\ s.pc = "idle" /\ s.fee = NoOperation
      /\ UNCHANGED <<vars, journal, locator, signed, delivered>>
  BY <1>1, <1>3 DEF Prepare, Idle, chainVars, WinType
<1>6. PICK rows \in Refreshed(known) : Unblocked(w, o, rows) /\ unresolved' = Kept(o, rows)
  BY DEF Prepare
<1>7. /\ unresolved \subseteq known
      /\ \A p \in Operation : Tracked(p) /\ s.receipt = p => p \in known
  BY OperationAssumption DEF Recorded
<1>8. rows \subseteq known /\ \A u \in known \ rows : journal[u].status \in Known
  BY <1>6, RefreshedRows
<1>9. Kept(o, rows) \subseteq rows /\ \A u \in rows \ Kept(o, rows) : Over(u)
  BY <1>1, <1>6, KeptRows
<1>10. \A u \in known \ unresolved' : journal[u].status \in Known \/ Over(u)
  BY <1>6, <1>8, <1>9
<1> HIDE DEF s, x, known
<1>11. DroppedSafely
  BY <1>7, <1>10 DEF DroppedSafely
<1>12. \A p \in Operation : (Waiting(p)' <=> Waiting(p)) /\ (Waiting(p) /\ Safe(p) => Safe(p)')
  BY <1>5, <1>11, SafeKept
<1>13. \A p \in Operation : Waiting(p) /\ s.receipt = p => Safe(p)'
  <2> SUFFICES ASSUME NEW p \in Operation, Waiting(p), s.receipt = p PROVE Safe(p)'
    OBVIOUS
  <2>1. p \in known /\ journal[p].status \notin Known
    BY <1>7 DEF Waiting, Known
  <2>2. p \in unresolved' \/ Over(p)
    BY <1>10, <2>1
  <2>3. Over(p) => Over(p)'
    BY <1>5 DEF Over, RunOver, Past, vars
  <2> QED
    BY <2>2, <2>3 DEF Safe
<1>14. OneWindow => Locates(n)'
  BY <1>1, <1>4, <1>5, <1>12, <1>13 DEF Locates
<1>15. Fits(n) /\ MayDeliver(n) /\ ViewHolds(n.view)
  BY <1>1, <1>4, <1>5 DEF Fits, MayDeliver
<1>16. \A c \in Command : Holds(n, c) => Holds(win[w], c)
  BY <1>4 DEF Holds, s
<1> QED
  BY <1>5, <1>11, <1>14, <1>15, <1>16, QuietWindowInv

\* An earlier attempt of the request is found.
LEMMA PriorFoundInv ==
  ASSUME ConversationInv, UNCHANGED course, NEW w \in course.windows, PriorFound(w)
  PROVE  ConversationInv' /\ DroppedSafely
<1> DEFINE s == win[w]
           o == s.op
<1>1. w \in Window /\ win \in [Window -> WinType] /\ s \in WinType /\ Fits(s) /\ MayDeliver(s)
      /\ ViewHolds(s.view) /\ (OneWindow => Locates(s))
  BY WindowFacts
<1>2. PICK a \in Answers(o) :
        /\ unresolved' = Recorded(unresolved, o, a)
        /\ win' = [win EXCEPT ![w].pc = "idle", ![w].op = NoOperation,
                              ![w].receipt = IF a = "unknown" THEN o ELSE NoOperation]
  BY DEF PriorFound
<1> DEFINE r == IF a = "unknown" THEN o ELSE NoOperation
           x == [s EXCEPT !.pc = "idle", !.op = NoOperation, !.receipt = r]
<1>3. r \in OperationOrNone /\ (r = NoOperation \/ r = o)
  BY <1>1 DEF WinType, OperationOrNone
<1>4. s.pc = "prepare" /\ s.live /\ UNCHANGED <<vars, journal, locator, signed, delivered>>
  BY DEF PriorFound, chainVars
<1>5. s.fee = NoOperation /\ o \in Operation
  BY <1>1, <1>4 DEF Fits
<1> HIDE DEF r
<1>6. x \in WinType
  BY <1>1, <1>3 DEF WinType, Pc, OperationOrNone
<1>7. PICK n \in WinType : n = x
  BY <1>6
<1>8. /\ n.ready = s.ready /\ n.live = s.live /\ n.pc = "idle" /\ n.op = NoOperation
      /\ n.fee = s.fee /\ n.cmd = s.cmd /\ n.view = s.view /\ n.receipt = r
      /\ n.pending = s.pending
  BY <1>1, <1>7 DEF WinType
<1>9. win' = [win EXCEPT ![w] = n]
  BY <1>1, <1>2, <1>7 DEF WinType, r
<1> HIDE DEF s, x, o
<1>10. DroppedSafely
  BY <1>2, RecordedRows DEF DroppedSafely
<1>11. \A p \in Operation : (Waiting(p)' <=> Waiting(p)) /\ (Waiting(p) /\ Safe(p) => Safe(p)')
  BY <1>4, <1>10, SafeKept
<1>12. OneWindow => Locates(n)'
  BY <1>1, <1>4, <1>5, <1>8, <1>11 DEF Locates
<1>13. Fits(n) /\ MayDeliver(n) /\ ViewHolds(n.view)
  BY <1>1, <1>5, <1>8 DEF Fits, MayDeliver
<1>14. \A c \in Command : Holds(n, c) => Holds(win[w], c)
  BY <1>8 DEF Holds, s
<1> QED
  BY <1>4, <1>9, <1>10, <1>12, <1>13, <1>14, QuietWindowInv

LEMMA PinFits ==
  ASSUME ConversationInv
  PROVE  Pin \in PinType /\ perm.version \in Nat
<1>1. perm \in PermType /\ source \in Nat /\ grant \in SUBSET Device
      /\ workspace \in [protected : BOOLEAN, revision : Nat]
  BY DEF ConversationInv, PermissionInv, Shape, Forms
<1>2. perm.version \in Nat
  BY <1>1 DEF PermType
<1> QED
  BY <1>1, <1>2 DEF Pin, PinType

\* A quote is made, with a newly signed command for a run.
LEMMA QuoteInv ==
  ASSUME ConversationInv, UNCHANGED course, NEW w \in course.windows,
         NEW c \in Command \cup {NoCommand}, Quote(w, c)
  PROVE  ConversationInv' /\ DroppedSafely
<1> DEFINE s == win[w]
           o == s.op
           x == [s EXCEPT !.pc = "idle", !.op = NoOperation, !.fee = o, !.pin = Pin,
                          !.version = perm.version, !.cmd = c, !.receipt = NoOperation]
<1>1. w \in Window /\ win \in [Window -> WinType] /\ s \in WinType /\ Fits(s) /\ MayDeliver(s)
      /\ ViewHolds(s.view) /\ (OneWindow => Locates(s))
  BY WindowFacts
<1>2. /\ s.pc = "prepare" /\ s.live
      /\ IF o.kind = "run" THEN c \in Command \ signed /\ MessageOf[c] = o.m
         ELSE c = NoCommand
      /\ signed' = signed \cup ({c} \cap Command) /\ locator' = o
      /\ win' = [win EXCEPT ![w].pc = "idle", ![w].op = NoOperation, ![w].fee = o,
                  ![w].pin = Pin, ![w].version = perm.version, ![w].cmd = c,
                  ![w].receipt = NoOperation]
      /\ UNCHANGED <<vars, journal, unresolved, delivered>>
  BY DEF Quote, chainVars
<1>3. o \in Operation /\ o # NoOperation
  BY <1>1, <1>2, OperationAssumption DEF Fits
<1>4. x \in WinType
  BY <1>1, <1>3, PinFits DEF WinType, Pc, OperationOrNone, CommandOrNone
<1>5. win' = [win EXCEPT ![w] = x]
  BY <1>1, <1>2 DEF WinType
<1>6. PICK n \in WinType : n = x
  BY <1>4
<1>7. /\ n.ready = s.ready /\ n.live = s.live /\ n.pc = "idle" /\ n.op = NoOperation
      /\ n.fee = o /\ n.cmd = c /\ n.view = s.view /\ n.receipt = NoOperation
      /\ n.pending = s.pending
  BY <1>1, <1>6 DEF WinType
<1>8. win' = [win EXCEPT ![w] = n]
  BY <1>5, <1>6
<1> HIDE DEF s, x, o
<1>9. DroppedSafely
      /\ \A p \in Operation : (Waiting(p)' <=> Waiting(p)) /\ (Safe(p) => Safe(p)')
  BY <1>2, SteadyRows
<1>10. OneWindow => Locates(n)'
  BY <1>1, <1>2, <1>3, <1>7, <1>9 DEF Locates
<1>11. Fits(n) /\ ViewHolds(n.view)
  BY <1>1, <1>2, <1>7 DEF Fits
<1>12. \A d \in Command : Holds(n, d) => Holds(win[w], d) \/ d \in signed' \ signed
  BY <1>2, <1>7, NameAssumption DEF Holds, s
<1>13. MayDeliver(n)
  <2>1. s.pending \in Command => s.pending \in signed
    BY WindowFacts DEF Holds, s
  <2>2. c \in Command => c # s.pending
    BY <1>2, <2>1, NameAssumption
  <2> QED
    BY <1>1, <1>7, <2>2 DEF MayDeliver
<1>14. journal' \in [Operation -> EntryType] /\ delivered' \in [Command -> Nat]
       /\ signed \subseteq signed' /\ signed' \subseteq Command
  BY <1>2 DEF ConversationInv, Forms
<1>15. \A p \in Operation :
         p.kind = "run" /\ journal'[p].status # "none" => journal'[p].cmd \in Command
  BY <1>2 DEF ConversationInv, CommandsFit
<1>16. UNCHANGED <<vars, course>> /\ \A d \in Command : delivered'[d] = delivered[d]
  BY <1>2
<1> QED
  BY <1>8, <1>9, <1>10, <1>11, <1>12, <1>13, <1>14, <1>15, <1>16, WindowStepInv

\* A quote is dropped.
LEMMA CancelQuoteInv ==
  ASSUME ConversationInv, UNCHANGED course, NEW w \in course.windows, CancelQuote(w)
  PROVE  ConversationInv' /\ DroppedSafely
<1> DEFINE s == win[w]
           x == [s EXCEPT !.fee = NoOperation, !.pin = << >>, !.cmd = NoCommand, !.version = 0]
<1>1. w \in Window /\ win \in [Window -> WinType] /\ s \in WinType /\ Fits(s) /\ MayDeliver(s)
      /\ ViewHolds(s.view) /\ (OneWindow => Locates(s))
  BY WindowFacts
<1>2. x \in WinType
  BY <1>1 DEF WinType, OperationOrNone, CommandOrNone, PinType
<1>3. PICK n \in WinType : n = x
  BY <1>2
<1>4. /\ n.ready = s.ready /\ n.live = s.live /\ n.pc = s.pc /\ n.op = s.op
      /\ n.fee = NoOperation /\ n.cmd = NoCommand /\ n.view = s.view
      /\ n.receipt = s.receipt /\ n.pending = s.pending
  BY <1>1, <1>3 DEF WinType
<1>5. /\ win' = [win EXCEPT ![w] = n] /\ s.pc = "idle"
      /\ UNCHANGED <<vars, journal, unresolved, locator, signed, delivered>>
  BY <1>1, <1>3 DEF CancelQuote, Idle, chainVars, WinType
<1> HIDE DEF s, x
<1>6. DroppedSafely
      /\ \A o \in Operation : (Waiting(o)' <=> Waiting(o)) /\ (Safe(o) => Safe(o)')
  BY <1>5, SteadyRows
<1>7. OneWindow => Locates(n)'
  BY <1>1, <1>4, <1>5, <1>6 DEF Locates
<1>8. Fits(n) /\ MayDeliver(n) /\ ViewHolds(n.view)
  BY <1>1, <1>4, <1>5, NameAssumption DEF Fits, MayDeliver
<1>9. \A c \in Command : Holds(n, c) => Holds(win[w], c)
  BY <1>4, NameAssumption DEF Holds, s
<1> QED
  BY <1>5, <1>6, <1>7, <1>8, <1>9, QuietWindowInv

\* A quote is confirmed by the user.
LEMMA SubmitInv ==
  ASSUME ConversationInv, UNCHANGED course, NEW w \in course.windows, Submit(w)
  PROVE  ConversationInv' /\ DroppedSafely
<1> DEFINE s == win[w]
           o == s.fee
           x == [s EXCEPT !.pc = "submit", !.op = o]
<1>1. w \in Window /\ win \in [Window -> WinType] /\ s \in WinType /\ Fits(s) /\ MayDeliver(s)
      /\ ViewHolds(s.view) /\ (OneWindow => Locates(s))
  BY WindowFacts
<1>2. x \in WinType
  BY <1>1 DEF WinType, Pc, OperationOrNone
<1>3. PICK n \in WinType : n = x
  BY <1>2
<1>4. /\ n.ready = s.ready /\ n.live = s.live /\ n.pc = "submit" /\ n.op = o
      /\ n.fee = s.fee /\ n.cmd = s.cmd /\ n.view = s.view /\ n.receipt = s.receipt
      /\ n.pending = s.pending
  BY <1>1, <1>3 DEF WinType
<1>5. /\ win' = [win EXCEPT ![w] = n] /\ s.ready /\ s.pc = "idle" /\ o # NoOperation
      /\ UNCHANGED <<vars, journal, locator, signed, delivered>>
  BY <1>1, <1>3 DEF Submit, Idle, chainVars, WinType
<1>6. o \in Operation
  BY <1>1, <1>5 DEF WinType, OperationOrNone
<1>7. DroppedSafely
  <2>1. CASE unresolved' = unresolved
    BY <2>1 DEF DroppedSafely
  <2>2. CASE \E rows \in Refreshed(unresolved) :
               Unblocked(w, o, rows) /\ unresolved' = Kept(o, rows)
    <3>1. PICK rows \in Refreshed(unresolved) :
                Unblocked(w, o, rows) /\ unresolved' = Kept(o, rows)
      BY <2>2
    <3>2. \A u \in unresolved \ rows : journal[u].status \in Known
      BY <3>1, RefreshedRows
    <3>3. \A u \in rows \ Kept(o, rows) : Over(u)
      BY <1>1, <3>1, KeptRows
    <3> QED
      BY <3>1, <3>2, <3>3 DEF DroppedSafely
  <2> QED
    BY <2>1, <2>2 DEF Submit
<1> HIDE DEF s, x, o
<1>8. \A p \in Operation : (Waiting(p)' <=> Waiting(p)) /\ (Waiting(p) /\ Safe(p) => Safe(p)')
  BY <1>5, <1>7, SafeKept
<1>9. OneWindow => Locates(n)'
  <2>1. o = s.fee
    BY DEF o, s
  <2> QED
    BY <1>1, <1>4, <1>5, <1>6, <1>8, <2>1, OperationAssumption DEF Locates
<1>10. Fits(n) /\ MayDeliver(n) /\ ViewHolds(n.view)
  <2>1. o = s.fee
    BY DEF o, s
  <2> QED
    BY <1>1, <1>4, <1>5, <1>6, <2>1 DEF Fits, MayDeliver
<1>11. \A c \in Command : Holds(n, c) => Holds(win[w], c)
  BY <1>4 DEF Holds, s
<1> QED
  BY <1>5, <1>7, <1>9, <1>10, <1>11, QuietWindowInv

\* The transaction is recorded and broadcast, or found recorded.
LEMMA BroadcastInv ==
  ASSUME ConversationInv, UNCHANGED course, NEW w \in course.windows, Broadcast(w)
  PROVE  ConversationInv' /\ DroppedSafely
<1> DEFINE s == win[w]
           o == s.op
           x == [s EXCEPT !.pc = "await"]
           e == [status |-> "sent", cmd |-> s.cmd, version |-> s.version]
<1>1. w \in Window /\ win \in [Window -> WinType] /\ s \in WinType /\ Fits(s) /\ MayDeliver(s)
      /\ ViewHolds(s.view) /\ (OneWindow => Locates(s))
  BY WindowFacts
<1>2. x \in WinType
  BY <1>1 DEF WinType, Pc
<1>3. PICK n \in WinType : n = x
  BY <1>2
<1>4. /\ n.ready = s.ready /\ n.live = s.live /\ n.pc = "await" /\ n.op = s.op
      /\ n.fee = s.fee /\ n.cmd = s.cmd /\ n.view = s.view /\ n.receipt = s.receipt
      /\ n.pending = s.pending
  BY <1>1, <1>3 DEF WinType
<1>5. /\ win' = [win EXCEPT ![w] = n] /\ s.pc = "submit" /\ s.live
      /\ journal' = IF journal[o].status # "none" THEN journal ELSE [journal EXCEPT ![o] = e]
      /\ UNCHANGED <<vars, unresolved, locator, signed, delivered>>
  BY <1>1, <1>3 DEF Broadcast, chainVars, WinType
<1>6. o \in Operation /\ (o.kind = "run" => s.cmd \in Command)
  BY <1>1, <1>5 DEF Fits
<1>7. e \in EntryType /\ e.cmd = s.cmd
  BY <1>1 DEF EntryType, WinType
<1>8. journal \in [Operation -> EntryType]
      /\ \A p \in Operation :
           p.kind = "run" /\ journal[p].status # "none" => journal[p].cmd \in Command
  BY DEF ConversationInv, Forms, CommandsFit
<1> HIDE DEF s, x, o, e
<1>9. journal' \in [Operation -> EntryType]
  BY <1>5, <1>7, <1>8
<1>10. \A p \in Operation :
         p.kind = "run" /\ journal'[p].status # "none" => journal'[p].cmd \in Command
  BY <1>5, <1>6, <1>7, <1>8
<1>11. \A p \in Operation : Waiting(p)' => Waiting(p) \/ p = o
  BY <1>5, <1>6, <1>8 DEF Waiting
<1>12. \A p \in Operation : Safe(p) => Safe(p)'
  BY <1>5 DEF Safe, Over, RunOver, Past, vars
<1>13. DroppedSafely
  BY <1>5 DEF DroppedSafely
<1>14. OneWindow => Locates(n)'
  <2>1. o = s.op
    BY DEF o, s
  <2>2. ASSUME OneWindow PROVE s.receipt = NoOperation
    BY <1>1, <1>5, <2>2 DEF Locates
  <2> QED
    BY <1>1, <1>4, <1>5, <1>6, <1>11, <1>12, <2>1, <2>2, OperationAssumption DEF Locates
<1>15. Fits(n) /\ MayDeliver(n) /\ ViewHolds(n.view)
  BY <1>1, <1>4, <1>5 DEF Fits, MayDeliver
<1>16. \A c \in Command : Holds(n, c) => Holds(win[w], c)
  BY <1>4 DEF Holds, s
<1>17. delivered' \in [Command -> Nat] /\ signed \subseteq signed' /\ signed' \subseteq Command
  BY <1>5 DEF ConversationInv, Forms
<1>18. UNCHANGED <<vars, course>> /\ \A d \in Command : delivered'[d] = delivered[d]
  BY <1>5
<1> QED
  BY <1>5, <1>9, <1>10, <1>13, <1>14, <1>15, <1>16, <1>17, <1>18, WindowStepInv

\* What an operation that threw leaves in its window.
LEMMA ThrownFields ==
  ASSUME NEW w, win[w] \in WinType
  PROVE  LET n == Thrown(w)
             s == win[w]
         IN /\ n \in WinType
            /\ n.ready = s.ready /\ n.live = s.live /\ n.pc = "idle"
            /\ n.op = NoOperation /\ n.fee = NoOperation /\ n.cmd = NoCommand
            /\ n.view = NoView /\ n.receipt = s.receipt /\ n.pending = s.pending
<1>1. NoView \in ViewType
  BY ClosedWindow DEF WinType, Closed
<1> HIDE DEF NoView
<1>2. Thrown(w) \in WinType
  BY <1>1 DEF Thrown, WinType, Pc, OperationOrNone, CommandOrNone, PinType
<1> QED
  BY <1>2 DEF Thrown, WinType

\* The outcome of a request reaches the window.
LEMMA OutcomeInv ==
  ASSUME ConversationInv, UNCHANGED course, NEW w \in course.windows, NEW a, Outcome(w, a)
  PROVE  ConversationInv' /\ DroppedSafely
<1> DEFINE s == win[w]
           o == s.op
           r == IF a = "unknown" THEN o ELSE NoOperation
           p == IF o.kind = "run" /\ a = "confirmed" THEN s.cmd ELSE s.pending
           x == [Thrown(w) EXCEPT !.receipt = r, !.view = s.view, !.pending = p]
<1>1. w \in Window /\ win \in [Window -> WinType] /\ s \in WinType /\ Fits(s) /\ MayDeliver(s)
      /\ ViewHolds(s.view) /\ (OneWindow => Locates(s))
  BY WindowFacts
<1>2. /\ s.pc = "await" /\ s.live /\ a \in Answers(o)
      /\ o.kind = "run" /\ a = "confirmed" => OwnRun(w, o)
      /\ unresolved' = Recorded(unresolved, o, a)
      /\ win' = [win EXCEPT ![w] = x]
      /\ UNCHANGED <<vars, journal, locator, signed, delivered>>
  BY DEF Outcome, chainVars
<1>3. o \in Operation /\ (o.kind = "run" => s.cmd \in Command /\ MessageOf[s.cmd] = o.m)
  BY <1>1, <1>2 DEF Fits
<1>4. r \in OperationOrNone /\ (r = NoOperation \/ r = o)
  BY <1>3 DEF OperationOrNone
<1>5. /\ p \in CommandOrNone /\ (p = s.cmd \/ p = s.pending)
      /\ p \in Command => Reserves(p)
  <2>1. p \in CommandOrNone /\ (p = s.cmd \/ p = s.pending)
    BY <1>1 DEF WinType
  <2>2. ASSUME o.kind = "run", a = "confirmed" PROVE Reserves(s.cmd)
    BY <1>2, <1>3, <2>2 DEF OwnRun, Reserves
  <2>3. s.pending \in Command => Reserves(s.pending)
    BY <1>1 DEF MayDeliver
  <2> QED
    BY <2>1, <2>2, <2>3
<1>6. s.view \in ViewType
  BY <1>1 DEF WinType
<1> HIDE DEF r, p
<1> DEFINE t == Thrown(w)
<1>7. /\ t.ready = s.ready /\ t.live = s.live /\ t.pc = "idle" /\ t.op = NoOperation
      /\ t.fee = NoOperation /\ t.cmd = NoCommand /\ t.view = NoView
      /\ t.receipt = s.receipt /\ t.pending = s.pending
      /\ t \in WinType /\ x = [t EXCEPT !.receipt = r, !.view = s.view, !.pending = p]
  BY <1>1, ThrownFields
<1> HIDE DEF t, x
<1>8. x \in WinType
  BY <1>4, <1>5, <1>6, <1>7 DEF WinType
<1>9. PICK n \in WinType : n = x
  BY <1>8
<1>10. /\ n.ready = s.ready /\ n.live = s.live /\ n.pc = "idle" /\ n.op = NoOperation
       /\ n.fee = NoOperation /\ n.cmd = NoCommand /\ n.view = s.view /\ n.receipt = r
       /\ n.pending = p
  BY <1>7, <1>9 DEF WinType
<1>11. win' = [win EXCEPT ![w] = n]
  BY <1>2, <1>9
<1> HIDE DEF s, o
<1>12. DroppedSafely
  BY <1>2, RecordedRows DEF DroppedSafely
<1>13. \A q \in Operation : (Waiting(q)' <=> Waiting(q)) /\ (Waiting(q) /\ Safe(q) => Safe(q)')
  BY <1>2, <1>12, SafeKept
<1>14. \A q \in Operation : Waiting(q) /\ q = o => Safe(q)'
  <2>1. \A q \in Operation : Waiting(q) => Tracked(q) /\ journal[q].status \notin Known
    BY DEF Waiting, Known
  <2>2. Tracked(o) /\ journal[o].status \notin Known => o \in unresolved'
    BY <1>2, RecordedRows
  <2> QED
    BY <2>1, <2>2 DEF Safe
<1>15. OneWindow => Locates(n)'
  <2>1. o = s.op
    BY DEF o, s
  <2>2. ASSUME OneWindow PROVE s.ready /\ s.receipt = NoOperation
    BY <1>1, <1>2, <2>2 DEF Locates
  <2> QED
    BY <1>1, <1>2, <1>3, <1>4, <1>10, <1>13, <1>14, <2>1, <2>2, OperationAssumption DEF Locates
<1>16. Fits(n) /\ MayDeliver(n) /\ ViewHolds(n.view)
  BY <1>1, <1>5, <1>10, NameAssumption DEF Fits, MayDeliver
<1>17. \A c \in Command : Holds(n, c) => Holds(win[w], c)
  BY <1>5, <1>10, NameAssumption DEF Holds, s
<1> QED
  BY <1>2, <1>11, <1>12, <1>15, <1>16, <1>17, QuietWindowInv

\* The outcome is unknown and cannot be recorded.
LEMMA OutcomeUnstoredInv ==
  ASSUME ConversationInv, UNCHANGED course, NEW w \in course.windows, OutcomeUnstored(w)
  PROVE  ConversationInv' /\ DroppedSafely
<1> DEFINE s == win[w]
           o == s.op
           x == [Thrown(w) EXCEPT !.receipt = o]
<1>1. w \in Window /\ win \in [Window -> WinType] /\ s \in WinType /\ Fits(s) /\ MayDeliver(s)
      /\ ViewHolds(s.view) /\ (OneWindow => Locates(s))
  BY WindowFacts
<1>2. /\ s.pc = "await" /\ s.live /\ win' = [win EXCEPT ![w] = x]
      /\ UNCHANGED <<vars, journal, unresolved, locator, signed, delivered>>
  BY DEF OutcomeUnstored, chainVars
<1>3. o \in Operation
  BY <1>1, <1>2 DEF Fits
<1> DEFINE t == Thrown(w)
<1>4. /\ t.ready = s.ready /\ t.live = s.live /\ t.pc = "idle" /\ t.op = NoOperation
      /\ t.fee = NoOperation /\ t.cmd = NoCommand /\ t.view = NoView
      /\ t.receipt = s.receipt /\ t.pending = s.pending
      /\ t \in WinType /\ x = [t EXCEPT !.receipt = o]
  BY <1>1, ThrownFields
<1> HIDE DEF t, x
<1>6. x \in WinType
  BY <1>3, <1>4 DEF WinType, OperationOrNone
<1>7. PICK n \in WinType : n = x
  BY <1>6
<1>8. /\ n.ready = s.ready /\ n.live = s.live /\ n.pc = "idle" /\ n.op = NoOperation
      /\ n.fee = NoOperation /\ n.cmd = NoCommand /\ n.view = NoView /\ n.receipt = o
      /\ n.pending = s.pending
  BY <1>4, <1>7 DEF WinType
<1>9. win' = [win EXCEPT ![w] = n]
  BY <1>2, <1>7
<1> HIDE DEF s, o
<1>10. DroppedSafely
       /\ \A p \in Operation : (Waiting(p)' <=> Waiting(p)) /\ (Safe(p) => Safe(p)')
  BY <1>2, SteadyRows
<1>11. OneWindow => Locates(n)'
  <2>1. o = s.op
    BY DEF o, s
  <2>2. ASSUME OneWindow PROVE s.ready /\ s.receipt = NoOperation /\ locator = o
    BY <1>1, <1>2, <2>1, <2>2 DEF Locates
  <2> QED
    BY <1>1, <1>2, <1>3, <1>8, <1>10, <2>1, <2>2, OperationAssumption DEF Locates
<1>12. Fits(n) /\ MayDeliver(n) /\ ViewHolds(n.view)
  BY <1>1, <1>8, NameAssumption DEF Fits, MayDeliver, ViewHolds, NoView
<1>13. \A c \in Command : Holds(n, c) => Holds(win[w], c)
  BY <1>8, NameAssumption DEF Holds, s
<1> QED
  BY <1>2, <1>9, <1>10, <1>11, <1>12, <1>13, QuietWindowInv

\* A delivery begins.
LEMMA SendInv ==
  ASSUME ConversationInv, UNCHANGED course, NEW w \in course.windows, Send(w)
  PROVE  ConversationInv' /\ DroppedSafely
<1> DEFINE s == win[w]
           x == [s EXCEPT !.pc = "send", !.pin = Pin]
<1>1. w \in Window /\ win \in [Window -> WinType] /\ s \in WinType /\ Fits(s) /\ MayDeliver(s)
      /\ ViewHolds(s.view) /\ (OneWindow => Locates(s))
  BY WindowFacts
<1>2. x \in WinType
  BY <1>1, PinFits DEF WinType, Pc
<1>3. PICK n \in WinType : n = x
  BY <1>2
<1>4. /\ n.ready = s.ready /\ n.live = s.live /\ n.pc = "send" /\ n.op = s.op
      /\ n.fee = s.fee /\ n.cmd = s.cmd /\ n.view = s.view /\ n.receipt = s.receipt
      /\ n.pending = s.pending
  BY <1>1, <1>3 DEF WinType
<1>5. /\ win' = [win EXCEPT ![w] = n]
      /\ UNCHANGED <<vars, journal, unresolved, locator, signed, delivered>>
  BY <1>1, <1>3 DEF Send, chainVars, WinType
<1>6. s.ready /\ s.pc = "idle" /\ s.pending # NoCommand /\ s.fee = NoOperation
      /\ s.receipt = NoOperation
  BY DEF Send, Idle
<1>7. s.pending \in Command
  BY <1>1, <1>6 DEF WinType, CommandOrNone
<1> HIDE DEF s, x
<1>8. DroppedSafely
      /\ \A o \in Operation : (Waiting(o)' <=> Waiting(o)) /\ (Safe(o) => Safe(o)')
  BY <1>5, SteadyRows
<1>9. OneWindow => Locates(n)'
  BY <1>1, <1>4, <1>5, <1>6, <1>8, OperationAssumption DEF Locates
<1>10. Fits(n) /\ MayDeliver(n) /\ ViewHolds(n.view)
  BY <1>1, <1>4, <1>6, <1>7 DEF Fits, MayDeliver
<1>11. \A c \in Command : Holds(n, c) => Holds(win[w], c)
  BY <1>4 DEF Holds, s
<1> QED
  BY <1>5, <1>8, <1>9, <1>10, <1>11, QuietWindowInv

\* The delivery is marked as attempted.
LEMMA MarkAttemptedInv ==
  ASSUME ConversationInv, UNCHANGED course, NEW w \in course.windows, MarkAttempted(w)
  PROVE  ConversationInv' /\ DroppedSafely
<1> DEFINE s == win[w]
           x == [s EXCEPT !.pc = "marked", !.cmd = s.pending, !.pending = NoCommand]
<1>1. w \in Window /\ win \in [Window -> WinType] /\ s \in WinType /\ Fits(s) /\ MayDeliver(s)
      /\ ViewHolds(s.view) /\ (OneWindow => Locates(s))
  BY WindowFacts
<1>2. x \in WinType
  BY <1>1 DEF WinType, Pc, CommandOrNone
<1>3. PICK n \in WinType : n = x
  BY <1>2
<1>4. /\ n.ready = s.ready /\ n.live = s.live /\ n.pc = "marked" /\ n.op = s.op
      /\ n.fee = s.fee /\ n.cmd = s.pending /\ n.view = s.view /\ n.receipt = s.receipt
      /\ n.pending = NoCommand
  BY <1>1, <1>3 DEF WinType
<1>5. /\ win' = [win EXCEPT ![w] = n] /\ s.pc = "send" /\ s.live
      /\ UNCHANGED <<vars, journal, unresolved, signed, delivered>>
  BY <1>1, <1>3 DEF MarkAttempted, Attempted, chainVars, WinType
<1>6. s.pending \in Command /\ Reserves(s.pending) /\ s.fee = NoOperation
  BY <1>1, <1>5 DEF MayDeliver, Fits
<1> HIDE DEF s, x
<1>7. DroppedSafely
      /\ \A o \in Operation : (Waiting(o)' <=> Waiting(o)) /\ (Safe(o) => Safe(o)')
  BY <1>5, SteadyRows
<1>8. OneWindow => Locates(n)'
  <2>1. ASSUME OneWindow PROVE s.ready /\ s.receipt = NoOperation
    BY <1>1, <1>5, <2>1 DEF Locates
  <2> QED
    BY <1>1, <1>4, <1>5, <1>6, <1>7, <2>1, OperationAssumption DEF Locates
<1>9. Fits(n) /\ MayDeliver(n) /\ ViewHolds(n.view)
  BY <1>1, <1>4, <1>6, NameAssumption DEF Fits, MayDeliver
<1>10. \A c \in Command : Holds(n, c) => Holds(win[w], c)
  BY <1>4, NameAssumption DEF Holds, s
<1> QED
  BY <1>5, <1>7, <1>8, <1>9, <1>10, QuietWindowInv

\* The request to the Host.
LEMMA DeliverInv ==
  ASSUME ConversationInv, UNCHANGED course, NEW w \in course.windows, Deliver(w)
  PROVE  ConversationInv' /\ DroppedSafely
<1> DEFINE s == win[w]
           c == s.cmd
           x == [s EXCEPT !.pc = "idle", !.pin = << >>, !.cmd = NoCommand]
<1>1. w \in Window /\ win \in [Window -> WinType] /\ s \in WinType /\ Fits(s) /\ MayDeliver(s)
      /\ ViewHolds(s.view) /\ (OneWindow => Locates(s))
  BY WindowFacts
<1>2. x \in WinType
  BY <1>1 DEF WinType, Pc, CommandOrNone, PinType
<1>3. PICK n \in WinType : n = x
  BY <1>2
<1>4. /\ n.ready = s.ready /\ n.live = s.live /\ n.pc = "idle" /\ n.op = s.op
      /\ n.fee = s.fee /\ n.cmd = NoCommand /\ n.view = s.view /\ n.receipt = s.receipt
      /\ n.pending = s.pending
  BY <1>1, <1>3 DEF WinType
<1>5. /\ win' = [win EXCEPT ![w] = n] /\ s.pc = "marked" /\ s.live
      /\ delivered' = [delivered EXCEPT ![c] = @ + 1]
      /\ UNCHANGED <<vars, journal, unresolved, locator, signed>>
  BY <1>1, <1>3 DEF Deliver, chainVars, WinType
<1>6. c \in Command /\ Reserves(c) /\ c # s.pending /\ s.fee = NoOperation
  BY <1>1, <1>5 DEF MayDeliver, Fits
<1>7. c \in signed /\ delivered[c] = 0 /\ delivered \in [Command -> Nat]
  BY <1>1, <1>6 DEF ConversationInv, HeldOnce, Holds, Forms
<1>8. delivered' \in [Command -> Nat] /\ delivered'[c] = 1
      /\ \A d \in Command \ {c} : delivered'[d] = delivered[d]
  BY <1>5, <1>6, <1>7
<1> HIDE DEF s, x
<1>9. DroppedSafely
      /\ \A o \in Operation : (Waiting(o)' <=> Waiting(o)) /\ (Safe(o) => Safe(o)')
  BY <1>5, SteadyRows
<1>10. OneWindow => Locates(n)'
  BY <1>1, <1>4, <1>5, <1>6, <1>9 DEF Locates
<1>11. Fits(n) /\ MayDeliver(n) /\ ViewHolds(n.view)
  BY <1>1, <1>4, <1>6, NameAssumption DEF Fits, MayDeliver
<1>12. /\ \A d \in Command : Holds(n, d) => Holds(win[w], d)
       /\ Holds(win[w], c) /\ ~Holds(n, c)
  BY <1>4, <1>6, NameAssumption DEF Holds, s
<1> HIDE DEF c
<1>13. \A d \in Command :
         \/ delivered'[d] = delivered[d]
         \/ /\ delivered'[d] = 1 /\ d \in signed /\ Reserves(d)
            /\ Holds(win[w], d) /\ ~Holds(n, d)
  BY <1>6, <1>7, <1>8, <1>12
<1>14. journal' \in [Operation -> EntryType] /\ signed \subseteq signed'
       /\ signed' \subseteq Command /\ UNCHANGED <<vars, course>>
  BY <1>5 DEF ConversationInv, Forms
<1>15. \A o \in Operation :
         o.kind = "run" /\ journal'[o].status # "none" => journal'[o].cmd \in Command
  BY <1>5 DEF ConversationInv, CommandsFit
<1> QED
  BY <1>5, <1>8, <1>9, <1>10, <1>11, <1>12, <1>13, <1>14, <1>15, WindowStepInv

-----------------------------------------------------------------------------
(* The theorems about the conversation.                                    *)

LEMMA ConversationNextInv ==
  ASSUME ConversationInv, [ConversationNext]_allVars
  PROVE  ConversationInv' /\ DroppedSafely
<1>1. CASE UNCHANGED allVars
  <2>1. UNCHANGED <<vars, journal, unresolved, locator, signed, delivered, win, course>>
    BY <1>1 DEF allVars, convVars
  <2>2. journal' \in [Operation -> EntryType]
    BY <2>1 DEF ConversationInv, Forms
  <2> QED
    BY <2>1, <2>2, ChainStepInv DEF DroppedSafely
<1>2. CASE ConversationNext
  <2>1. UNCHANGED course /\ ConversationStep
    BY <1>2 DEF ConversationNext
  <2>2. course.operations \in SUBSET Operation
    BY Courses DEF ConversationInv, Forms
  <2>3. ASSUME NEW w \in course.windows,
               \/ Load(w) \/ Close(w) \/ Throw(w)
               \/ \E m \in Message : Read(w, m)
               \/ \E o \in course.operations : Prepare(w, o)
               \/ PriorFound(w) \/ CancelQuote(w) \/ Submit(w) \/ Broadcast(w)
               \/ \E c \in Command \cup {NoCommand} : Quote(w, c)
               \/ \E a \in Known \cup {"unknown"} : Outcome(w, a)
               \/ OutcomeUnstored(w)
               \/ Send(w) \/ MarkAttempted(w) \/ Deliver(w)
        PROVE  ConversationInv' /\ DroppedSafely
    BY <2>1, <2>2, <2>3, LoadInv, CloseInv, ThrowInv, ReadInv, PrepareInv, PriorFoundInv,
       CancelQuoteInv, SubmitInv, BroadcastInv, QuoteInv, OutcomeInv, OutcomeUnstoredInv,
       SendInv, MarkAttemptedInv, DeliverInv
  <2>4. ASSUME NEW o \in course.operations, Land(o) \/ Abort(o)
        PROVE  ConversationInv' /\ DroppedSafely
    <3>1. unresolved' = unresolved
      BY <2>4 DEF Land, Abort
    <3> QED
      BY <2>1, <2>2, <2>4, <3>1, LandInv DEF DroppedSafely
  <2>5. CASE HostRuns
    <3>1. unresolved' = unresolved
      BY <2>5 DEF HostRuns, convVars
    <3> QED
      BY <2>1, <2>5, <3>1, HostInv DEF DroppedSafely
  <2> QED
    BY <2>1, <2>3, <2>4, <2>5 DEF ConversationStep
<1> QED
  BY <1>1, <1>2

LEMMA ConversationInvariant == ConversationSpec => []ConversationInv
<1>1. ConversationInv /\ [ConversationNext]_allVars => ConversationInv'
  BY ConversationNextInv
<1> QED
  BY ConversationStartsInv, <1>1, PTL DEF ConversationSpec

\* However many windows compete, close, reopen and lose answers, the Host is sent
\* at most one request for a message, and the command is the one of its run.
THEOREM HostAskedOnce == ConversationSpec => []HostRequestOnce
<1>1. ASSUME ConversationInv PROVE HostRequestOnce
  <2>1. \A c \in Command : delivered[c] \in Nat /\ MessageOf[c] \in Message
    BY <1>1, RequestAssumption DEF ConversationInv, Forms
  <2>2. \A c \in Command :
          delivered[c] > 0 => delivered[c] = 1 /\ message_runs[MessageOf[c]] = c
    BY <1>1 DEF ConversationInv, Deliveries, Reserves
  <2> QED
    BY <2>1, <2>2 DEF HostRequestOnce
<1> QED
  BY <1>1, ConversationInvariant, PTL

\* With one window at a time, a request that was broadcast is always among the
\* unknown ones, waited for, remembered, or without further effect.
THEOREM RequestsLocated == ConversationSpec => []SubmittedIsLocated
<1>1. ASSUME ConversationInv PROVE SubmittedIsLocated
  <2> SUFFICES ASSUME OneWindow, NEW o \in Operation, Tracked(o), journal[o].status = "sent"
               PROVE  \/ o \in unresolved \/ locator = o \/ Harmless(o)
                      \/ \E w \in Window : \/ win[w].pc = "await" /\ win[w].op = o /\ win[w].live
                                           \/ win[w].receipt = o
    BY DEF SubmittedIsLocated
  <2>1. Waiting(o)
    BY DEF Waiting
  <2>2. PICK w \in course.windows : TRUE
    BY <1>1, <2>1 DEF ConversationInv, Located
  <2>3. w \in Window /\ Locates(win[w])
    BY <1>1, <2>2, WindowFacts
  <2>4. Over(o) => Harmless(o)
    <3>1. perm.version \in Nat /\ \A m \in Message : message[m].version \in Nat
      BY <1>1 DEF ConversationInv, PermissionInv, Shape, PermType, MessageType
    <3> QED
      BY <3>1 DEF Over, Harmless, RunOver, Past
  <2> QED
    BY <2>1, <2>3, <2>4 DEF Locates, Safe
<1> QED
  BY <1>1, ConversationInvariant, PTL

\* A request leaves the unknown ones only when it was executed or failed, or when
\* it can have no further effect, although the window decides on what it read
\* before.
THEOREM DroppedWhenHarmless == ConversationSpec => RestrictionsDropSafely
<1>1. ASSUME ConversationInv, [ConversationNext]_allVars
      PROVE  [\A o \in unresolved \ unresolved' : Harmless(o)]_allVars
  <2>1. DroppedSafely
    BY <1>1, ConversationNextInv
  <2>2. perm.version \in Nat /\ \A m \in Message : message[m].version \in Nat
    BY <1>1 DEF ConversationInv, PermissionInv, Shape, PermType, MessageType
  <2>3. \A o : Over(o) => Harmless(o)
    BY <2>2 DEF Over, Harmless, RunOver, Past
  <2> QED
    BY <2>1, <2>3 DEF DroppedSafely, Harmless
<1> QED
  BY <1>1, ConversationInvariant, PTL DEF ConversationSpec, RestrictionsDropSafely
=============================================================================
