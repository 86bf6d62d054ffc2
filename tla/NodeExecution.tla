---------------------------- MODULE NodeExecution ----------------------------
(***************************************************************************)
(* Chain reservations and execution checkpoints of signed NodeCommands:    *)
(* node_execution.move together with the calls it makes into               *)
(* remote_authority.move (the capability), host.move (authority chain and  *)
(* agent execution index) and product_record.move (result records).        *)
(*                                                                         *)
(* One organization, one human with the device that signs commands, one    *)
(* Host (successive memberships of one address), the Agents imported on    *)
(* it, and a fixed pool of capability objects.  Every action is one entry  *)
(* function, atomic as a Sui transaction is; an aborted transaction        *)
(* changes nothing and is no step.                                         *)
(*                                                                         *)
(* No capability outlives its membership or its device grant (both are     *)
(* asserted when it is issued), so their own expiry times are left out.    *)
(*                                                                         *)
(* A command prepared under capability c with call q is the run <<c, q>>:  *)
(* the execution index of c holds at most one run per intent hash.         *)
(***************************************************************************)
EXTENDS RemoteCapability, Sequences

CONSTANTS
  Cap,            \* capability objects
  Agent,          \* imported Agents
  Tracked,        \* the Agents that have an execution index ("coverage")
  Host,           \* the target of a capability for the Host itself
  ControlAction,  \* actions that need OPERATE; the others only observe
  DirectMessage,  \* the control action reserved to contract-bound capabilities
  Attempt, NoAttempt,
  Offer,          \* the capabilities callers ask for
  Admin,          \* the administrative operations that take place
  MaxTtl,         \* longest validity of a command (300000 ms)
  MaxSkew,        \* how far ahead issued_at may lie (30000 ms)
  MaxClock, MaxKeyVersion, MaxGeneration, MaxGrantVersion, MaxMembership,
  MaxAgentVersion, MaxRecordRevision  \* bounds of the model

\* The administrative operations, by what they change.  "member": the human
\* is a member of the organization and not its owner.
AdminOperation ==
  {"deactivate", "rotate", "save", "recover", "device", "member", "binding",
   "membership", "agent"}

ASSUME SetAssumption ==
  /\ Tracked \subseteq Agent
  /\ Host \notin Agent
  /\ ControlAction \subseteq Action
  /\ DirectMessage \in ControlAction
  /\ NoAttempt \notin Attempt
  /\ Admin \subseteq AdminOperation
  /\ Offer \subseteq [target : Agent \cup {Host}, actions : SUBSET Action,
                      max_uses : Nat, max_budget : Nat, expires_at : Nat,
                      contract : BOOLEAN]

ASSUME BoundAssumption ==
  {MaxTtl, MaxSkew, MaxClock, MaxKeyVersion, MaxGeneration, MaxGrantVersion,
   MaxMembership, MaxAgentVersion, MaxRecordRevision} \subseteq Nat

VARIABLES
  clock,          \* the chain's clock
  org_active,     \* Organization.is_active
  key_version,    \* RecordIndex.key_version
  record,         \* revision of the checkpoint record of every intent, 0: none
  generation,     \* HumanIdentity.generation
  role_active,    \* OrgRole.active of the human in the organization
  grant,          \* the DeviceGrant of the signing device
  member,         \* the Host's latest HostMembership and its coordinator binding
  managed,        \* the ManagedAgent objects
  cap,            \* the RemoteCapability objects
  authority,      \* their AuthorityBindings
  result_keys,    \* their ResultKeyGrants: <<intent, key version>>
  run,            \* the CommandExecution objects
  queue,          \* the Host's HostCommandQueue
  index           \* the AgentExecutionIndex of every Agent

orgVars == <<org_active, key_version, record>>
humanVars == <<generation, role_active, grant>>
hostVars == <<member, managed>>
capVars == <<cap, authority, result_keys>>
runVars == <<run, queue, index>>
vars == <<clock, orgVars, humanVars, hostVars, capVars, runVars>>

Runs == Cap \X Call
Target == Agent \cup {Host}

Final == {"succeeded", "failed", "needs_confirmation", "cancelled"}
\* The states whose budget and index entry are settled.
Terminal == Final \ {"needs_confirmation"}
RunState == {"none", "queued", "running"} \cup Final

Execution ==
  [state : RunState, cursor : Nat, stop_requested : BOOLEAN,
   attempt_id : Attempt \cup {NoAttempt}, capability_version : Nat,
   result_record : BOOLEAN, delivered : BOOLEAN]

NoRun ==
  [state |-> "none", cursor |-> 0, stop_requested |-> FALSE,
   attempt_id |-> NoAttempt, capability_version |-> 0,
   result_record |-> FALSE, delivered |-> FALSE]

\* Actions of a device grant that matter to commands.
Permission == {"read", "operate"}

Grant == [version : Nat, revoked : BOOLEAN, actions : SUBSET Permission,
          scoped : BOOLEAN]

RequiredAction(operate) == IF operate THEN "operate" ELSE "read"

\* new_grant, for a root device or for one scoped to the organization.
NewGrant(scoped) ==
  [version |-> 1, revoked |-> FALSE, actions |-> Permission, scoped |-> scoped]

NotIssued ==
  [issued |-> FALSE, target |-> Host, membership |-> 0, agent_version |-> 0,
   grant_version |-> 0, generation |-> 0, operate |-> FALSE,
   contract |-> FALSE]

Init ==
  /\ clock = 0
  /\ org_active = TRUE
  /\ key_version = 1
  /\ record = [i \in Intent |-> 0]
  /\ generation = 1
  /\ role_active = TRUE
  /\ grant = NewGrant(TRUE)
  /\ member = [id |-> 1, revoked |-> FALSE, bound |-> TRUE]
  /\ \E confirmed \in [Agent -> BOOLEAN] :
       managed = [a \in Agent |-> [version |-> 1, revoked |-> FALSE,
                                   control_confirmed |-> confirmed[a],
                                   membership |-> 1]]
  /\ cap = [c \in Cap |-> NewCapability({}, 0, 0, 0)]
  /\ authority = [c \in Cap |-> NotIssued]
  /\ result_keys = [c \in Cap |-> {}]
  /\ run = [r \in Runs |-> NoRun]
  /\ queue = << >>
  /\ index = [a \in Agent |-> [executions |-> {}, settled |-> {},
                               unsettled_control |-> 0, revision |-> 1]]

-----------------------------------------------------------------------------
(* Authority: the assertions every start of a command makes again.         *)

\* assert_binding and assert_member.
AssertMember == org_active /\ member.bound /\ ~member.revoked

\* identity::assert_can_for_device for the signing device.
AssertCan(operate) ==
  /\ org_active
  /\ role_active
  /\ ~grant.revoked
  /\ RequiredAction(operate) \in grant.actions

AssertManaged(a, control) ==
  /\ managed[a].membership = member.id
  /\ ~managed[a].revoked
  /\ control => managed[a].control_confirmed

\* The versions pinned when the capability was issued are still current.
DeviceVersionsCurrent(c) ==
  LET b == authority[c] IN
  /\ b.membership = member.id
  /\ ~member.revoked
  /\ b.grant_version = grant.version
  /\ b.generation = generation

PinnedVersionsCurrent(c) ==
  LET b == authority[c] IN
  /\ DeviceVersionsCurrent(c)
  /\ b.target \in Agent => b.agent_version = managed[b.target].version

AssertDeviceAuthority(c) ==
  /\ authority[c].issued
  /\ AssertMember
  /\ DeviceVersionsCurrent(c)
  /\ AssertCan(authority[c].operate)

\* assert_agent_authority, and for the Host itself assert_host_authority.
AssertAuthority(c) ==
  LET b == authority[c] IN
  /\ AssertDeviceAuthority(c)
  /\ PinnedVersionsCurrent(c)
  /\ b.target \in Agent => AssertManaged(b.target, b.operate)

\* direct.message has no entry for a capability without a contract.
DirectNeedsContract(c, q) ==
  q.action = DirectMessage => authority[c].contract

-----------------------------------------------------------------------------
(* The agent execution index.                                              *)

IsTracked(c) == authority[c].target \in Tracked

\* record_agent_execution, its effect on the entry of one Agent.
RecordedIndex(e, c, q) ==
  [e EXCEPT !.executions = @ \cup {<<c, q>>},
            !.unsettled_control = IF q.action \in ControlAction THEN @ + 1 ELSE @,
            !.revision = @ + 1]

RecordAgentExecution(c, q) ==
  LET a == authority[c].target IN
  index' = [index EXCEPT ![a] = RecordedIndex(@, c, q)]

\* Fault: an observation also counts down.
SettledIndexCountsObservations(e, c, q) ==
  [e EXCEPT !.settled = @ \cup {<<c, q>>},
            !.unsettled_control = @ - 1,
            !.revision = @ + 1]

SettledIndex(e, c, q) ==
  [e EXCEPT !.settled = @ \cup {<<c, q>>},
            !.unsettled_control = IF q.action \in ControlAction THEN @ - 1 ELSE @,
            !.revision = @ + 1]

\* settle_agent_execution: a no-op for an Agent without coverage, an abort
\* for an execution that is unknown or already settled.
SettleAgentExecution(c, q) ==
  IF ~IsTracked(c) THEN UNCHANGED index
  ELSE LET a == authority[c].target IN
    /\ <<c, q>> \in index[a].executions \ index[a].settled
    /\ q.action \in ControlAction => index[a].unsettled_control > 0
    /\ index' = [index EXCEPT ![a] = SettledIndex(@, c, q)]

\* Fault: coverage alone is taken for idleness.
AgentIdleCoverageOnly(a) == a \in Tracked

\* assert_agent_execution_idle.
AgentIdle(a) == a \in Tracked /\ index[a].unsettled_control = 0

-----------------------------------------------------------------------------
(* Capabilities.                                                           *)

\* issue_device_capability, issue_agent_capability and the extensions'
\* new_capability, which binds the new capability to a contract.
IssueCapability(c, o) ==
  LET operate == o.actions \cap ControlAction # {} IN
  /\ ~authority[c].issued
  /\ AssertMember
  /\ AssertCan(operate)
  /\ o.max_uses > 0
  /\ ValidShape(o.actions, o.max_uses, o.max_budget, o.expires_at, clock)
  /\ o.target = Host => ~operate /\ ~o.contract
  /\ o.target \in Agent => AssertManaged(o.target, operate)
  /\ o.contract => operate /\ Cardinality(o.actions) = 1
  /\ cap' = [cap EXCEPT ![c] = NewCapability(o.actions, o.max_uses,
                                             o.max_budget, o.expires_at)]
  /\ authority' = [authority EXCEPT ![c] =
       [issued |-> TRUE, target |-> o.target, membership |-> member.id,
        agent_version |-> IF o.target \in Agent
                          THEN managed[o.target].version ELSE 0,
        grant_version |-> grant.version, generation |-> generation,
        operate |-> operate, contract |-> o.contract]]
  /\ UNCHANGED <<clock, orgVars, humanVars, hostVars, result_keys, runVars>>

\* revoke_capability, by the organization's admin.
RevokeCapability(c) ==
  /\ authority[c].issued
  /\ ~cap[c].revoked
  /\ cap' = [cap EXCEPT ![c] = Revoke(@)]
  /\ UNCHANGED <<clock, orgVars, humanVars, hostVars, authority, result_keys, runVars>>

-----------------------------------------------------------------------------
(* The five steps of a command.                                            *)

\* Fault: a key may be granted to a command that is already reserved.
MayGrantKeyAlways(c, q) == q.intent \in Intent

\* grant_result_key grants a new key only before the run exists: the
\* encryption scheme of a started command cannot be switched.
MayGrantKey(c, q) == \A p \in cap[c].claims : p.intent # q.intent

\* grant_result_key, at the current key version.
GrantResultKey(c, q) ==
  LET key == <<q.intent, key_version>> IN
  /\ AssertDeviceAuthority(c)
  /\ key \in result_keys[c] \/ MayGrantKey(c, q)
  /\ result_keys' = [result_keys EXCEPT ![c] = @ \cup {key}]
  /\ UNCHANGED <<clock, orgVars, humanVars, hostVars, cap, authority, runVars>>

\* The validity window prepare checks.
ValidWindow(c, q) ==
  /\ q.issued_at > 0
  /\ q.expires_at > q.issued_at
  /\ q.expires_at - q.issued_at <= MaxTtl
  /\ clock < q.expires_at
  /\ q.issued_at <= clock + MaxSkew
  /\ q.expires_at <= cap[c].expires_at

\* prepare_host_command, prepare_agent_command(_v2) and their with_contract
\* forms: consume a use, reserve the budget, create the run.  A repetition of
\* a known command changes nothing.
PrepareCommand(c, q) ==
  /\ AssertAuthority(c)
  /\ DirectNeedsContract(c, q)
  /\ ValidWindow(c, q)
  /\ CanClaim(cap[c], q, clock)
  /\ q \notin cap[c].claims => Balanced(ClaimBoundUse(cap[c], q))
  /\ cap' = [cap EXCEPT ![c] = ClaimBoundUse(@, q)]
  /\ IF q \in cap[c].claims THEN UNCHANGED <<run, index>>
     ELSE /\ run' = [run EXCEPT ![<<c, q>>] =
               [NoRun EXCEPT !.state = "queued", !.cursor = 1,
                             !.capability_version = cap[c].revocation_version]]
          /\ IF IsTracked(c) THEN RecordAgentExecution(c, q)
             ELSE UNCHANGED index
  /\ UNCHANGED <<clock, orgVars, humanVars, hostVars, authority, result_keys, queue>>

\* The run has no delivery yet and may still start.  (The same delivery again
\* changes nothing, another one aborts.)
Deliverable(r) ==
  /\ ~run[r].delivered
  /\ run[r].state = "queued"
  /\ ~run[r].stop_requested

\* queue_command: explicit, immutable delivery of a prepared Agent command.
QueueCommand(c, q) ==
  LET r == <<c, q>> IN
  /\ authority[c].target \in Agent
  /\ AssertAuthority(c)
  /\ run[r].state # "none"
  /\ run[r].capability_version = cap[c].revocation_version
  /\ Authorized(cap[c], q, clock)
  /\ <<q.intent, key_version>> \in result_keys[c]
  /\ Deliverable(r)
  /\ clock < q.expires_at
  /\ run' = [run EXCEPT ![r].delivered = TRUE]
  /\ queue' = Append(queue, r)
  /\ UNCHANGED <<clock, orgVars, humanVars, hostVars, capVars, index>>

\* Fault: a run whose start is unconfirmed may be started again.
StartableAgain(r) == run[r].state \in {"queued", "running"} /\ ~run[r].stop_requested

Startable(r) == run[r].state = "queued" /\ ~run[r].stop_requested

\* begin_host_command, begin_agent_command(_with_contract): the Host starts
\* the run under its own attempt id, all authority checked once more.
BeginCommand(c, q, a) ==
  LET r == <<c, q>> IN
  /\ AssertAuthority(c)
  /\ DirectNeedsContract(c, q)
  /\ Startable(r)
  /\ clock < q.expires_at
  /\ cap[c].revocation_version = run[r].capability_version
  /\ Authorized(cap[c], q, clock)
  /\ q \in cap[c].claims
  /\ run' = [run EXCEPT ![r].state = "running", ![r].attempt_id = a,
                        ![r].cursor = @ + 1]
  /\ UNCHANGED <<clock, orgVars, humanVars, hostVars, capVars, queue, index>>

\* Fault: an unknown outcome is settled like a known one.
KnownOutcomeAlways(final_state) == final_state \in Final

\* Unknown side effects keep their entire reservation and their index entry.
KnownOutcome(final_state) == final_state # "needs_confirmation"

\* finish_command_with_budget and _with_contract: the Host publishes the
\* encrypted result.  No authority is checked.  An FME2 body (own_key) needs
\* the result key of the current key version.
FinishCommand(c, q, expected_cursor, final_state, spent_amount, own_key) ==
  LET r == <<c, q>> IN
  /\ run[r].state = "running"
  /\ run[r].cursor = expected_cursor
  /\ final_state = "cancelled" => run[r].stop_requested
  /\ own_key => <<q.intent, key_version>> \in result_keys[c]
  /\ IF KnownOutcome(final_state)
     THEN /\ CanSettle(cap[c], q, spent_amount)
          /\ cap' = [cap EXCEPT ![c] = SettleBoundBudget(@, q, spent_amount)]
          /\ SettleAgentExecution(c, q)
     ELSE spent_amount = 0 /\ UNCHANGED <<cap, index>>
  /\ record[q.intent] = 0
  /\ record' = [record EXCEPT ![q.intent] = 1]
  /\ run' = [run EXCEPT ![r].state = final_state, ![r].result_record = TRUE,
                        ![r].cursor = @ + 1]
  /\ UNCHANGED <<clock, org_active, key_version, humanVars, hostVars,
                 authority, result_keys, queue>>

\* request_stop_with_budget(_v2) and _with_contract(_v2), by any device of
\* the human that may operate.
RequestStop(c, q) ==
  LET r == <<c, q>> IN
  /\ org_active
  /\ role_active
  /\ run[r].state \in {"queued", "running"}
  /\ ~run[r].stop_requested
  /\ \/ /\ run[r].state = "queued"
        /\ CanSettle(cap[c], q, 0)
        /\ cap' = [cap EXCEPT ![c] = SettleBoundBudget(@, q, 0)]
        /\ SettleAgentExecution(c, q)
        /\ run' = [run EXCEPT ![r].stop_requested = TRUE,
                              ![r].state = "cancelled", ![r].cursor = @ + 1]
     \/ /\ run[r].state = "running"
        /\ run' = [run EXCEPT ![r].stop_requested = TRUE, ![r].cursor = @ + 1]
        /\ UNCHANGED <<cap, index>>
  /\ UNCHANGED <<clock, orgVars, humanVars, hostVars, authority, result_keys, queue>>

-----------------------------------------------------------------------------
(* What happens around a command: time, keys, records and authority.       *)

Tick ==
  /\ clock < MaxClock
  /\ clock' = clock + 1
  /\ UNCHANGED <<orgVars, humanVars, hostVars, capVars, runVars>>

\* deactivate_organization; there is no way back.
DeactivateOrganization ==
  /\ org_active
  /\ org_active' = FALSE
  /\ UNCHANGED <<clock, key_version, record, humanVars, hostVars, capVars, runVars>>

\* rotate_key and rotate_key_for_recovery.
RotateKey ==
  /\ org_active
  /\ key_version < MaxKeyVersion
  /\ key_version' = key_version + 1
  /\ UNCHANGED <<clock, org_active, record, humanVars, hostVars, capVars, runVars>>

\* product_record::save of a checkpoint record by an administrator's device,
\* under the logical id finish would use.
SaveRecord(i) ==
  /\ org_active
  /\ record[i] < MaxRecordRevision
  /\ record' = [record EXCEPT ![i] = @ + 1]
  /\ UNCHANGED <<clock, org_active, key_version, humanVars, hostVars, capVars, runVars>>

\* recover_identity: a new generation, with the grant of a new root device.
RecoverIdentity ==
  /\ generation < MaxGeneration
  /\ generation' = generation + 1
  /\ grant' = NewGrant(FALSE)
  /\ UNCHANGED <<clock, orgVars, role_active, hostVars, capVars, runVars>>

\* change_device_permissions, of a scoped device only; update_device_keys, and
\* update_root_device_keys, which needs no organization.
ChangeDevice(actions) ==
  /\ grant.scoped => org_active
  /\ grant.scoped \/ actions = grant.actions
  /\ ~grant.revoked
  /\ grant.version < MaxGrantVersion
  /\ grant' = [grant EXCEPT !.version = @ + 1, !.actions = actions]
  /\ UNCHANGED <<clock, orgVars, generation, role_active, hostVars, capVars, runVars>>

\* revoke_device.
RevokeDevice ==
  /\ ~grant.revoked
  /\ grant.version < MaxGrantVersion
  /\ grant' = [grant EXCEPT !.version = @ + 1, !.revoked = TRUE]
  /\ UNCHANGED <<clock, orgVars, generation, role_active, hostVars, capVars, runVars>>

\* set_member, which an owner cannot apply to itself.
SetMember ==
  /\ org_active
  /\ role_active' = ~role_active
  /\ UNCHANGED <<clock, orgVars, generation, grant, hostVars, capVars, runVars>>

\* revoke_coordinator_binding.
RevokeCoordinatorBinding ==
  /\ org_active
  /\ member.bound
  /\ member' = [member EXCEPT !.bound = FALSE]
  /\ UNCHANGED <<clock, orgVars, humanVars, managed, capVars, runVars>>

\* revoke_membership.
RevokeMembership ==
  /\ org_active
  /\ ~member.revoked
  /\ member' = [member EXCEPT !.revoked = TRUE]
  /\ UNCHANGED <<clock, orgVars, humanVars, managed, capVars, runVars>>

\* Fault: joining again revives the revoked membership object.
RejoinHostSameMembership ==
  /\ org_active
  /\ member.revoked
  /\ member' = [member EXCEPT !.revoked = FALSE, !.bound = TRUE]
  /\ UNCHANGED <<clock, orgVars, humanVars, managed, capVars, runVars>>

\* redeem_invite: the Host joins again under a new membership object.
RejoinHost ==
  /\ org_active
  /\ member.revoked
  /\ member.id < MaxMembership
  /\ member' = [id |-> member.id + 1, revoked |-> FALSE, bound |-> TRUE]
  /\ UNCHANGED <<clock, orgVars, humanVars, managed, capVars, runVars>>

\* revoke_agent.
RevokeAgent(a) ==
  /\ org_active
  /\ ~managed[a].revoked
  /\ managed[a].version < MaxAgentVersion
  /\ managed' = [managed EXCEPT ![a].revoked = TRUE, ![a].version = @ + 1]
  /\ UNCHANGED <<clock, orgVars, humanVars, member, capVars, runVars>>

\* rebind_agent(_at_version), and confirm_reviewed_control for control.
RebindAgent(a, control) ==
  /\ AssertMember
  /\ AgentIdle(a)
  /\ managed[a].version < MaxAgentVersion
  /\ managed' = [managed EXCEPT ![a] =
       [version |-> @.version + 1, revoked |-> FALSE,
        control_confirmed |-> control, membership |-> member.id]]
  /\ UNCHANGED <<clock, orgVars, humanVars, member, capVars, runVars>>

-----------------------------------------------------------------------------
Command(c, q) ==
  \/ GrantResultKey(c, q)
  \/ PrepareCommand(c, q)
  \/ QueueCommand(c, q)
  \/ \E a \in Attempt : BeginCommand(c, q, a)
  \/ \E final_state \in Final, spent_amount \in 0 .. q.budget_amount,
        own_key \in BOOLEAN :
       FinishCommand(c, q, run[<<c, q>>].cursor, final_state, spent_amount, own_key)
  \/ RequestStop(c, q)

Administration ==
  \/ "deactivate" \in Admin /\ DeactivateOrganization
  \/ "rotate" \in Admin /\ RotateKey
  \/ "save" \in Admin /\ \E i \in Intent : SaveRecord(i)
  \/ "recover" \in Admin /\ RecoverIdentity
  \/ /\ "device" \in Admin
     /\ RevokeDevice \/ \E actions \in SUBSET Permission : ChangeDevice(actions)
  \/ "member" \in Admin /\ SetMember
  \/ "binding" \in Admin /\ RevokeCoordinatorBinding
  \/ "membership" \in Admin /\ (RevokeMembership \/ RejoinHost)
  \/ /\ "agent" \in Admin
     /\ \E a \in Agent : RevokeAgent(a) \/ \E control \in BOOLEAN : RebindAgent(a, control)

Next ==
  \/ \E c \in Cap, o \in Offer : IssueCapability(c, o)
  \/ \E c \in Cap : RevokeCapability(c)
  \/ \E c \in Cap, q \in Call : Command(c, q)
  \/ Tick
  \/ Administration

Spec == Init /\ [][Next]_vars

-----------------------------------------------------------------------------
(* Properties.                                                             *)

IndexEntry ==
  [executions : SUBSET Runs, settled : SUBSET Runs,
   unsettled_control : Nat, revision : Nat]

AuthorityBinding ==
  [issued : BOOLEAN, target : Target, membership : Nat, agent_version : Nat,
   grant_version : Nat, generation : Nat, operate : BOOLEAN,
   contract : BOOLEAN]

\* Every object has its type; no counter of the ledger or of the index ever
\* goes below zero.
TypeOK ==
  /\ clock \in Nat
  /\ org_active \in BOOLEAN
  /\ key_version \in Nat
  /\ record \in [Intent -> Nat]
  /\ generation \in Nat
  /\ role_active \in BOOLEAN
  /\ grant \in Grant
  /\ member \in [id : Nat, revoked : BOOLEAN, bound : BOOLEAN]
  /\ managed \in [Agent -> [version : Nat, revoked : BOOLEAN,
                            control_confirmed : BOOLEAN, membership : Nat]]
  /\ cap \in [Cap -> Capability]
  /\ authority \in [Cap -> AuthorityBinding]
  /\ result_keys \in [Cap -> SUBSET (Intent \X Nat)]
  /\ run \in [Runs -> Execution]
  /\ queue \in Seq(Runs)
  /\ index \in [Agent -> IndexEntry]

\* BoundBudgetTotals equal the sums over the individual claims, and their sum
\* is budget_claimed: the assertions of claim_bound_use and
\* settle_bound_budget never abort a transaction that is otherwise valid.
BudgetLedgerExact == \A c \in Cap : LedgerExact(cap[c])

\* However prepares, finishes and stops interleave, uses and budget stay
\* within what the capability granted, and a use is never returned.
QuotaKept == \A c \in Cap : WithinLimits(cap[c]) /\ UsesExact(cap[c])

\* The runs of a capability are its claims.
RunPerClaim ==
  \A c \in Cap, q \in Call : q \in cap[c].claims <=> run[<<c, q>>].state # "none"

\* No command id, nonce, idempotency key or intent hash serves two claims of
\* one capability, and every claim has its one run.
NoReplay == RunPerClaim /\ \A c \in Cap : TokensUnique(cap[c])

\* A budget claim is settled exactly when its run is in a terminal state:
\* what lookupExecution (chain_execution.go) requires of every run it reads.
SettledExactlyWhenTerminal ==
  \A c \in Cap : \A q \in cap[c].claims :
    q.intent \in cap[c].settled <=> run[<<c, q>>].state \in Terminal

\* What makes the ledger, replay and settlement properties inductive.
LedgerInv ==
  /\ TypeOK
  /\ \A c \in Cap : CapabilityInv(cap[c])
  /\ RunPerClaim
  /\ SettledExactlyWhenTerminal
  /\ \A c \in Cap : ~authority[c].issued => cap[c].claims = {}

UnsettledControls(a) ==
  {r \in Runs : /\ authority[r[1]].target = a
                /\ r[2].action \in ControlAction
                /\ run[r].state \notin Terminal \cup {"none"}}

\* The index of a tracked Agent counts exactly the control runs that may
\* still act or whose effects are unknown.
ControlCountExact ==
  \A a \in Tracked : index[a].unsettled_control = Cardinality(UnsettledControls(a))

\* While a control run of a tracked Agent is queued, running or of unknown
\* outcome, the Agent is still bound as it was when the command's capability
\* was issued, or revoked; it is never rebound under the run.
ControlRunKeepsBinding ==
  \A c \in Cap, q \in Call :
    LET b == authority[c] IN
    b.target \in Tracked /\ <<c, q>> \in UnsettledControls(b.target) =>
      LET m == managed[b.target] IN
      \/ m.version = b.agent_version /\ m.membership = b.membership
      \/ m.revoked /\ m.version = b.agent_version + 1

\* Once a pinned version is no longer current it never is again: neither a
\* new membership, nor a rebind, nor recovery revives an old capability.
LapsedAuthorityStaysLapsed ==
  [][\A c \in Cap :
       authority[c].issued /\ ~PinnedVersionsCurrent(c)
         => ~PinnedVersionsCurrent(c)']_vars

\* The keys a result may be encrypted under are fixed when the run is created:
\* whatever is rotated or granted later, they never change.
ResultKeysFixedByRun ==
  [][\A c \in Cap : \A q \in cap[c].claims :
       \A v \in 1 .. key_version' :
         <<q.intent, v>> \in result_keys'[c] <=> <<q.intent, v>> \in result_keys[c]]_vars

\* The part of a run that a Host sees.
RunLife(e) == [state |-> e.state, cursor |-> e.cursor,
               stop_requested |-> e.stop_requested, attempt_id |-> e.attempt_id]

LifeView == [r \in Runs |-> RunLife(run[r])]

Lifecycle == INSTANCE CommandLifecycle WITH Run <- Runs, life <- LifeView

\* The promise a Host relies on: every step of the contracts is a step of
\* CommandLifecycle or leaves what a Host sees alone.
ImplementsLifecycle == Lifecycle!LifeSpec
=============================================================================
