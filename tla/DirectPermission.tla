--------------------------- MODULE DirectPermission ---------------------------
(***************************************************************************)
(* The contract of direct messages, direct_agent.move: one StandingPermis- *)
(* sion of one managed Agent, its Messages, their one-off Approvals, the   *)
(* capabilities issued under it and the runs reserved with them.  Every    *)
(* action is one entry function, atomic as a Sui transaction is.           *)
(*                                                                         *)
(* The kind of a message is its action together with its boundary hash; a  *)
(* policy allows a set of kinds.  What `current' compares of the human,    *)
(* the membership and the managed Agent is one counter, `source'.  A       *)
(* command is the intent hash of one signed NodeCommand: it names its      *)
(* message and its capability.  A run is named by its command.             *)
(*                                                                         *)
(* No message, approval or command outlives the permission it was created  *)
(* under, and a command not its message: each deadline is a flag.          *)
(***************************************************************************)
EXTENDS Units

CONSTANTS
  Message, Command, Cap, Device,
  NoMessage, NoCommand, NoDevice,
  Kind,        \* actions with a boundary
  WriteKind,   \* those that write
  Policy,      \* the policies that are asked for
  KindOf, AmountOf,     \* what each message asks for; 0 for ask and status
  MessageOf, CapOf,     \* what each command names
  Change,      \* what else changes: "workspace", "source", "grant", "time"
  MaxVersion, MaxSource, MaxRevision   \* bounds of the model

ASSUME NameAssumption ==
  NoMessage \notin Message /\ NoCommand \notin Command /\ NoDevice \notin Device
ASSUME RequestAssumption ==
  /\ WriteKind \subseteq Kind
  /\ KindOf \in [Message -> Kind] /\ AmountOf \in [Message -> Nat]
  /\ MessageOf \in [Command -> Message] /\ CapOf \in [Command -> Cap]
ASSUME PolicyAssumption ==
  /\ Policy \subseteq [kinds : SUBSET Kind, max_calls : Nat, budget_limit : Nat]
  /\ \A p \in Policy : p.max_calls <= p.budget_limit

VARIABLES
  perm,        \* the StandingPermission; version 0: not created
  message,     \* the Messages
  approval,    \* the Approvals, by message
  message_runs,\* StandingPermission.message_runs
  run,         \* the CommandExecutions, with their DirectClaims
  cap,         \* the RemoteCapabilities, with their PermissionCapability
  workspace,   \* direct_workspace_state of the Agent's workspace
  source,      \* the human, membership and Agent versions `current' compares
  grant        \* the device grants that are valid

vars == <<perm, message, approval, message_runs, run, cap, workspace, source, grant>>

Final == {"succeeded", "failed", "needs_confirmation", "cancelled"}
RunState == {"none", "queued", "running"} \cup Final
ApprovalState == {"none", "requested", "approved", "rejected", "consumed"}

NoRun == [state |-> "none", stop |-> FALSE, version |-> 0, approved |-> FALSE,
          reserved |-> 0, spent |-> 0, settled |-> FALSE]
NoApproval == [state |-> "none", version |-> 0, revision |-> 0, by |-> NoDevice]
NoCap == [version |-> 0, approval |-> NoMessage, max_uses |-> 0, uses |-> 0,
          max_budget |-> 0, claimed |-> 0]

TypeOK ==
  /\ perm \in [version : Nat, source : Nat, revoked : BOOLEAN, expired : BOOLEAN,
               kinds : SUBSET Kind, max_calls : Nat, budget_limit : Nat,
               spent : Nat, reserved : Nat, approved_spent : Nat, approved_reserved : Nat]
  /\ message \in [Message -> [version : Nat, writer : Device \cup {NoDevice},
                              expired : BOOLEAN]]
  /\ approval \in [Message -> [state : ApprovalState, version : Nat, revision : Nat,
                               by : Device \cup {NoDevice}]]
  /\ message_runs \in [Message -> Command \cup {NoCommand}]
  /\ run \in [Command -> [state : RunState, stop : BOOLEAN, version : Nat,
                          approved : BOOLEAN, reserved : Nat, spent : Nat,
                          settled : BOOLEAN]]
  /\ cap \in [Cap -> [version : Nat, approval : Message \cup {NoMessage},
                      max_uses : Nat, uses : Nat, max_budget : Nat, claimed : Nat]]
  /\ workspace \in [protected : BOOLEAN, revision : Nat]
  /\ source \in Nat
  /\ grant \subseteq Device

Init ==
  /\ perm = [version |-> 0, source |-> 0, revoked |-> FALSE, expired |-> FALSE,
             kinds |-> {}, max_calls |-> 0, budget_limit |-> 0, spent |-> 0,
             reserved |-> 0, approved_spent |-> 0, approved_reserved |-> 0]
  /\ message = [m \in Message |-> [version |-> 0, writer |-> NoDevice, expired |-> FALSE]]
  /\ approval = [m \in Message |-> NoApproval]
  /\ message_runs = [m \in Message |-> NoCommand]
  /\ run = [c \in Command |-> NoRun]
  /\ cap = [k \in Cap |-> NoCap]
  /\ workspace = [protected |-> FALSE, revision |-> 0]
  /\ source = 0
  /\ grant = Device

-----------------------------------------------------------------------------
(* What the entry functions assert.                                        *)

\* The code of `current': the permission applies as it stands.
Current ==
  /\ perm.version > 0 /\ ~perm.revoked /\ ~perm.expired
  /\ perm.source = source

\* message_current.
MessageCurrent(m) ==
  /\ message[m].version > 0 /\ ~message[m].expired
  /\ message[m].version = perm.version

\* normal_allowed: the standing permission covers the message.
NormalAllowed(m) ==
  /\ KindOf[m] \in perm.kinds
  /\ AmountOf[m] <= perm.max_calls
  /\ perm.spent + perm.reserved + AmountOf[m] <= perm.budget_limit
  /\ KindOf[m] \in WriteKind => ~workspace.protected

\* approval_workspace: a write is approved for one state of the workspace.
ApprovalWorkspace(m) ==
  KindOf[m] \in WriteKind => workspace.revision = approval[m].revision

\* Fault: whether the approving device is still granted is not asked.
ApprovedAnyDevice(m, state) ==
  /\ approval[m].version = perm.version
  /\ approval[m].state = state
  /\ ApprovalWorkspace(m)

\* approved: the approval is in the given state and still means what it said.
Approved(m, state) ==
  /\ approval[m].version = perm.version
  /\ approval[m].state = state
  /\ ApprovalWorkspace(m)
  /\ approval[m].by \in grant

\* witness: the capability was issued under this version, for this approval.
CapabilityBound(c, approved) ==
  /\ cap[CapOf[c]].version = perm.version
  /\ cap[CapOf[c]].approval = IF approved THEN MessageOf[c] ELSE NoMessage

-----------------------------------------------------------------------------
(* The permission.                                                         *)

Granted(p) ==
  [perm EXCEPT !.version = @ + 1, !.source = source, !.revoked = FALSE,
               !.expired = FALSE, !.kinds = p.kinds, !.max_calls = p.max_calls,
               !.budget_limit = p.budget_limit]

\* Fault: only what was spent has to fit the new limit.
FitsLimitSpentOnly(p) == perm.spent <= p.budget_limit

FitsLimit(p) == perm.spent + perm.reserved <= p.budget_limit

\* create_permission, and update_permission at the version the caller expects.
UpdatePermission(d, expected, p) ==
  /\ d \in grant
  /\ perm.version = expected /\ perm.version < MaxVersion
  /\ FitsLimit(p)
  /\ perm' = Granted(p)
  /\ UNCHANGED <<message, approval, message_runs, run, cap, workspace, source, grant>>

RevokePermission(d, expected) ==
  /\ d \in grant
  /\ perm.version = expected /\ perm.version \in 1 .. MaxVersion - 1 /\ ~perm.revoked
  /\ perm' = [perm EXCEPT !.revoked = TRUE, !.version = @ + 1]
  /\ UNCHANGED <<message, approval, message_runs, run, cap, workspace, source, grant>>

-----------------------------------------------------------------------------
(* Messages and one-off approvals.                                         *)

CreateMessage(m, d, expected) ==
  /\ d \in grant
  /\ Current /\ perm.version = expected
  /\ message[m].version = 0
  /\ message' = [message EXCEPT ![m].version = perm.version, ![m].writer = d]
  /\ UNCHANGED <<perm, approval, message_runs, run, cap, workspace, source, grant>>

RequestApproval(m, d) ==
  /\ d \in grant
  /\ Current /\ MessageCurrent(m)
  /\ ~NormalAllowed(m)
  /\ approval[m].state = "none" /\ message_runs[m] = NoCommand
  /\ approval' = [approval EXCEPT ![m] =
       [state |-> "requested", version |-> perm.version,
        revision |-> workspace.revision, by |-> NoDevice]]
  /\ UNCHANGED <<perm, message, message_runs, run, cap, workspace, source, grant>>

DecideApproval(m, d, approve) ==
  /\ d \in grant
  /\ Current /\ MessageCurrent(m)
  /\ approval[m].state = "requested" /\ approval[m].version = perm.version
  /\ approve => ApprovalWorkspace(m)
  /\ approval' = [approval EXCEPT ![m].state = IF approve THEN "approved" ELSE "rejected",
                                  ![m].by = d]
  /\ UNCHANGED <<perm, message, message_runs, run, cap, workspace, source, grant>>

-----------------------------------------------------------------------------
(* Capabilities.                                                           *)

IssueCapability(k, d, expected, uses) ==
  /\ d \in grant
  /\ perm.version = expected /\ Current
  /\ cap[k].version = 0
  /\ cap' = [cap EXCEPT ![k] = [NoCap EXCEPT !.version = perm.version,
                                  !.max_uses = uses, !.max_budget = perm.budget_limit]]
  /\ UNCHANGED <<perm, message, approval, message_runs, run, workspace, source, grant>>

IssueApprovedCapability(k, d, m) ==
  /\ d \in grant
  /\ Current /\ MessageCurrent(m) /\ Approved(m, "approved")
  /\ cap[k].version = 0
  /\ cap' = [cap EXCEPT ![k] = [NoCap EXCEPT !.version = perm.version, !.approval = m,
                                  !.max_uses = 1, !.max_budget = AmountOf[m]]]
  /\ UNCHANGED <<perm, message, approval, message_runs, run, workspace, source, grant>>

-----------------------------------------------------------------------------
(* Runs.                                                                   *)

\* What claim_bound_use asks of the capability.
Claimable(c) ==
  LET k == cap[CapOf[c]]
  IN k.uses < k.max_uses /\ k.claimed + AmountOf[MessageOf[c]] <= k.max_budget

\* Fault: the runs of a message are not looked up.
MayReserveAnother(c, approved) ==
  /\ message[MessageOf[c]].writer \in grant
  /\ run[c].state = "none"
  /\ CapabilityBound(c, approved) /\ Claimable(c)

\* prepare, for a command that has no run yet.  (For one that has, it returns
\* that run and changes nothing.)
MayReserve(c, approved) ==
  /\ message[MessageOf[c]].writer \in grant
  /\ run[c].state = "none" /\ message_runs[MessageOf[c]] = NoCommand
  /\ CapabilityBound(c, approved) /\ Claimable(c)

Reserved(c, approved) ==
  LET amount == AmountOf[MessageOf[c]]
  IN /\ perm' = IF approved THEN [perm EXCEPT !.approved_reserved = @ + amount]
                            ELSE [perm EXCEPT !.reserved = @ + amount]
     /\ message_runs' = [message_runs EXCEPT ![MessageOf[c]] = c]
     /\ run' = [run EXCEPT ![c] = [NoRun EXCEPT !.state = "queued", !.version = perm.version,
                                     !.approved = approved, !.reserved = amount]]
     /\ cap' = [cap EXCEPT ![CapOf[c]].uses = @ + 1, ![CapOf[c]].claimed = @ + amount]

PrepareMessage(c) ==
  /\ Current /\ MessageCurrent(MessageOf[c])
  /\ NormalAllowed(MessageOf[c])
  /\ MayReserve(c, FALSE)
  /\ Reserved(c, FALSE)
  /\ UNCHANGED <<message, approval, workspace, source, grant>>

Consumed(m) == [approval EXCEPT ![m].state = "consumed"]

PrepareApprovedMessage(c) ==
  /\ Current /\ MessageCurrent(MessageOf[c])
  /\ Approved(MessageOf[c], "approved")
  /\ MayReserve(c, TRUE)
  /\ Reserved(c, TRUE)
  /\ approval' = Consumed(MessageOf[c])
  /\ UNCHANGED <<message, workspace, source, grant>>

\* The code of begin with the assertions of begin_message and
\* begin_approved_message: an ordinary run is held against the permission
\* again, without its own reservation, an approved one against its approval.
MayBegin(c) ==
  LET m == MessageOf[c]
  IN /\ Current /\ MessageCurrent(m)
     /\ run[c].state = "queued" /\ ~run[c].stop /\ run[c].version = perm.version
     /\ message[m].writer \in grant
     /\ CapabilityBound(c, run[c].approved)
     /\ IF run[c].approved THEN Approved(m, "consumed")
        ELSE /\ KindOf[m] \in perm.kinds /\ AmountOf[m] <= perm.max_calls
             /\ KindOf[m] \in WriteKind => ~workspace.protected

BeginMessage(c) ==
  /\ MayBegin(c)
  /\ run' = [run EXCEPT ![c].state = "running"]
  /\ UNCHANGED <<perm, message, approval, message_runs, cap, workspace, source, grant>>

\* Fault: the whole reservation counts as spent.
SettledInFull(c, spent) ==
  IF run[c].approved
  THEN [perm EXCEPT !.approved_reserved = @ - run[c].reserved,
                    !.approved_spent = @ + run[c].reserved]
  ELSE [perm EXCEPT !.reserved = @ - run[c].reserved, !.spent = @ + run[c].reserved]

\* settle: the reservation leaves the account it was made in.
Settled(c, spent) ==
  IF run[c].approved
  THEN [perm EXCEPT !.approved_reserved = @ - run[c].reserved, !.approved_spent = @ + spent]
  ELSE [perm EXCEPT !.reserved = @ - run[c].reserved, !.spent = @ + spent]

Settlable(c, spent) ==
  /\ ~run[c].settled /\ spent <= run[c].reserved
  /\ run[c].reserved <= IF run[c].approved THEN perm.approved_reserved ELSE perm.reserved

\* finish_message, with the settlement of the capability's own budget.  It is
\* historical: neither the version nor the validity of the permission counts.
FinishMessage(c, outcome, spent) ==
  /\ run[c].state = "running" /\ outcome \in Final
  /\ outcome = "cancelled" => run[c].stop
  /\ IF outcome = "needs_confirmation"
     THEN /\ run' = [run EXCEPT ![c].state = outcome]
          /\ UNCHANGED <<perm, cap>>
     ELSE /\ Settlable(c, spent)
          /\ perm' = Settled(c, spent)
          /\ run' = [run EXCEPT ![c].state = outcome, ![c].settled = TRUE, ![c].spent = spent]
          /\ cap' = [cap EXCEPT ![CapOf[c]].claimed = (@ - run[c].reserved) + spent]
  /\ UNCHANGED <<message, approval, message_runs, workspace, source, grant>>

\* request_stop: a queued run is cancelled and settled at once, a running one
\* is only asked to stop.
RequestStop(c, d) ==
  /\ d \in grant
  /\ run[c].state \in {"queued", "running"} /\ ~run[c].stop
  /\ IF run[c].state = "queued"
     THEN /\ Settlable(c, 0)
          /\ perm' = Settled(c, 0)
          /\ run' = [run EXCEPT ![c].state = "cancelled", ![c].stop = TRUE, ![c].settled = TRUE]
          /\ cap' = [cap EXCEPT ![CapOf[c]].claimed = @ - run[c].reserved]
     ELSE /\ run' = [run EXCEPT ![c].stop = TRUE]
          /\ UNCHANGED <<perm, cap>>
  /\ UNCHANGED <<message, approval, message_runs, workspace, source, grant>>

-----------------------------------------------------------------------------
(* What goes on around the permission.                                     *)

\* register_assignment, or the release of one, in the Agent's workspace.
ChangeWorkspace ==
  /\ "workspace" \in Change
  /\ workspace.revision < MaxRevision
  /\ \E protected \in BOOLEAN :
       workspace' = [protected |-> protected, revision |-> workspace.revision + 1]
  /\ UNCHANGED <<perm, message, approval, message_runs, run, cap, source, grant>>

\* The human recovers, or the membership or the managed Agent gets a new version.
ChangeSource ==
  /\ "source" \in Change /\ source < MaxSource
  /\ source' = source + 1
  /\ UNCHANGED <<perm, message, approval, message_runs, run, cap, workspace, grant>>

\* A device grant is revoked or replaced.
RevokeGrant(d) ==
  /\ "grant" \in Change /\ d \in grant
  /\ grant' = grant \ {d}
  /\ UNCHANGED <<perm, message, approval, message_runs, run, cap, workspace, source>>

ExpireMessage(m) ==
  /\ "time" \in Change
  /\ message[m].version > 0 /\ ~message[m].expired
  /\ message' = [message EXCEPT ![m].expired = TRUE]
  /\ UNCHANGED <<perm, approval, message_runs, run, cap, workspace, source, grant>>

ExpirePermission ==
  /\ "time" \in Change
  /\ perm.version > 0 /\ ~perm.expired
  /\ \A m \in Message : message[m].version = perm.version => message[m].expired
  /\ perm' = [perm EXCEPT !.expired = TRUE]
  /\ UNCHANGED <<message, approval, message_runs, run, cap, workspace, source, grant>>

Environment ==
  \/ ChangeWorkspace \/ ChangeSource \/ ExpirePermission
  \/ \E d \in Device : RevokeGrant(d)
  \/ \E m \in Message : ExpireMessage(m)

Next ==
  \/ \E d \in Device, p \in Policy : UpdatePermission(d, perm.version, p)
  \/ \E d \in Device : RevokePermission(d, perm.version)
  \/ \E d \in Device, m \in Message :
       \/ CreateMessage(m, d, perm.version)
       \/ RequestApproval(m, d)
       \/ \E approve \in BOOLEAN : DecideApproval(m, d, approve)
  \/ \E d \in Device, k \in Cap :
       \/ IssueCapability(k, d, perm.version, 10000)
       \/ \E m \in Message : IssueApprovedCapability(k, d, m)
  \/ \E c \in Command :
       \/ PrepareMessage(c) \/ PrepareApprovedMessage(c) \/ BeginMessage(c)
       \/ \E outcome \in Final, spent \in 0 .. run[c].reserved :
            FinishMessage(c, outcome, spent)
       \/ \E d \in Device : RequestStop(c, d)
  \/ Environment

Spec == Init /\ [][Next]_vars

-----------------------------------------------------------------------------
(* Properties.                                                             *)

Unsettled(approved) ==
  {c \in Command : run[c].state # "none" /\ ~run[c].settled /\ run[c].approved = approved}
SettledRuns(approved) == {c \in Command : run[c].settled /\ run[c].approved = approved}

\* Both accounts of the permission are the sums over the individual claims,
\* whatever versions of it the runs were reserved, started and settled under:
\* prepare, finish_message and request_stop against update_permission.
LedgerExact ==
  /\ perm.reserved = Cardinality(UNION {Units(c, run[c].reserved) : c \in Unsettled(FALSE)})
  /\ perm.approved_reserved =
       Cardinality(UNION {Units(c, run[c].reserved) : c \in Unsettled(TRUE)})
  /\ perm.spent = Cardinality(UNION {Units(c, run[c].spent) : c \in SettledRuns(FALSE)})
  /\ perm.approved_spent =
       Cardinality(UNION {Units(c, run[c].spent) : c \in SettledRuns(TRUE)})

\* No renewal, settlement or approval ever lets the standing permission owe
\* more than its current limit: update_permission's budget assertion.
StandingWithinLimit == perm.spent + perm.reserved <= perm.budget_limit

\* A message has one run, for good, however many commands, ordinary and approved
\* ones, were signed for it, and an approval is consumed by exactly the run that
\* was reserved with it: message_runs in `prepare', prepare_approved_message.
OneRunPerMessage ==
  \A m \in Message :
    /\ \A c \in Command :
         MessageOf[c] = m => (run[c].state # "none" <=> message_runs[m] = c)
    /\ approval[m].state = "consumed"
         <=> \E c \in Command : MessageOf[c] = m /\ run[c].state # "none" /\ run[c].approved

\* A run that cannot be started because its permission was renewed or revoked,
\* or because the grant that wrote or approved it is gone, is never started
\* afterwards: begin_message and begin_approved_message.
Lapsed(c) ==
  /\ run[c].state = "queued"
  /\ \/ perm.version > run[c].version
     \/ message[MessageOf[c]].writer \notin grant
     \/ run[c].approved /\ approval[MessageOf[c]].by \notin grant
LapsedNeverStarts ==
  [][\A c \in Command :
       Lapsed(c) => /\ run'[c].state # "running"
                    /\ run'[c].state = "queued" => Lapsed(c)']_vars
=============================================================================
