------------------------------ MODULE Objective ------------------------------
(***************************************************************************)
(* Objectives with measured key results: okr.move and handover.move.  An   *)
(* Okr is drafted, agreed with an Agent (after the Host's review, or with  *)
(* an agent-manager Agent without one), run one key result at a time,      *)
(* measured by the Host, verified and accepted by Humans.  Every action is *)
(* one entry function, atomic as a Sui transaction is.                     *)
(*                                                                         *)
(* A capability is the objective and the agreement version it is bound to; *)
(* its own ledger is RemoteCapability's.  A command is the intent hash of  *)
(* one signed NodeCommand and names its run, whose own life is             *)
(* NodeExecution's: here it is queued, running, settled or unknown.  A     *)
(* measurement either reaches the target or not, and is fresh until its    *)
(* max_age_ms has passed; an agreement is live until expires_at_ms.        *)
(*                                                                         *)
(* A Human signs with the version of the objective he last read, `seen'.   *)
(***************************************************************************)
EXTENDS Units

CONSTANTS
  Okr, Command, Human, NoCommand,
  Amount,          \* budget amounts a command may name
  Limit,           \* budget limits an agreement may set
  MaxMetrics,      \* 3 in the code
  MaxActive,       \* 3 in the code
  MaxVersion       \* bound: changes of an objective

ASSUME ObjectiveAssumption ==
  /\ NoCommand \notin Command /\ "none" \notin Okr
  /\ Amount \subseteq Nat \ {0} /\ Limit \subseteq Nat \ {0}
  /\ MaxMetrics \in Nat \ {0} /\ MaxActive \in Nat /\ MaxVersion \in Nat

VARIABLES
  okr,          \* the Okr objects
  ledger,       \* BudgetState.spent and reserved, by objective
  claim,        \* BudgetState.claims, by command
  run,          \* CommandExecution.state, by command
  caps,         \* capabilities issued: <<objective, agreement version>>
  policy,       \* HandoverPolicy, by objective
  managed,      \* the ManagedAgent that runs bounded commands
  review,       \* the Host's unused acceptance: the objective's version, or 0
  active_count, \* OkrIndex.active_count
  assigned,     \* objectives tracked by ActiveAssignments
  seen,         \* what each Human last read
  agreed        \* history: agreements confirmed after a Host's review

vars == <<okr, ledger, claim, run, caps, policy, managed, review,
          active_count, assigned, seen, agreed>>

Settled == {"succeeded", "failed", "cancelled"}
Started == {"running", "succeeded", "failed", "unknown"}
Index == 0 .. MaxMetrics - 1

Unmeasured == [command |-> NoCommand, met |-> FALSE, fresh |-> FALSE, verified |-> FALSE]
NoOkr == [state |-> "none", version |-> 0, agreement |-> 0, spec |-> 0, next |-> 0,
          metrics |-> <<>>, agent |-> "bounded", managed |-> 0, limit |-> 0, live |-> FALSE]
NoClaim == [okr |-> "none", agreement |-> 0, spec |-> 0, kr |-> 0,
            reserved |-> 0, spent |-> 0, settled |-> FALSE]
NoPolicy == [agreement |-> 0, managed |-> 0, max_calls |-> 0]
NoView == [okr |-> "none", version |-> 0]

Length(o) == Cardinality(DOMAIN okr[o].metrics)
Metric(o, k) == okr[o].metrics[k + 1]        \* key results count from 0

Init ==
  /\ okr = [o \in Okr |-> NoOkr]
  /\ ledger = [o \in Okr |-> [spent |-> 0, reserved |-> 0]]
  /\ claim = [c \in Command |-> NoClaim]
  /\ run = [c \in Command |-> "none"]
  /\ caps = {} /\ agreed = {} /\ assigned = {} /\ active_count = 0
  /\ policy = [o \in Okr |-> NoPolicy]
  /\ managed = [version |-> 1, control |-> FALSE, revoked |-> FALSE]
  /\ review = [o \in Okr |-> 0]
  /\ seen = [h \in Human |-> NoView]

-----------------------------------------------------------------------------
(* What the entry functions share. *)

\* assert_version, for a Human who signs what he last read.
Current(h, o) == seen[h].okr = o /\ seen[h].version = okr[o].version

\* changed
Changed(o, new) ==
  /\ okr[o].version < MaxVersion
  /\ okr' = [okr EXCEPT ![o] = [new EXCEPT !.version = okr[o].version + 1]]

\* host::assert_managed and the comparison of the managed Agent's version; the
\* Agent that agent-manager runs does not change here.
Managed(o) ==
  okr[o].agent = "bounded" =>
    managed.control /\ ~managed.revoked /\ managed.version = okr[o].managed

\* remaining_assignment_witness: a capability of the present agreement
Witness(o, k) ==
  /\ okr[o].state = "active" /\ okr[o].live
  /\ k >= okr[o].next /\ k < Length(o)
  /\ Managed(o)
  /\ <<o, okr[o].agreement>> \in caps

\* assert_measured
Measured(o, k) ==
  /\ Metric(o, k).command # NoCommand
  /\ Metric(o, k).fresh
  /\ Metric(o, k).met

\* host::assert_agent_execution_idle, of the Agent that runs commands
Idle == \A c \in Command : run[c] \in Settled \cup {"none"}

\* A run prepared or settled advances the Agent's execution revision, and with
\* it every acceptance the Host has signed is void.
Voided == [o \in Okr |-> 0]

\* settle
Settle(o, c, spent) ==
  /\ claim' = [claim EXCEPT ![c].spent = spent, ![c].settled = TRUE]
  /\ ledger' = [ledger EXCEPT ![o].reserved = @ - claim[c].reserved, ![o].spent = @ + spent]

\* The part of pause, achieve and archive that lets the Agent go.
Released(o) ==
  /\ assigned' = assigned \ {o}
  /\ active_count' = active_count - 1

-----------------------------------------------------------------------------
(* The agreement. *)

\* create_draft; an exact retry returns the original and changes nothing.
CreateDraft(o) ==
  /\ okr[o].state = "none"
  /\ \E n \in 1 .. MaxMetrics :
       Changed(o, [NoOkr EXCEPT !.state = "draft", !.spec = 1,
                                !.metrics = [i \in 1 .. n |-> Unmeasured]])
  /\ UNCHANGED <<ledger, claim, run, caps, policy, managed, review, active_count,
                 assigned, seen, agreed>>

\* The Host's signed acceptance of a handover at the state it observed.  The
\* review is itself a run of the Agent and voids the acceptances before it.
HostReview(o) ==
  /\ okr[o].state \in {"draft", "paused"} /\ ~managed.revoked
  /\ review' = [Voided EXCEPT ![o] = okr[o].version]
  /\ UNCHANGED <<okr, ledger, claim, run, caps, policy, managed, active_count,
                 assigned, seen, agreed>>

\* Fault: Resumption does not look at what is still reserved.
ActivatedUnaudited(o, a, version, limit) ==
  /\ okr[o].state \in {"draft", "paused"}
  /\ active_count < MaxActive
  /\ ledger[o].spent <= limit
  /\ active_count' = active_count + 1
  /\ assigned' = assigned \cup {o}
  /\ Changed(o, [okr[o] EXCEPT !.state = "active", !.agreement = @ + 1, !.agent = a,
                               !.managed = version, !.limit = limit, !.live = TRUE])
\* activate_reviewed
Activated(o, a, version, limit) ==
  /\ okr[o].state \in {"draft", "paused"}
  /\ active_count < MaxActive
  /\ ledger[o].spent + ledger[o].reserved <= limit
  /\ active_count' = active_count + 1
  /\ assigned' = assigned \cup {o}
  /\ Changed(o, [okr[o] EXCEPT !.state = "active", !.agreement = @ + 1, !.agent = a,
                               !.managed = version, !.limit = limit, !.live = TRUE])

\* handover::confirm_okr; the control of the Agent is confirmed with it.
ConfirmOkr(h, o) ==
  /\ Current(h, o)
  /\ Idle
  /\ review[o] = okr[o].version
  /\ review' = Voided
  /\ ~managed.revoked
  /\ managed' = [managed EXCEPT !.version = @ + 1, !.control = TRUE]
  /\ \E limit \in Limit : \E max_calls \in 1 .. limit :
       /\ Activated(o, "bounded", managed.version + 1, limit)
       /\ policy' = [policy EXCEPT ![o] = [agreement |-> okr[o].agreement + 1,
                                           managed |-> managed.version + 1,
                                           max_calls |-> max_calls]]
  /\ agreed' = agreed \cup {<<o, okr[o].agreement + 1>>}
  /\ UNCHANGED <<ledger, claim, run, caps, seen>>

\* assign_agent_manager: no Host review and no policy
AssignAgentManager(h, o) ==
  /\ Current(h, o)
  /\ \E limit \in Limit : Activated(o, "manager", 0, limit)
  /\ UNCHANGED <<ledger, claim, run, caps, policy, managed, review, seen, agreed>>

\* Fault: Any policy will do.
IssueCapabilityAnyPolicy(h, o) ==
  /\ Current(h, o)
  /\ okr[o].state = "active" /\ okr[o].live /\ okr[o].next < Length(o)
  /\ policy[o] # NoPolicy
  /\ Managed(o)
  /\ caps' = caps \cup {<<o, okr[o].agreement>>}
  /\ UNCHANGED <<okr, ledger, claim, run, policy, managed, review, active_count,
                 assigned, seen, agreed>>
\* issue_capability
IssueCapability(h, o) ==
  /\ Current(h, o)
  /\ okr[o].state = "active" /\ okr[o].live /\ okr[o].next < Length(o)
  /\ policy[o].agreement = okr[o].agreement
  /\ policy[o].managed = okr[o].managed
  /\ Managed(o)
  /\ caps' = caps \cup {<<o, okr[o].agreement>>}
  /\ UNCHANGED <<okr, ledger, claim, run, policy, managed, review, active_count,
                 assigned, seen, agreed>>

\* pause
Pause(h, o) ==
  /\ Current(h, o)
  /\ okr[o].state = "active"
  /\ Released(o)
  /\ Changed(o, [okr[o] EXCEPT !.state = "paused", !.agreement = @ + 1])
  /\ UNCHANGED <<ledger, claim, run, caps, policy, managed, review, seen, agreed>>

\* replace_spec
ReplaceSpec(h, o) ==
  /\ Current(h, o)
  /\ okr[o].state \in {"draft", "paused"}
  /\ \E n \in 1 .. MaxMetrics :
       Changed(o, [okr[o] EXCEPT !.metrics = [i \in 1 .. n |-> Unmeasured], !.next = 0,
                                 !.spec = @ + 1, !.agreement = @ + 1])
  /\ UNCHANGED <<ledger, claim, run, caps, policy, managed, review, active_count,
                 assigned, seen, agreed>>

\* archive
Archive(h, o) ==
  /\ Current(h, o)
  /\ okr[o].state \notin {"none", "archived"}
  /\ IF okr[o].state = "active" THEN Released(o) ELSE UNCHANGED <<assigned, active_count>>
  /\ Changed(o, [okr[o] EXCEPT !.state = "archived", !.agreement = @ + 1])
  /\ UNCHANGED <<ledger, claim, run, caps, policy, managed, review, seen, agreed>>

-----------------------------------------------------------------------------
(* The runs. *)

\* The budget prepare_command and prepare_remaining_command_v2 assert.
Affordable(o, amount) ==
  /\ amount <= policy[o].max_calls
  /\ ledger[o].spent + ledger[o].reserved + amount <= okr[o].limit

\* prepare_command_v2 for the present key result, prepare_scheduled_command_v2
\* for a later one; an exact retry finds its claim and changes nothing.
PrepareCommand(o, c, k) ==
  /\ Witness(o, k)
  /\ run[c] = "none"
  /\ \E amount \in Amount :
       /\ Affordable(o, amount)
       /\ claim' = [claim EXCEPT ![c] = [okr |-> o, agreement |-> okr[o].agreement,
                                         spec |-> okr[o].spec, kr |-> k,
                                         reserved |-> amount, spent |-> 0, settled |-> FALSE]]
       /\ ledger' = [ledger EXCEPT ![o].reserved = @ + amount]
  /\ run' = [run EXCEPT ![c] = "queued"]
  /\ review' = Voided
  /\ UNCHANGED <<okr, caps, policy, managed, active_count, assigned, seen, agreed>>

\* Fault: A command may begin under any key result that remains.
BeginnableAhead(o, c) ==
  /\ claim[c].okr = o /\ ~claim[c].settled
  /\ claim[c].agreement = okr[o].agreement
  /\ claim[c].kr >= okr[o].next
\* The claim begin_command requires.
Beginnable(o, c) ==
  /\ claim[c].okr = o /\ ~claim[c].settled
  /\ claim[c].agreement = okr[o].agreement
  /\ claim[c].kr = okr[o].next

\* begin_command
BeginCommand(o, c) ==
  /\ Witness(o, okr[o].next)
  /\ run[c] = "queued"
  /\ Beginnable(o, c)
  /\ run' = [run EXCEPT ![c] = "running"]
  /\ UNCHANGED <<okr, ledger, claim, caps, policy, managed, review, active_count,
                 assigned, seen, agreed>>

\* finish_command; an outcome that needs confirmation is not settled.
FinishCommand(o, c) ==
  /\ run[c] = "running" /\ claim[c].okr = o
  /\ \/ \E final \in {"succeeded", "failed", "cancelled"}, spent \in 0 .. claim[c].reserved :
          /\ run' = [run EXCEPT ![c] = final]
          /\ Settle(o, c, spent)
     \/ /\ run' = [run EXCEPT ![c] = "unknown"]
        /\ UNCHANGED <<claim, ledger>>
  /\ review' = Voided
  /\ UNCHANGED <<okr, caps, policy, managed, active_count, assigned, seen, agreed>>

\* request_stop, of a run that has not started; one that runs is only asked.
RequestStop(o, c) ==
  /\ run[c] = "queued" /\ claim[c].okr = o
  /\ run' = [run EXCEPT ![c] = "cancelled"]
  /\ Settle(o, c, 0)
  /\ review' = Voided
  /\ UNCHANGED <<okr, caps, policy, managed, active_count, assigned, seen, agreed>>

-----------------------------------------------------------------------------
(* The measurements. *)

\* Fault: The evidence may come from a run of an earlier agreement.
EvidenceOld(o, c, k) == run[c] = "succeeded" /\ claim[c].okr = o /\ claim[c].kr = k
\* What observe requires of the run it cites.
Evidence(o, c, k) ==
  /\ run[c] = "succeeded" /\ claim[c].okr = o
  /\ claim[c].agreement = okr[o].agreement
  /\ claim[c].kr = k

\* observe
Observe(o, c) ==
  LET k == okr[o].next IN
  /\ Witness(o, k)
  /\ Evidence(o, c, k)
  /\ \E met \in BOOLEAN :
       Changed(o, [okr[o] EXCEPT !.metrics[k + 1] =
                     [command |-> c, met |-> met, fresh |-> TRUE, verified |-> FALSE]])
  /\ UNCHANGED <<ledger, claim, run, caps, policy, managed, review, active_count,
                 assigned, seen, agreed>>

\* verify_kr
VerifyKr(h, o) ==
  LET k == okr[o].next IN
  /\ Current(h, o)
  /\ okr[o].state = "active" /\ k < Length(o)
  /\ Measured(o, k)
  /\ Changed(o, [okr[o] EXCEPT !.metrics[k + 1].verified = TRUE, !.next = k + 1])
  /\ UNCHANGED <<ledger, claim, run, caps, policy, managed, review, active_count,
                 assigned, seen, agreed>>

\* achieve
Achieve(h, o) ==
  /\ Current(h, o)
  /\ okr[o].state = "active" /\ okr[o].next = Length(o)
  /\ \A k \in 0 .. Length(o) - 1 : Metric(o, k).verified /\ Measured(o, k)
  /\ Released(o)
  /\ Changed(o, [okr[o] EXCEPT !.state = "achieved", !.agreement = @ + 1])
  /\ UNCHANGED <<ledger, claim, run, caps, policy, managed, review, seen, agreed>>

-----------------------------------------------------------------------------
(* Readers, the clock and the Host's other records. *)

\* getOkr, before a Human reviews and signs
Read(h, o) ==
  /\ okr[o].state # "none"
  /\ seen' = [seen EXCEPT ![h] = [okr |-> o, version |-> okr[o].version]]
  /\ UNCHANGED <<okr, ledger, claim, run, caps, policy, managed, review, active_count,
                 assigned, agreed>>

\* A sample passes its max_age_ms, or the agreement its expires_at_ms.
Tick(o) ==
  /\ \/ \E i \in DOMAIN okr[o].metrics :
          /\ okr[o].metrics[i].fresh
          /\ okr' = [okr EXCEPT ![o].metrics[i].fresh = FALSE]
     \/ okr[o].live /\ okr' = [okr EXCEPT ![o].live = FALSE]
  /\ UNCHANGED <<ledger, claim, run, caps, policy, managed, review, active_count,
                 assigned, seen, agreed>>

\* host::revoke_agent, and host::rebind_agent after it
ChangeAgent ==
  /\ \/ /\ ~managed.revoked
        /\ managed' = [managed EXCEPT !.version = @ + 1, !.revoked = TRUE]
     \/ /\ managed.revoked /\ Idle
        /\ managed' = [version |-> managed.version + 1, control |-> FALSE, revoked |-> FALSE]
  /\ managed.version < MaxVersion
  /\ review' = Voided
  /\ UNCHANGED <<okr, ledger, claim, run, caps, policy, active_count, assigned, seen, agreed>>

Agreements ==
  \E o \in Okr :
    \/ CreateDraft(o)
    \/ HostReview(o)
    \/ \E h \in Human : \/ Read(h, o) \/ ConfirmOkr(h, o) \/ Pause(h, o)
Runs ==
  \E o \in Okr :
    \/ \E h \in Human : IssueCapability(h, o)
    \/ \E c \in Command : \/ \E k \in Index : PrepareCommand(o, c, k)
                          \/ BeginCommand(o, c) \/ FinishCommand(o, c) \/ RequestStop(o, c)
Measurements ==
  \E o \in Okr :
    \/ \E c \in Command : Observe(o, c)
    \/ \E h \in Human : VerifyKr(h, o) \/ Achieve(h, o)

Next ==
  \/ Agreements
  \/ Runs
  \/ Measurements
  \/ \E o \in Okr, h \in Human : ReplaceSpec(h, o)
  \/ \E o \in Okr, h \in Human : Archive(h, o)
  \/ \E o \in Okr, h \in Human : AssignAgentManager(h, o)
  \/ \E o \in Okr : Tick(o)
  \/ ChangeAgent

Spec == Init /\ [][Next]_vars

-----------------------------------------------------------------------------
(* Properties. *)

ReservedOf(o) == {c \in Command : claim[c].okr = o /\ ~claim[c].settled}
SpentOf(o) == {c \in Command : claim[c].okr = o /\ claim[c].settled}

\* The objective's totals are those of its claims through every reservation,
\* stop and settlement, and an active agreement never commits more than its
\* limit - also one that was resumed with a lower limit while runs of an
\* earlier agreement were still unsettled (okr.move settle, activate_reviewed).
BudgetExact ==
  \A o \in Okr :
    /\ ledger[o].reserved = Cardinality(Blocks(ReservedOf(o), [c \in Command |-> claim[c].reserved]))
    /\ ledger[o].spent = Cardinality(Blocks(SpentOf(o), [c \in Command |-> claim[c].spent]))
    /\ okr[o].state = "active" => ledger[o].spent + ledger[o].reserved <= okr[o].limit

\* A run that was scheduled ahead does not start before every key result before
\* its own is verified, whatever was paused, resumed or replaced in between
\* (begin_command; claims of an earlier specification count no more).
StartedInOrder ==
  \A c \in Command :
    LET o == claim[c].okr IN
    run[c] \in Started /\ claim[c].spec = okr[o].spec =>
      \A k \in 0 .. claim[c].kr - 1 : Metric(o, k).verified

\* Every measurement is one of a run that succeeded, was reserved for this key
\* result of this objective, and under the present specification (observe,
\* replace_spec).
MeasuredByOwnRun ==
  \A o \in Okr : \A k \in 0 .. Length(o) - 1 :
    LET c == Metric(o, k).command IN
    c # NoCommand => /\ run[c] = "succeeded"
                     /\ claim[c].okr = o /\ claim[c].kr = k
                     /\ claim[c].spec = okr[o].spec

\* No command is reserved under an agreement the Host did not review: the
\* HandoverPolicy of an earlier agreement outlives it and must not count for an
\* agreement made with an agent-manager Agent (issue_capability).
ReservedAfterReview ==
  \A c \in Command : claim[c].okr # "none" => <<claim[c].okr, claim[c].agreement>> \in agreed
=============================================================================
