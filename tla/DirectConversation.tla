-------------------------- MODULE DirectConversation --------------------------
(***************************************************************************)
(* The App's side of direct messages: the window DirectAgentConversation,  *)
(* its controller NativeDirectAgent and the request locators it keeps in   *)
(* localStorage, over the contract DirectPermission.                       *)
(*                                                                         *)
(* Several windows of one device share the durable transaction journal and *)
(* localStorage.  A window runs one operation at a time (`flight'); every  *)
(* await on which something else can change is the end of a step.  Closing *)
(* a window, hiding it or locking the device drops all it holds in memory  *)
(* while its operation goes on until it next asserts that it is live.      *)
(*                                                                         *)
(* The transaction manager is what SelfPay shows of it: one transaction    *)
(* per request is ever broadcast, whoever asks, and it lands later, fails  *)
(* or never arrives.  Its digest is the request it was recorded for.       *)
(***************************************************************************)
EXTENDS DirectPermission

CONSTANTS
  Window,
  Operation,    \* the DirectOperations users ask for
  NoOperation,
  Course,       \* where conversations start, and which windows ask for what
  MaxUnresolved \* the rows DirectUnresolvedRequests holds (64)

ASSUME OperationAssumption ==
  /\ NoOperation \notin Operation
  /\ \A o \in Operation :
       \/ o.kind = "permission" /\ o.policy \in Policy
       \/ o.kind = "revoke"
       \/ o.kind = "decision" /\ o.m \in Message /\ o.approve \in BOOLEAN
       \/ o.kind \in {"message", "approval", "capability", "run", "stop"} /\ o.m \in Message
ASSUME WindowAssumption == IsFiniteSet(Window)
\* policy: of the permission; written: the messages stored before; asked:
\* those with a requested approval.
ASSUME CourseAssumption ==
  /\ Course \subseteq [windows : SUBSET Window, operations : SUBSET Operation,
                       policy : Policy, written : SUBSET Message, asked : SUBSET Message]
  /\ \A c \in Course : c.asked \subseteq c.written

VARIABLES
  course,      \* the course the conversation takes
  journal,     \* the durable transaction journal, with what became of the transaction
  unresolved,  \* DirectUnresolvedRequests, in localStorage
  locator,     \* the one request `remember' keeps, in localStorage
  signed,      \* the commands that were signed
  delivered,   \* how often each command was sent to the Host
  win          \* the windows

chainVars == vars
convVars == <<journal, unresolved, locator, signed, delivered, win>>
allVars == <<vars, convVars, course>>

\* A quote is for one operation, built from what the source was.
Pc == {"idle", "prepare", "submit", "await", "send", "marked"}
NoView == [m |-> NoMessage, current |-> FALSE, version |-> 0, settled |-> FALSE,
           superseded |-> FALSE]
Closed == [ready |-> FALSE, live |-> FALSE, pc |-> "idle", op |-> NoOperation,
           fee |-> NoOperation, pin |-> << >>, version |-> 0, cmd |-> NoCommand,
           view |-> NoView, receipt |-> NoOperation, pending |-> NoCommand]
NoEntry == [status |-> "none", cmd |-> NoCommand, version |-> 0]

ConversationInit ==
  /\ course \in Course
  /\ perm = [version |-> 1, source |-> 0, revoked |-> FALSE, expired |-> FALSE,
             kinds |-> course.policy.kinds, max_calls |-> course.policy.max_calls,
             budget_limit |-> course.policy.budget_limit, spent |-> 0, reserved |-> 0,
             approved_spent |-> 0, approved_reserved |-> 0]
  /\ message \in [Message -> [version : {0, 1}, writer : Device \cup {NoDevice},
                              expired : {FALSE}]]
  /\ \A m \in Message :
       IF m \in course.written THEN message[m].version = 1 /\ message[m].writer \in Device
       ELSE message[m].version = 0 /\ message[m].writer = NoDevice
  /\ approval = [m \in Message |->
       IF m \in course.asked
       THEN [NoApproval EXCEPT !.state = "requested", !.version = 1] ELSE NoApproval]
  /\ message_runs = [m \in Message |-> NoCommand]
  /\ run = [c \in Command |-> NoRun]
  /\ cap = [k \in Cap |-> NoCap]
  /\ workspace = [protected |-> FALSE, revision |-> 0]
  /\ source = 0 /\ grant = Device
  /\ journal = [o \in Operation |-> NoEntry]
  /\ unresolved = {} /\ locator = NoOperation /\ signed = {}
  /\ delivered = [c \in Command |-> 0]
  /\ win = [w \in Window |-> Closed]

-----------------------------------------------------------------------------
(* The transaction manager.                                                *)

Known == {"confirmed", "failed"}

\* What query may answer for a recorded request: the chain's answer, or that
\* it is unknown, which is all there is while the transaction is under way.
Answers(o) ==
  IF journal[o].status \in Known THEN {journal[o].status, "unknown"} ELSE {"unknown"}

\* DirectUnresolvedRequests follows messages, runs and decisions.
Tracked(o) == o.kind \in {"message", "run", "decision"}

\* record: an unknown outcome is kept, a known one removed.
Recorded(rows, o, status) ==
  IF ~Tracked(o) THEN rows ELSE IF status = "unknown" THEN rows \cup {o} ELSE rows \ {o}

\* The rows `write' refuses to store.
Storable(rows) == Cardinality(rows) <= MaxUnresolved

\* refresh: every row is queried, and those with a receipt leave.
Refreshed(rows) ==
  {left \in SUBSET rows : \A o \in rows \ left : journal[o].status \in Known}

-----------------------------------------------------------------------------
(* What a window reads.                                                    *)

\* The source pin: permission, human, membership, Agent, grant, workspace.
Pin == <<perm, source, grant, workspace>>

\* read and select: the permission as it stands, and one message with its run.
Read(w, m) ==
  /\ win[w].ready /\ win[w].pc = "idle"
  /\ message[m].version > 0
  /\ LET c == message_runs[m]
     IN win' = [win EXCEPT ![w].view =
          [m |-> m, current |-> Current, version |-> perm.version,
           settled |-> c # NoCommand /\ message[m].version = perm.version
                         /\ run[c].state = "succeeded" /\ run[c].settled,
           superseded |-> c = NoCommand /\ approval[m].state # "none"
                            /\ message[m].version < perm.version]]
  /\ UNCHANGED <<chainVars, journal, unresolved, locator, signed, delivered>>

\* Fault: any message that has no run passes for superseded.
CanComposeAnyVersion(w, o) ==
  LET v == win[w].view
  IN /\ v.current /\ o.kind # "message" /\ o.m = v.m
     /\ \/ o.kind = "run" /\ v.settled
        \/ o.kind = "decision" /\ message_runs[o.m] = NoCommand

\* canComposeAfterSettledRun and canComposeAfterSupersededDecision, on the
\* view that was read.
CanComposeAfter(w, o) ==
  LET v == win[w].view
  IN /\ v.current /\ o.kind # "message" /\ o.m = v.m
     /\ \/ o.kind = "run" /\ v.settled
        \/ o.kind = "decision" /\ v.superseded

-----------------------------------------------------------------------------
(* Opening and closing.                                                    *)

Idle(w) == win[w].pc = "idle"

\* Fault: the remembered request is not asked about.
LoadUnqueried(w) ==
  /\ ~win[w].ready /\ Idle(w)
  /\ unresolved' \in Refreshed(unresolved)
  /\ win' = [win EXCEPT ![w] = [Closed EXCEPT !.ready = TRUE, !.live = TRUE]]
  /\ UNCHANGED <<chainVars, journal, locator, signed, delivered>>

\* load: the request that was last remembered is queried before anything else.
Load(w) ==
  /\ ~win[w].ready /\ Idle(w)
  /\ \E rows \in IF locator = NoOperation \/ journal[locator].status = "none"
                 THEN {unresolved}
                 ELSE {Recorded(unresolved, locator, a) : a \in Answers(locator)} :
       /\ Storable(rows)
       /\ unresolved' \in Refreshed(rows)
  /\ win' = [win EXCEPT ![w] = [Closed EXCEPT !.ready = TRUE, !.live = TRUE]]
  /\ UNCHANGED <<chainVars, journal, locator, signed, delivered>>

\* close: what is in memory goes, the operation under way no longer is live.
Close(w) ==
  /\ win[w].ready
  /\ win' = [win EXCEPT ![w] = [Closed EXCEPT !.pc = win[w].pc, !.op = win[w].op,
                                  !.pin = win[w].pin, !.version = win[w].version,
                                  !.cmd = win[w].cmd]]
  /\ UNCHANGED <<chainVars, journal, unresolved, locator, signed, delivered>>

\* An operation that threw: perform drops the quote and what was read, and
\* keeps the receipt and the delivery the controller holds.
Thrown(w) ==
  [win[w] EXCEPT !.pc = "idle", !.op = NoOperation, !.fee = NoOperation,
                 !.pin = << >>, !.cmd = NoCommand, !.version = 0, !.view = NoView]

\* A step may throw: a failed read, a changed source, a closed window.  The
\* wait for an outcome only does once it is over or the window closed.
Throw(w) ==
  /\ win[w].pc \in {"prepare", "submit", "await", "send", "marked"}
  /\ win[w].pc = "await" => ~win[w].live \/ journal[win[w].op].status \in Known
  /\ win' = [win EXCEPT ![w] = Thrown(w)]
  /\ UNCHANGED <<chainVars, journal, unresolved, locator, signed, delivered>>

-----------------------------------------------------------------------------
(* A quote.                                                                *)

UnresolvedDecision(rows, m) == \E o \in rows : o.kind = "decision" /\ o.m = m

\* What prepare and submit of the window ask of the requests whose outcome is
\* unknown, and the ones they keep.
Unblocked(w, o, rows) ==
  CASE o.kind = "message" -> \A u \in rows : CanComposeAfter(w, u)
    [] o.kind = "decision" -> ~UnresolvedDecision(rows, o.m)
    [] OTHER -> TRUE
Kept(o, rows) == IF o.kind = "message" THEN {} ELSE rows

\* prepare, up to the controller.
Prepare(w, o) ==
  /\ win[w].ready /\ Idle(w) /\ win[w].fee = NoOperation
  /\ LET known == IF win[w].receipt = NoOperation THEN unresolved
                  ELSE Recorded(unresolved, win[w].receipt, "unknown")
     IN /\ Storable(known)
        /\ \E rows \in Refreshed(known) :
             /\ Unblocked(w, o, rows)
             /\ unresolved' = Kept(o, rows)
  /\ win' = [win EXCEPT ![w].pc = "prepare", ![w].op = o]
  /\ UNCHANGED <<chainVars, journal, locator, signed, delivered>>

\* The controller's own conditions for building the transaction.
Buildable(o) ==
  CASE o.kind = "permission" -> perm.version = o.version /\ FitsLimit(o.policy)
    [] o.kind = "revoke" -> perm.version = o.version /\ ~perm.revoked
    [] o.kind = "stop" -> /\ message_runs[o.m] # NoCommand
                          /\ run[message_runs[o.m]].state \in {"queued", "running", "needs_confirmation"}
                          /\ ~run[message_runs[o.m]].stop
    [] o.kind = "message" -> Current /\ message[o.m].version = 0
    [] o.kind = "approval" -> /\ Current /\ MessageCurrent(o.m) /\ ~NormalAllowed(o.m)
                              /\ approval[o.m].state = "none" /\ message_runs[o.m] = NoCommand
    [] o.kind = "decision" -> /\ Current /\ MessageCurrent(o.m)
                              /\ approval[o.m].state = "requested"
                              /\ message_runs[o.m] = NoCommand
    [] o.kind \in {"capability", "run"} ->
         /\ Current /\ MessageCurrent(o.m) /\ message_runs[o.m] = NoCommand
         /\ IF approval[o.m].state = "none" THEN NormalAllowed(o.m)
            ELSE approval[o.m].state = "approved"

\* NativeDirectAgent.prepare finds an earlier attempt of the same request: it
\* is what the user is told of, and no quote is made.
PriorFound(w) ==
  LET o == win[w].op
  IN /\ win[w].pc = "prepare" /\ win[w].live
     /\ journal[o].status # "none"
     /\ \E a \in Answers(o) :
          /\ Storable(Recorded(unresolved, o, a))
          /\ unresolved' = Recorded(unresolved, o, a)
          /\ win' = [win EXCEPT ![w].pc = "idle", ![w].op = NoOperation,
                       ![w].receipt = IF a = "unknown" THEN o ELSE NoOperation]
     /\ UNCHANGED <<chainVars, journal, locator, signed, delivered>>

\* Otherwise it builds, signs a new command for a run, and quotes.
Quote(w, c) ==
  LET o == win[w].op
  IN /\ win[w].pc = "prepare" /\ win[w].live
     /\ journal[o].status = "none"
     /\ Buildable(o)
     /\ IF o.kind = "run" THEN /\ c \in Command \ signed /\ MessageOf[c] = o.m
                               /\ cap[CapOf[c]].version > 0
        ELSE c = NoCommand
     /\ signed' = signed \cup ({c} \cap Command)
     /\ locator' = o
     /\ win' = [win EXCEPT ![w].pc = "idle", ![w].op = NoOperation, ![w].fee = o,
                  ![w].pin = Pin, ![w].version = perm.version, ![w].cmd = c,
                  ![w].receipt = NoOperation]
     /\ UNCHANGED <<chainVars, journal, unresolved, delivered>>

CancelQuote(w) ==
  /\ Idle(w) /\ win[w].fee # NoOperation
  /\ win' = [win EXCEPT ![w].fee = NoOperation, ![w].pin = << >>, ![w].cmd = NoCommand,
                        ![w].version = 0]
  /\ UNCHANGED <<chainVars, journal, unresolved, locator, signed, delivered>>

-----------------------------------------------------------------------------
(* A submission.                                                           *)

\* submit, up to the controller: decisions and messages look again at what is
\* unknown.
Submit(w) ==
  LET o == win[w].fee
  IN /\ win[w].ready /\ Idle(w) /\ o # NoOperation
     /\ IF o.kind \in {"message", "decision"}
        THEN \E rows \in Refreshed(unresolved) :
               /\ Unblocked(w, o, rows)
               /\ unresolved' = Kept(o, rows)
        ELSE UNCHANGED unresolved
     /\ win' = [win EXCEPT ![w].pc = "submit", ![w].op = o]
     /\ UNCHANGED <<chainVars, journal, locator, signed, delivered>>

\* The controller's submit: the source is as quoted before and after signing,
\* the window is live, and the manager either finds the request recorded
\* already or records and broadcasts this transaction.
Broadcast(w) ==
  LET o == win[w].op
  IN /\ win[w].pc = "submit" /\ win[w].live
     /\ Pin = win[w].pin
     /\ journal' = IF journal[o].status # "none" THEN journal
                   ELSE [journal EXCEPT ![o] = [status |-> "sent", cmd |-> win[w].cmd,
                                                version |-> win[w].version]]
     /\ win' = [win EXCEPT ![w].pc = "await"]
     /\ UNCHANGED <<chainVars, unresolved, locator, signed, delivered>>

\* submitOnce, after a run is confirmed: it has to be the own command's.
OwnRun(w, o) == o.kind = "run" /\ message_runs[o.m] = win[w].cmd

\* The outcome reaches the window: a run that is confirmed as its own becomes
\* the pending delivery of the controller, and the request is recorded.
Outcome(w, a) ==
  LET o == win[w].op
  IN /\ win[w].pc = "await" /\ win[w].live
     /\ a \in Answers(o)
     /\ o.kind = "run" /\ a = "confirmed" => OwnRun(w, o)
     /\ Storable(Recorded(unresolved, o, a))
     /\ unresolved' = Recorded(unresolved, o, a)
     /\ win' = [win EXCEPT ![w] =
          [Thrown(w) EXCEPT !.receipt = IF a = "unknown" THEN o ELSE NoOperation,
                            !.view = win[w].view,
                            !.pending = IF o.kind = "run" /\ a = "confirmed"
                                        THEN win[w].cmd ELSE win[w].pending]]
     /\ UNCHANGED <<chainVars, journal, locator, signed, delivered>>

\* The same, when the extra row cannot be stored: the receipt stays in memory.
OutcomeUnstored(w) ==
  LET o == win[w].op
  IN /\ win[w].pc = "await" /\ win[w].live
     /\ ~Storable(Recorded(unresolved, o, "unknown"))
     /\ win' = [win EXCEPT ![w] = [Thrown(w) EXCEPT !.receipt = o]]
     /\ UNCHANGED <<chainVars, journal, unresolved, locator, signed, delivered>>

-----------------------------------------------------------------------------
(* Delivery to the Host.                                                   *)

\* send, up to the durable mark: the run is the pending one, still queued, and
\* everything it was reserved under still holds.
Deliverable(c) ==
  /\ message_runs[MessageOf[c]] = c
  /\ run[c].state = "queued" /\ ~run[c].stop
  /\ Current /\ run[c].version = perm.version
  /\ ~run[c].approved =>
       /\ KindOf[MessageOf[c]] \in perm.kinds /\ AmountOf[MessageOf[c]] <= perm.max_calls
       /\ KindOf[MessageOf[c]] \in WriteKind => ~workspace.protected

Send(w) ==
  LET c == win[w].pending
  IN /\ win[w].ready /\ Idle(w) /\ c # NoCommand
     /\ win[w].fee = NoOperation /\ win[w].receipt = NoOperation
     /\ Deliverable(c)
     /\ win' = [win EXCEPT ![w].pc = "send", ![w].pin = Pin]
     /\ UNCHANGED <<chainVars, journal, unresolved, locator, signed, delivered>>

\* Fault: the delivery is forgotten only after the Host answered.
AttemptedLater(w) == [win[w] EXCEPT !.pc = "marked", !.cmd = win[w].pending]

\* attempted is set, for good, before anything is sent.
Attempted(w) ==
  [win[w] EXCEPT !.pc = "marked", !.cmd = win[w].pending, !.pending = NoCommand]

RunOperation(m) == CHOOSE o \in Operation : o.kind = "run" /\ o.m = m

MarkAttempted(w) ==
  /\ win[w].pc = "send" /\ win[w].live
  /\ Pin = win[w].pin
  /\ locator' = RunOperation(MessageOf[win[w].pending])
  /\ win' = [win EXCEPT ![w] = Attempted(w)]
  /\ UNCHANGED <<chainVars, journal, unresolved, signed, delivered>>

\* The one request to the Host, after one more look at the source.
Deliver(w) ==
  /\ win[w].pc = "marked" /\ win[w].live
  /\ Pin = win[w].pin
  /\ delivered' = [delivered EXCEPT ![win[w].cmd] = @ + 1]
  /\ win' = [win EXCEPT ![w].pc = "idle", ![w].pin = << >>, ![w].cmd = NoCommand]
  /\ UNCHANGED <<chainVars, journal, unresolved, locator, signed>>

-----------------------------------------------------------------------------
(* The chain, and the Host.                                                *)

\* What the transaction of a request does when it is executed.
Effect(o) ==
  LET e == journal[o]
  IN \E d \in Device :
       \/ o.kind = "permission" /\ UpdatePermission(d, o.version, o.policy)
       \/ o.kind = "revoke" /\ RevokePermission(d, o.version)
       \/ o.kind = "message" /\ CreateMessage(o.m, d, e.version)
       \/ o.kind = "approval" /\ RequestApproval(o.m, d)
       \/ o.kind = "decision" /\ DecideApproval(o.m, d, o.approve)
       \/ /\ o.kind = "capability"
          /\ \E k \in Cap : IF approval[o.m].state = "none"
                            THEN IssueCapability(k, d, e.version, 10000)
                            ELSE IssueApprovedCapability(k, d, o.m)
       \/ /\ o.kind = "run"
          /\ IF cap[CapOf[e.cmd]].approval = NoMessage THEN PrepareMessage(e.cmd)
             ELSE PrepareApprovedMessage(e.cmd)
       \/ o.kind = "stop" /\ message_runs[o.m] # NoCommand /\ RequestStop(message_runs[o.m], d)

Land(o) ==
  /\ journal[o].status = "sent"
  /\ Effect(o)
  /\ journal' = [journal EXCEPT ![o].status = "confirmed"]
  /\ UNCHANGED <<unresolved, locator, signed, delivered, win>>

\* It aborts and changes nothing.
Abort(o) ==
  /\ journal[o].status = "sent"
  /\ journal' = [journal EXCEPT ![o].status = "failed"]
  /\ UNCHANGED <<chainVars, unresolved, locator, signed, delivered, win>>

\* The Host starts what it was sent and finishes it.
HostRuns ==
  /\ \E c \in Command :
       \/ delivered[c] > 0 /\ BeginMessage(c)
       \/ FinishMessage(c, "succeeded", run[c].reserved)
  /\ UNCHANGED convVars

ConversationStep ==
  \/ \E w \in course.windows :
       \/ Load(w) \/ Close(w) \/ Throw(w)
       \/ \E m \in Message : Read(w, m)
       \/ \E o \in course.operations : Prepare(w, o)
       \/ PriorFound(w) \/ CancelQuote(w) \/ Submit(w) \/ Broadcast(w)
       \/ \E c \in Command \cup {NoCommand} : Quote(w, c)
       \/ \E a \in Known \cup {"unknown"} : Outcome(w, a)
       \/ OutcomeUnstored(w)
       \/ Send(w) \/ MarkAttempted(w) \/ Deliver(w)
  \/ \E o \in course.operations : Land(o) \/ Abort(o)
  \/ HostRuns

ConversationNext == ConversationStep /\ UNCHANGED course

ConversationSpec == ConversationInit /\ [][ConversationNext]_allVars

-----------------------------------------------------------------------------
(* Properties.                                                             *)

\* Whatever windows compete, close, reopen or lose answers, the Host is sent
\* at most one request for a message, and it is the command its run was
\* reserved with: submitOnce and send of NativeDirectAgent.
HostRequestOnce ==
  \A m \in Message :
    /\ \A c, d \in Command :
         MessageOf[c] = m /\ MessageOf[d] = m /\ delivered[c] > 0 /\ delivered[d] > 0 => c = d
    /\ \A c \in Command :
         MessageOf[c] = m => /\ delivered[c] <= 1
                             /\ delivered[c] = 1 => message_runs[m] = c

\* A request leaves the list of unknown ones only when it was executed or
\* failed, or when it can have no further effect: its run is settled, or its
\* message belongs to a superseded permission and has no run: refresh, and
\* canComposeAfterResolvedOriginal on what the window read some time ago.
Harmless(o) ==
  \/ journal[o].status \in Known
  \/ o.kind = "run" /\ message_runs[o.m] # NoCommand /\ run[message_runs[o.m]].settled
  \/ o.kind = "decision" /\ message_runs[o.m] = NoCommand
       /\ message[o.m].version < perm.version
RestrictionsDropSafely ==
  [][\A o \in unresolved \ unresolved' : Harmless(o)]_allVars

\* Windows are used one at a time.  Two that are open together can break what
\* follows: the quote of one replaces the locator of a request the other waits
\* for, and both look for unknown decisions before either has recorded its own.
OneWindow == Cardinality(course.windows) <= 1

\* v020-review-window-and-approval-queue.md:44 and load, for one window: a
\* request that was broadcast and whose outcome it does not wait for is among
\* the unknown ones, or is the one it asks about when it is opened again, until
\* the request is harmless.
SubmittedIsLocated ==
  OneWindow =>
    \A o \in Operation :
      Tracked(o) /\ journal[o].status = "sent" =>
        \/ o \in unresolved \/ locator = o \/ Harmless(o)
        \/ \E w \in Window : \/ win[w].pc = "await" /\ win[w].op = o /\ win[w].live
                             \/ win[w].receipt = o
=============================================================================
