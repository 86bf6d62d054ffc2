------------------------------ MODULE OkrRunner ------------------------------
(***************************************************************************)
(* The device side of an objective's runs: NativeFileOkrRunner of the SDK  *)
(* (okr-runner.ts), its fee-paying submitter (selfpay-okr-submit.ts), the  *)
(* App's NativeOkrRunner around them, and the two callers of its step: the *)
(* dialog OkrContinuation, where a person reads, prepares, sends and       *)
(* schedules, and the autonomy session of okr-autonomy.ts, which does the  *)
(* same by itself.  The objective is the contract of Objective, from an    *)
(* agreement on, its capabilities issued.                                  *)
(*                                                                         *)
(* A window is one dialog or session with its runner.  Windows of a device *)
(* share its key, its transaction journal, its delivery journal and the    *)
(* locator the dialog keeps in localStorage.  A flight is one call; every  *)
(* await at which another actor can change what was read is a step.  The   *)
(* journal and broadcast are SelfPay's: a request is "pending" until its   *)
(* transaction executes or aborts.                                         *)
(***************************************************************************)
EXTENDS Objective

CONSTANTS
  Person, AutoSession,    \* windows: dialogs and autonomy sessions
  Device, DeviceOf,
  Mode             \* the ways a person may choose for a delivery

Window == Person \cup AutoSession

ASSUME RunnerAssumption ==
  /\ Person \cap AutoSession = {} /\ "none" \notin Device
  /\ DeviceOf \in [Window -> Device]
  /\ Mode \subseteq {"coordinator", "chain"}
  /\ Limit # {} /\ MaxVersion >= 2   \* an agreed objective is at version 2

VARIABLES
  ticket,       \* the encrypted ticket records, by name: the command of each
  journal,      \* ticket requests of a device, by name
  dispatch,     \* chain-delivery requests of a device, by command
  pool,         \* transactions broadcast and not executed
  signed,       \* commands signed: the device, or "none"
  published,    \* commands with a delivery on chain
  sent,         \* requests sent to the Coordinator: <<device, command, how many>>
  claimed,      \* IndexedDbOkrDeliveryJournal of a device
  stored,       \* the locator of a device in localStorage, by objective
  locator,      \* the locator of a dialog
  view,         \* the queued run a dialog shows, or NoCommand
  unknown,      \* unknownSubmissions of a window
  flight        \* the flight of a window

records == <<ticket, journal, dispatch, pool, signed, published, sent>>
local == <<claimed, stored, locator, view, unknown, flight>>
all == <<vars, records, local>>

\* okrRunnerTicketName: objective, agreement and key result
Name == Okr \X (0 .. MaxVersion) \X Index
NoName == <<"none", 0, 0>>
Request == {"none", "pending", "confirmed", "failed"}
Attempted == {"unset", "no", "yes"}
NoLocator == [name |-> NoName, attempted |-> "unset"]
NoInput == [create |-> FALSE, release |-> FALSE, expect |-> NoCommand, mode |-> "coordinator"]
Landed == [pc |-> "idle", call |-> "none", input |-> NoInput, name |-> NoName, version |-> 0,
           prior |-> "none", command |-> NoCommand, found |-> NoCommand, receipt |-> "none",
           status |-> "none", saved |-> NoLocator, pin |-> <<>>]

\* The agreement on n key results has been confirmed and its capabilities issued.
Agreed(n) ==
  [NoOkr EXCEPT !.state = "active", !.version = 2, !.agreement = 1, !.spec = 1, !.managed = 2,
                !.metrics = [i \in 1 .. n |-> Unmeasured],
                !.limit = CHOOSE l \in Limit : TRUE, !.live = TRUE]
RunnerInit ==
  /\ \E n \in 1 .. MaxMetrics : okr = [o \in Okr |-> Agreed(n)]
  /\ policy = [o \in Okr |-> [agreement |-> 1, managed |-> 2, max_calls |-> okr[o].limit]]
  /\ managed = [version |-> 2, control |-> TRUE, revoked |-> FALSE]
  /\ caps = Okr \X {1} /\ agreed = Okr \X {1}
  /\ assigned = Okr /\ active_count = Cardinality(Okr)
  /\ ledger = [o \in Okr |-> [spent |-> 0, reserved |-> 0]]
  /\ claim = [c \in Command |-> NoClaim] /\ run = [c \in Command |-> "none"]
  /\ review = Voided /\ seen = [h \in Human |-> NoView]
  /\ ticket = [n \in Name |-> NoCommand]
  /\ journal = [d \in Device |-> [n \in Name |-> "none"]]
  /\ dispatch = [d \in Device |-> [c \in Command |-> "none"]]
  /\ pool = {} /\ published = {}
  /\ signed = [c \in Command |-> "none"]
  /\ sent = [d \in Device |-> [c \in Command |-> 0]]
  /\ claimed = [d \in Device |-> {}]
  /\ stored = [d \in Device |-> [o \in Okr |-> NoLocator]]
  /\ locator = [w \in Person |-> NoLocator]
  /\ view = [w \in Person |-> NoCommand]
  /\ unknown = [w \in Window |-> {}]
  /\ flight = [w \in Window |-> Landed]

-----------------------------------------------------------------------------
(* Reads. *)

NameOf(o, k) == <<o, okr[o].agreement, k>>

\* lifecycle: neither over, paused, expired, complete nor awaiting verification
Advances(o, k) ==
  /\ okr[o].state = "active" /\ okr[o].live
  /\ k < Length(o) /\ Metric(o, k).command = NoCommand

\* The okr that was read is the present one.
Unchanged(w) ==
  LET o == flight[w].name[1] IN okr[o].state = "active" /\ okr[o].version = flight[w].version

\* What policyPin refuses: another agreement, key result, policy or device.
Pinned(w, c, scheduled) ==
  LET o == claim[c].okr IN
  /\ okr[o].state = "active" /\ okr[o].live
  /\ claim[c].agreement = okr[o].agreement
  /\ IF scheduled THEN claim[c].kr >= okr[o].next ELSE claim[c].kr = okr[o].next
  /\ policy[o].agreement = okr[o].agreement /\ policy[o].managed = okr[o].managed
  /\ signed[c] = DeviceOf[w]
\* What policyPin returns, to be compared with a later call.
PinOf(c) == <<okr[claim[c].okr], ledger[claim[c].okr]>>

Goto(w, pc) == flight' = [flight EXCEPT ![w].pc = pc]
\* A call of step returns to its caller; `found' is its executionId.
Return(w) == flight' = [flight EXCEPT ![w].pc = "return"]

-----------------------------------------------------------------------------
(* The callers, up to their call of step. *)

\* A step that has read the objective, and querySubmission after it
Start(w, o, k, call, input) ==
  flight' = [flight EXCEPT ![w] =
    [Landed EXCEPT !.pc = "lookup", !.call = call, !.input = input, !.name = NameOf(o, k),
                   !.version = okr[o].version,
                   !.prior = journal[DeviceOf[w]][NameOf(o, k)]]]

\* OkrContinuation read: step without any leave
ReadPlan(w, o) ==
  /\ w \in Person /\ flight[w].pc = "idle"
  /\ Advances(o, okr[o].next)
  /\ Start(w, o, okr[o].next, "read", NoInput)
  /\ UNCHANGED <<vars, records, claimed, stored, locator, view, unknown>>

\* OkrControl source: the control the command of a key result is signed under is
\* refused while another run of the Agent is unsettled.  For a key result that is
\* scheduled ahead, those of its own agreement do not count.
ControlFree(o, scheduled) ==
  \A c \in Command :
    \/ run[c] \in Settled \cup {"none"}
    \/ scheduled /\ claim[c].okr = o /\ claim[c].agreement = okr[o].agreement

\* OkrContinuation prepareRun, up to step
PrepareRun(w, o) ==
  /\ w \in Person /\ flight[w].pc = "idle"
  /\ locator[w].name = NameOf(o, okr[o].next)
  /\ Advances(o, okr[o].next) /\ ControlFree(o, FALSE)
  /\ flight' = [flight EXCEPT ![w] =
       [Landed EXCEPT !.pc = "begin", !.call = "prepare", !.name = locator[w].name,
                      !.input.create = TRUE]]
  /\ UNCHANGED <<vars, records, claimed, stored, locator, view, unknown>>

\* OkrContinuation scheduleLaterKrs, up to the step that prepares a later key result
Schedule(w, o, k) ==
  /\ w \in Person /\ flight[w].pc = "idle"
  /\ locator[w].name = NameOf(o, okr[o].next)
  /\ k > okr[o].next /\ Advances(o, k) /\ ControlFree(o, TRUE)
  /\ flight' = [flight EXCEPT ![w] =
       [Landed EXCEPT !.pc = "begin", !.call = "schedule", !.name = NameOf(o, k),
                      !.input.create = TRUE]]
  /\ UNCHANGED <<vars, records, claimed, stored, locator, view, unknown>>

\* Fault: The claim is not looked at.
ClaimAlways(d, c) == claimed' = [claimed EXCEPT ![d] = @ \cup {c}]
\* deliveryJournal.claim, of a key that is not there
Claim(d, c) == c \notin claimed[d] /\ claimed' = [claimed EXCEPT ![d] = @ \cup {c}]

\* Fault: The attempt is remembered by the dialog only.
SendRunUnsaved(w, mode) ==
  LET yes == [locator[w] EXCEPT !.attempted = "yes"] IN
  /\ w \in Person /\ flight[w].pc = "idle"
  /\ locator[w].attempted = "no" /\ view[w] # NoCommand
  /\ UNCHANGED stored
  /\ locator' = [locator EXCEPT ![w] = yes]
  /\ flight' = [flight EXCEPT ![w] =
       [Landed EXCEPT !.pc = "claim", !.call = "send", !.name = yes.name,
                      !.input = [NoInput EXCEPT !.release = TRUE, !.expect = view[w],
                                                !.mode = mode]]]
  /\ UNCHANGED <<vars, records, claimed, view, unknown>>
\* OkrContinuation send up to its claim: the attempt is saved before anything else.
SendRun(w, mode) ==
  LET yes == [locator[w] EXCEPT !.attempted = "yes"] IN
  /\ w \in Person /\ flight[w].pc = "idle"
  /\ locator[w].attempted = "no" /\ view[w] # NoCommand
  /\ stored' = [stored EXCEPT ![DeviceOf[w]][yes.name[1]] = yes]
  /\ locator' = [locator EXCEPT ![w] = yes]
  /\ flight' = [flight EXCEPT ![w] =
       [Landed EXCEPT !.pc = "claim", !.call = "send", !.name = yes.name,
                      !.input = [NoInput EXCEPT !.release = TRUE, !.expect = view[w],
                                                !.mode = mode]]]
  /\ UNCHANGED <<vars, records, claimed, view, unknown>>

ClaimRun(w) ==
  /\ flight[w].pc = "claim"
  /\ IF flight[w].input.mode = "chain"
     THEN UNCHANGED claimed ELSE Claim(DeviceOf[w], flight[w].input.expect)
  /\ Goto(w, "begin")
  /\ UNCHANGED <<vars, records, stored, locator, view, unknown>>

\* The context a caller reviewed, given to step as expectedKrIndex and
\* expectedAgreementVersion; a key result that is prepared is not given any.
Reviewed(w, present) ==
  CASE flight[w].call \in {"send", "deliver"} -> flight[w].name = present
    [] flight[w].call = "schedule" -> locator[w].name = present
    [] OTHER -> TRUE

\* step's first read of the objective
Begin(w) ==
  LET o == flight[w].name[1]
      k == IF flight[w].call = "schedule" THEN flight[w].name[3] ELSE okr[o].next IN
  /\ flight[w].pc = "begin"
  /\ IF Reviewed(w, NameOf(o, okr[o].next)) /\ Advances(o, k)
     THEN Start(w, o, k, flight[w].call, flight[w].input)
     ELSE Return(w)
  /\ UNCHANGED <<vars, records, claimed, stored, locator, view, unknown>>

\* heartbeat of an autonomy session: the first step only reads
Heartbeat(w, o) ==
  /\ w \in AutoSession /\ flight[w].pc = "idle"
  /\ Advances(o, okr[o].next)
  /\ Start(w, o, okr[o].next, "discover", NoInput)
  /\ UNCHANGED <<vars, records, claimed, stored, locator, view, unknown>>

-----------------------------------------------------------------------------
(* A flight of step. *)

\* What advance asks before it signs a new ticket.
MayCreate(w) ==
  /\ flight[w].prior = "none"
  /\ flight[w].name \notin unknown[w]
  /\ flight[w].input.expect = NoCommand
  /\ flight[w].input.create

\* directory: the ticket is there, or one may be made
Lookup(w) ==
  /\ flight[w].pc = "lookup"
  /\ \/ ticket[flight[w].name] # NoCommand /\ Goto(w, "ticket")
     \/ ticket[flight[w].name] = NoCommand /\ MayCreate(w) /\ Goto(w, "sign")
     \/ /\ ticket[flight[w].name] = NoCommand /\ ~MayCreate(w)
        /\ flight' = [flight EXCEPT ![w].pc = "return", ![w].status =
             IF @ = "none" /\ flight[w].prior = "none" /\ flight[w].name \notin unknown[w]
             THEN "idle" ELSE "other"]
  /\ UNCHANGED <<vars, records, claimed, stored, locator, view, unknown>>

\* The authority advance reads for a new command
Authorized(o, agreement) ==
  /\ Managed(o) /\ <<o, agreement>> \in caps
  /\ policy[o].agreement = agreement
  /\ \E amount \in Amount : Affordable(o, amount)

\* The authority reads, and signNodeCommand; without authority it only returns.
Sign(w) ==
  /\ flight[w].pc = "sign"
  /\ IF Authorized(flight[w].name[1], flight[w].name[2])
     THEN \E c \in Command :
            /\ signed[c] = "none"
            /\ signed' = [signed EXCEPT ![c] = DeviceOf[w]]
            /\ flight' = [flight EXCEPT ![w].pc = "submit", ![w].command = c]
     ELSE Return(w) /\ UNCHANGED signed
  /\ UNCHANGED <<vars, ticket, journal, dispatch, pool, published, sent,
                 claimed, stored, locator, view, unknown>>

\* manager.query of the request: one that is recorded is never rebuilt
Fresh(w) == journal[DeviceOf[w]][flight[w].name] = "none"

\* The second read of the objective, then options.submit: the guards, the fee and
\* the broadcast of one transaction that saves the ticket and prepares its command.
Submit(w) ==
  LET n == flight[w].name IN
  /\ flight[w].pc = "submit"
  /\ \/ /\ Fresh(w) /\ Unchanged(w)
        /\ journal' = [journal EXCEPT ![DeviceOf[w]][n] = "pending"]
        /\ pool' = pool \cup {[kind |-> "ticket", device |-> DeviceOf[w], name |-> n,
                               command |-> flight[w].command]}
        /\ unknown' = [unknown EXCEPT ![w] = @ \cup {n}]
        /\ flight' = [flight EXCEPT ![w].pc = "sent", ![w].receipt = "pending"]
     \/ \* a guard that throws, or a request of another window, is "unknown"
        /\ unknown' = [unknown EXCEPT ![w] = @ \cup {n}]
        /\ Goto(w, "sent") /\ UNCHANGED <<journal, pool>>
     \/ \* the fee is declined, or the plan is no longer current
        Return(w) /\ UNCHANGED <<journal, pool, unknown>>
  /\ UNCHANGED <<vars, ticket, dispatch, signed, published, sent, claimed, stored, locator, view>>

\* The answer of the submission, which may not be the outcome yet, and the
\* directory read after it
Answer(w) ==
  LET n == flight[w].name j == journal[DeviceOf[w]][n] IN
  /\ flight[w].pc = "sent"
  /\ unknown' = IF j = "failed" THEN [unknown EXCEPT ![w] = @ \ {n}] ELSE unknown
  /\ flight' = [flight EXCEPT ![w].pc = IF ticket[n] # NoCommand THEN "ticket" ELSE "return",
                              ![w].receipt = IF @ = "none" THEN @ ELSE j]
  /\ UNCHANGED <<vars, records, claimed, stored, locator, view>>

\* The run of the ticket is the reviewed one, queued, and its release was asked
\* for; every caller that creates a ticket asks for its preparation only.
Deliverable(w, t) ==
  /\ flight[w].input.expect \in {NoCommand, t}
  /\ run[t] = "queued"
  /\ flight[w].input.release

\* ticket and readRun; a run that is visible settles the unknown request
Ticket(w) ==
  LET t == ticket[flight[w].name] IN
  /\ flight[w].pc = "ticket"
  /\ unknown' = [unknown EXCEPT ![w] = @ \ {flight[w].name}]
  /\ flight' = [flight EXCEPT ![w].found = t,
                              ![w].status = IF run[t] = "queued" THEN "queued" ELSE "other",
                              ![w].pc = IF Deliverable(w, t) THEN "release" ELSE "return"]
  /\ UNCHANGED <<vars, records, claimed, stored, locator, view>>

\* The last read of the objective and its policy; then options.deliver up to the
\* choice of the way: policyPin, and a command published on chain has been sent.
Release(w) ==
  LET t == flight[w].found IN
  /\ flight[w].pc = "release"
  /\ IF Unchanged(w) /\ Pinned(w, t, FALSE) /\ t \notin published
     THEN flight' = [flight EXCEPT ![w].pc = IF flight[w].input.mode = "chain" THEN "queue" ELSE "send",
                                   ![w].pin = PinOf(t)]
     ELSE Return(w)
  /\ UNCHANGED <<vars, records, claimed, stored, locator, view, unknown>>

\* policyPin again, and request.send of the Coordinator
Send(w) ==
  LET t == flight[w].found d == DeviceOf[w] IN
  /\ flight[w].pc = "send"
  /\ sent' = IF Pinned(w, t, FALSE) /\ PinOf(t) = flight[w].pin
             THEN [sent EXCEPT ![d][t] = @ + 1] ELSE sent
  /\ Return(w)
  /\ UNCHANGED <<vars, ticket, journal, dispatch, pool, signed, published,
                 claimed, stored, locator, view, unknown>>

-----------------------------------------------------------------------------
(* Deliveries on chain. *)

\* queuePreparedKr up to queueTarget, called by scheduleLaterKrs
QueuePrepared(w, o, k) ==
  LET t == ticket[NameOf(o, k)] IN
  /\ w \in Person /\ flight[w].pc = "idle"
  /\ locator[w].name[1] = o
  /\ okr[o].state = "active" /\ k > okr[o].next /\ k < Length(o)
  /\ t # NoCommand /\ t \notin published
  /\ Pinned(w, t, TRUE)
  /\ flight' = [flight EXCEPT ![w] =
       [Landed EXCEPT !.pc = "queue", !.call = "schedule", !.name = NameOf(o, k), !.found = t,
                      !.pin = PinOf(t)]]
  /\ UNCHANGED <<vars, records, claimed, stored, locator, view, unknown>>

\* queueTarget's query: a delivery that was ever requested is never requested again
Unrequested(d, t) == dispatch[d][t] = "none"

\* queueTarget: the guards, the fee and the broadcast.  A fee that is declined
\* lets the dialog try again.
QueueTarget(w) ==
  LET t == flight[w].found d == DeviceOf[w] IN
  /\ flight[w].pc = "queue"
  /\ \/ /\ Unrequested(d, t) /\ Pinned(w, t, flight[w].call = "schedule")
        /\ PinOf(t) = flight[w].pin
        /\ dispatch' = [dispatch EXCEPT ![d][t] = "pending"]
        /\ pool' = pool \cup {[kind |-> "delivery", device |-> d, name |-> flight[w].name,
                               command |-> t]}
        /\ Return(w)
     \/ /\ Return(w) /\ UNCHANGED <<dispatch, pool>>
     \/ /\ flight' = [flight EXCEPT ![w].pc = "declined"] /\ UNCHANGED <<dispatch, pool>>
  /\ UNCHANGED <<vars, ticket, journal, signed, published, sent,
                 claimed, stored, locator, view, unknown>>

-----------------------------------------------------------------------------
(* The callers, after their call of step. *)

Save(w, value) ==
  /\ stored' = [stored EXCEPT ![DeviceOf[w]][value.name[1]] = value]
  /\ locator' = [locator EXCEPT ![w] = value]
\* setState: what step said is shown
Show(w) ==
  view' = [view EXCEPT ![w] = IF flight[w].status = "queued" THEN flight[w].found ELSE NoCommand]

\* read after step: the locator of this agreement and key result, if one is stored
Restore(w) ==
  LET o == flight[w].name[1]
      n == NameOf(o, okr[o].next)
      old == stored[DeviceOf[w]][o]
      base == IF old.name = n THEN old ELSE [name |-> n, attempted |-> "unset"] IN
  /\ flight[w].pc = "return" /\ flight[w].call = "read"
  /\ IF okr[o].state = "active" /\ okr[o].next < Length(o)
     THEN /\ flight' = [flight EXCEPT ![w].pc = "restore", ![w].saved =
               IF flight[w].found # NoCommand /\ base.attempted = "unset"
               THEN [base EXCEPT !.attempted = "yes"] ELSE base]
          /\ Show(w) /\ UNCHANGED locator
     ELSE /\ flight' = [flight EXCEPT ![w] = Landed]
          /\ view' = [view EXCEPT ![w] = NoCommand]
          /\ locator' = [locator EXCEPT ![w] = NoLocator]
  /\ UNCHANGED <<vars, records, claimed, stored, unknown>>

\* The end of read: what it restored is saved, over what was saved meanwhile.
SaveRestored(w) ==
  /\ flight[w].pc = "restore"
  /\ Save(w, flight[w].saved)
  /\ flight' = [flight EXCEPT ![w] = Landed]
  /\ UNCHANGED <<vars, records, claimed, view, unknown>>

\* prepareRun after step: only a submission of its own makes a run sendable.
Prepared(w) ==
  LET f == flight[w] IN
  /\ f.pc = "return" /\ f.call = "prepare"
  /\ \/ f.receipt # "none" /\ Save(w, [locator[w] EXCEPT !.attempted = "no"])
     \/ /\ f.receipt = "none" /\ f.found # NoCommand
        /\ Save(w, [locator[w] EXCEPT !.attempted = IF @ = "unset" THEN "yes" ELSE @])
     \/ f.receipt = "none" /\ f.found = NoCommand /\ UNCHANGED <<stored, locator>>
  /\ Show(w)
  /\ flight' = [flight EXCEPT ![w] = Landed]
  /\ UNCHANGED <<vars, records, claimed, unknown>>

\* send after step
SentRun(w) ==
  /\ flight[w].call = "send"
  /\ \/ /\ flight[w].pc = "return"
        /\ view' = [view EXCEPT ![w] = NoCommand] /\ UNCHANGED <<stored, locator>>
     \/ /\ flight[w].pc = "declined"
        /\ Save(w, [locator[w] EXCEPT !.attempted = "no"]) /\ UNCHANGED view
  /\ flight' = [flight EXCEPT ![w] = Landed]
  /\ UNCHANGED <<vars, records, claimed, unknown>>

\* scheduleLaterKrs after either of its calls
Scheduled(w) ==
  /\ flight[w].pc \in {"return", "declined"} /\ flight[w].call = "schedule"
  /\ flight' = [flight EXCEPT ![w] = Landed]
  /\ UNCHANGED <<vars, records, claimed, stored, locator, view, unknown>>

\* The autonomy session: it creates where there is nothing, and sends what it
\* has itself seen confirmed.
Autonomy(w) ==
  LET f == flight[w] o == f.name[1] n == NameOf(o, okr[o].next) IN
  /\ f.pc = "return" /\ w \in AutoSession
  /\ CASE f.call = "discover" /\ f.status = "idle" /\ f.name = n
            /\ Advances(o, okr[o].next) /\ ControlFree(o, FALSE)
          -> flight' = [flight EXCEPT ![w] =
               [Landed EXCEPT !.pc = "begin", !.call = "create", !.name = n,
                              !.input.create = TRUE]]
       [] f.call = "create" /\ f.status = "queued" /\ f.receipt = "confirmed" /\ f.name = n
          -> flight' = [flight EXCEPT ![w] =
               [Landed EXCEPT !.pc = "claim", !.call = "deliver", !.name = f.name,
                              !.input = [NoInput EXCEPT !.release = TRUE, !.expect = f.found]]]
       [] OTHER -> flight' = [flight EXCEPT ![w] = Landed]
  /\ UNCHANGED <<vars, records, claimed, stored, locator, view, unknown>>

\* An error that is thrown: perform clears the dialog, heartbeat stops the session.
Throw(w) ==
  /\ flight[w].pc # "idle"
  /\ flight' = [flight EXCEPT ![w] = Landed]
  /\ IF w \in Person
     THEN locator' = [locator EXCEPT ![w] = NoLocator] /\ view' = [view EXCEPT ![w] = NoCommand]
     ELSE UNCHANGED <<locator, view>>
  /\ UNCHANGED <<vars, records, claimed, stored, unknown>>

\* The App restarts, or its window is opened anew.
Reopen(w) ==
  /\ flight[w].pc = "idle" /\ unknown[w] # {}
  /\ unknown' = [unknown EXCEPT ![w] = {}]
  /\ IF w \in Person
     THEN locator' = [locator EXCEPT ![w] = NoLocator] /\ view' = [view EXCEPT ![w] = NoCommand]
     ELSE UNCHANGED <<locator, view>>
  /\ UNCHANGED <<vars, records, claimed, stored, flight>>

-----------------------------------------------------------------------------
(* The chain, the Host and the Humans. *)

\* Fault: The ticket is saved over one that exists.
VacantAlways(n) == TRUE
\* product_record save with expectedRevision 0
Vacant(n) == ticket[n] = NoCommand

\* The ticket transaction executes: both calls, or it is aborted.
ExecuteTicket(tx) ==
  LET o == tx.name[1] k == tx.name[3]
      ok == Vacant(tx.name) /\ tx.name[2] = okr[o].agreement IN
  /\ tx.kind = "ticket"
  /\ pool' = pool \ {tx}
  /\ \/ /\ ok /\ PrepareCommand(o, tx.command, k)
        /\ ticket' = [ticket EXCEPT ![tx.name] = tx.command]
        /\ journal' = [journal EXCEPT ![tx.device][tx.name] = "confirmed"]
     \/ /\ ~ (ok /\ Witness(o, k) /\ \E amount \in Amount : Affordable(o, amount))
        /\ journal' = [journal EXCEPT ![tx.device][tx.name] = "failed"]
        /\ UNCHANGED <<vars, ticket>>
  /\ UNCHANGED <<dispatch, signed, published, sent, local>>

\* publish_command_delivery: once for each run, while it is queued
ExecuteDelivery(tx) ==
  LET done == run[tx.command] = "queued" /\ tx.command \notin published IN
  /\ tx.kind = "delivery"
  /\ pool' = pool \ {tx}
  /\ published' = IF done THEN published \cup {tx.command} ELSE published
  /\ dispatch' = [dispatch EXCEPT ![tx.device][tx.command] = IF done THEN "confirmed" ELSE "failed"]
  /\ UNCHANGED <<vars, ticket, journal, signed, sent, local>>

Reached == published \cup {c \in Command : \E d \in Device : sent[d][c] > 0}

\* The Host runs what reached it and measures; Humans verify, stop, pause and
\* agree anew.
Environment ==
  /\ \/ \E o \in Okr, c \in Reached :
          BeginCommand(o, c) \/ FinishCommand(o, c) \/ Observe(o, c)
     \/ \E o \in Okr, c \in Command : RequestStop(o, c)
     \/ \E o \in Okr, h \in Human :
          \/ Read(h, o) \/ VerifyKr(h, o) \/ Pause(h, o) \/ ConfirmOkr(h, o)
          \/ IssueCapability(h, o)
     \/ \E o \in Okr : HostReview(o)
  /\ UNCHANGED <<records, local>>

Step(w) ==
  \/ Lookup(w) \/ Sign(w) \/ Submit(w) \/ Answer(w) \/ Ticket(w) \/ Release(w) \/ Send(w)
  \/ QueueTarget(w)
Caller(w) ==
  \/ \E o \in Okr : \/ ReadPlan(w, o) \/ PrepareRun(w, o) \/ Heartbeat(w, o)
                    \/ \E k \in Index : Schedule(w, o, k) \/ QueuePrepared(w, o, k)
  \/ \E mode \in Mode : SendRun(w, mode)
  \/ ClaimRun(w) \/ Begin(w) \/ Restore(w) \/ SaveRestored(w) \/ Prepared(w) \/ SentRun(w) \/ Scheduled(w)
  \/ Autonomy(w) \/ Throw(w) \/ Reopen(w)

RunnerNext ==
  \/ \E w \in Window : Step(w) \/ Caller(w)
  \/ \E tx \in pool : ExecuteTicket(tx) \/ ExecuteDelivery(tx)
  \/ Environment

RunnerSpec == RunnerInit /\ [][RunnerNext]_all

-----------------------------------------------------------------------------
(* Properties. *)

NameIn(c) == <<claim[c].okr, claim[c].agreement, claim[c].kr>>

\* Of every key result of every agreement at most one command is reserved, and it
\* is the one its ticket names: also when two devices, windows or a session
\* plan it at once, one of them restarts, or a broadcast is answered late
\* (advance, createSelfPayOkrSubmitter).
TicketIsReservation ==
  /\ \A c \in Command : claim[c].okr # "none" => ticket[NameIn(c)] = c
  /\ \A n \in Name : ticket[n] # NoCommand => NameIn(ticket[n]) = n

\* A device asks the Coordinator for a run at most once, although the locator
\* that says so is saved over by other windows, thrown away and restored
\* (send and autonomy's advance, deliveryJournal.claim).
SentOnce == \A d \in Device, c \in Command : sent[d][c] <= 1

\* A device with one window that has queued a run on chain does not ask the
\* Coordinator for it as well, nor the other way round: whatever the window lost
\* by an error, a closed dialog or a declined fee, what is restored says that a
\* delivery was attempted (send, read).
OneWay ==
  \A d \in Device, c \in Command : sent[d][c] = 0 \/ dispatch[d][c] = "none"
=============================================================================
