----------------------------- MODULE HostExecutor -----------------------------
(***************************************************************************)
(* How envd executes a signed NodeCommand on a Host: Executor.Execute of   *)
(* runtimeadapter with the chain stores of internal/sui, against the chain *)
(* as CommandLifecycle promises it.                                        *)
(*                                                                         *)
(* Execute is called concurrently, by Coordinator messages and by the      *)
(* chain queue, for the same command too.  A call sends at most one start  *)
(* transaction, under an attempt id of 32 random bytes, so calls are named *)
(* by their attempt.  A transaction that was sent may land at any later    *)
(* time, also after its sender gave up or envd crashed.  Every read of the *)
(* chain may fail: the call then returns an error, never an outcome.       *)
(***************************************************************************)
EXTENDS CommandLifecycle

CONSTANTS
  RunOf,     \* the run of the command each call delivers
  Review     \* the runs that only observe, for a handover review

ASSUME RunOfAssumption == RunOf \in [Attempt -> Run] /\ Review \subseteq Run

VARIABLES
  call,      \* the calls of Execute, and of SettleStoppedHandoverReview
  inflight,  \* Executor.inflight: the call that owns a run's flight
  expired    \* the runs whose command has expired

vars == <<life, call, inflight, expired>>

\* What an adapter run ends with: its own success or failure, acknowledgement
\* of a stop (error code "cancelled"), an error of the run itself, a spend that
\* is unknown or above the budget.  "rejected": the adapter was not invoked.
Report == {"none", "rejected", "ok", "failed", "stopped", "error",
           "unknown_spend", "overspent"}

\* What the caller is told.  "refused": a command_rejected event; "no_gas": the
\* code host_gas_insufficient or host_gas_unavailable; "unknown": the run has
\* to be queried, or an error without event and verdict.
Answer == {"none", "refused", "start_rejected", "no_gas", "unknown", "timeout"}
            \cup Final

Pc == {"idle", "waiting", "preflight", "inspect", "reserve", "load",
       "starting", "confirm", "check", "invoke", "acting", "save",
       "finishing", "published", "done", "dead"}

Tx == {"none", "sent", "landed", "aborted"}

CallState ==
  [pc : Pc, flight : Attempt \cup {NoAttempt}, owner : Attempt,
   begin : Tx, invoked : BOOLEAN, report : Report, cursor : Nat,
   outcome : Final \cup {"none"}, finish : Tx, answer : Answer, copied : BOOLEAN]

\* flight: the flight a call waits for.  owner: the attempt it acts under.
Idle(p) ==
  [pc |-> "idle", flight |-> NoAttempt, owner |-> p, begin |-> "none",
   invoked |-> FALSE, report |-> "none", cursor |-> 0, outcome |-> "none",
   finish |-> "none", answer |-> "none", copied |-> FALSE]

Init ==
  /\ LifeInit
  /\ call = [p \in Attempt |-> Idle(p)]
  /\ inflight = [r \in Run |-> NoAttempt]
  /\ expired = {}

The(p) == life[RunOf[p]]

\* The call goes on; nothing else changes.
Goto(p, c) == call' = [call EXCEPT ![p] = c] /\ UNCHANGED <<life, inflight, expired>>

\* Fault: a call that did not get an outcome leaves its flight open.
ReleasedOnOutcomeOnly(p, answer) ==
  [inflight EXCEPT ![RunOf[p]] =
     IF @ = p /\ answer \in Final THEN NoAttempt ELSE @]

\* The owner of a flight removes it and wakes those who wait for it.
Released(p, answer) ==
  [inflight EXCEPT ![RunOf[p]] = IF @ = p THEN NoAttempt ELSE @]

Return(p, answer) ==
  /\ call' = [call EXCEPT ![p].pc = "done", ![p].answer = answer]
  /\ inflight' = Released(p, answer)
  /\ UNCHANGED <<life, expired>>

-----------------------------------------------------------------------------
(* Execute: one flight per command, the others wait for it.                *)

Enter(p) ==
  LET r == RunOf[p] IN
  /\ call[p].pc = "idle"
  /\ IF inflight[r] = NoAttempt
     THEN /\ inflight' = [inflight EXCEPT ![r] = p]
          /\ call' = [call EXCEPT ![p].pc = "preflight"]
     ELSE /\ call' = [call EXCEPT ![p].pc = "waiting", ![p].flight = inflight[r]]
          /\ UNCHANGED inflight
  /\ UNCHANGED <<life, expired>>

\* The flight is done, and the command is validated anew.
Wake(p) ==
  /\ call[p].pc = "waiting"
  /\ inflight[RunOf[p]] # call[p].flight
  /\ Goto(p, [call[p] EXCEPT !.pc = "inspect"])

\* The caller's context ends first.
WaitTimeout(p) ==
  /\ call[p].pc = "waiting"
  /\ Return(p, "timeout")

\* ValidateWithPreflight, up to the preflight: current authority, the result
\* key and the gas for start and result.
Preflight(p) ==
  /\ call[p].pc = "preflight"
  /\ The(p).state # "none"
  /\ Goto(p, [call[p] EXCEPT !.pc = "inspect"])

\* preflightRun measures the gas only of a run that has not ended.
MeasuresGas(p) == The(p).state \in {"queued", "running"}

\* Any check before the start transaction may fail, or the chain be unreachable.
Refuse(p) ==
  \/ /\ call[p].pc \in {"preflight", "inspect", "reserve"}
     /\ Return(p, "refused")
  \/ /\ call[p].pc = "preflight"
     /\ MeasuresGas(p)
     /\ Return(p, "no_gas")

\* Inspect and Reserve both read the run and find it already started.
StartedBefore(p) == The(p).state \notin {"none", "queued"}

\* Who waited is given what the flight ended with, as a duplicate.
CopyAnswer(p) ==
  /\ call[p].pc \in {"inspect", "reserve"}
  /\ RunOf[p] \in expired => call[p].pc = "reserve"
  /\ StartedBefore(p)
  /\ call[p].flight # NoAttempt
  /\ call' = [call EXCEPT ![p].pc = "done", ![p].copied = TRUE,
                          ![p].answer = call[call[p].flight].answer]
  /\ UNCHANGED <<life, inflight, expired>>

FoundStarted(p) ==
  /\ call[p].pc \in {"inspect", "reserve"}
  /\ RunOf[p] \notin expired
  /\ StartedBefore(p)
  /\ call[p].flight = NoAttempt
  /\ Goto(p, [call[p] EXCEPT !.pc = "load"])

\* LoadCommand: the recorded outcome, if there is one and it can be read.
Load(p) ==
  /\ call[p].pc = "load"
  /\ \/ The(p).state \in Final /\ Return(p, The(p).state)
     \/ Return(p, "unknown")

Inspect(p) ==
  /\ call[p].pc = "inspect"
  /\ ~StartedBefore(p)
  /\ RunOf[p] \notin expired
  /\ Goto(p, [call[p] EXCEPT !.pc = "reserve"])

-----------------------------------------------------------------------------
(* Reserve: the start transaction.                                         *)

SendStart(p) ==
  /\ call[p].pc = "reserve"
  /\ The(p).state = "queued"
  /\ call[p].flight = NoAttempt => RunOf[p] \notin expired
  /\ Goto(p, [call[p] EXCEPT !.pc = "starting", !.begin = "sent"])

LandStart(p) ==
  /\ call[p].begin = "sent"
  /\ RunOf[p] \notin expired
  /\ Start(RunOf[p], p)
  /\ call' = [call EXCEPT ![p].begin = "landed"]
  /\ UNCHANGED <<inflight, expired>>

\* The chain refuses it: it is no longer queued, or some authority lapsed.
AbortStart(p) ==
  /\ call[p].begin = "sent"
  /\ Goto(p, [call[p] EXCEPT !.begin = "aborted"])

\* A failure in the receipt of this very transaction is a definite answer.
StartReceipt(p) ==
  /\ call[p].pc = "starting"
  /\ \/ call[p].begin = "landed" /\ Goto(p, [call[p] EXCEPT !.pc = "confirm"])
     \/ call[p].begin = "aborted" /\ Return(p, "start_rejected")

\* Fault: an error of the transport is taken for a rejection by the chain.
WithoutReceiptRejected == "start_rejected"

\* What is answered when the transaction's fate is not known.
WithoutReceipt == "unknown"

StartReceiptLost(p) ==
  /\ call[p].pc = "starting"
  /\ Return(p, WithoutReceipt)

\* The run is RUNNING under this very attempt.
OwnsStart(p) == The(p).state = "running" /\ The(p).attempt_id = call[p].owner

\* confirmStart polls the checkpoint for at most 30 s.
Confirm(p) ==
  /\ call[p].pc = "confirm"
  /\ \/ OwnsStart(p) /\ Goto(p, [call[p] EXCEPT !.pc = "check"])
     \/ Return(p, "unknown")

\* ConfirmStart, the last read before the adapter: ownership, no stop, and the
\* preflight again, which answers for missing gas as it does before the start.
CheckStart(p) ==
  /\ call[p].pc = "check"
  /\ \/ /\ OwnsStart(p)
        /\ ~The(p).stop_requested
        /\ \/ Goto(p, [call[p] EXCEPT !.pc = "invoke"])
           \/ MeasuresGas(p) /\ Return(p, "no_gas")
     \/ Return(p, "unknown")

-----------------------------------------------------------------------------
(* The adapter, and the publication of what it reports.                    *)

RejectInput(p) ==
  /\ call[p].pc = "invoke"
  /\ Goto(p, [call[p] EXCEPT !.pc = "save", !.report = "rejected"])

Invoke(p) ==
  /\ call[p].pc = "invoke"
  /\ Goto(p, [call[p] EXCEPT !.pc = "acting", !.invoked = TRUE])

AdapterEnds(p) ==
  /\ call[p].pc = "acting"
  /\ \E report \in Report \ {"none", "rejected"} :
       Goto(p, [call[p] EXCEPT !.pc = "save", !.report = report])

\* settlement: the final state that a report is published with.
Settlement(report, stopping) ==
  CASE report = "ok" -> "succeeded"
    [] report \in {"rejected", "failed"} -> "failed"
    [] report = "stopped" -> IF stopping THEN "cancelled" ELSE "failed"
    [] OTHER -> "needs_confirmation"

\* SaveCommand reads the run once more and sends the result with the cursor
\* and the settlement of that reading.
SendFinish(p) ==
  /\ call[p].pc = "save"
  /\ OwnsStart(p)
  /\ call[p].report # "overspent"
  /\ Goto(p, [call[p] EXCEPT
       !.pc = "finishing", !.finish = "sent", !.cursor = The(p).cursor,
       !.outcome = Settlement(call[p].report, The(p).stop_requested)])

\* Ownership changed, an invalid record, no key of the current version, ...
SaveFails(p) ==
  /\ call[p].pc = "save"
  /\ Return(p, "unknown")

LandFinish(p) ==
  /\ call[p].finish = "sent"
  /\ Finish(RunOf[p], call[p].cursor, call[p].outcome)
  /\ call' = [call EXCEPT ![p].finish = "landed"]
  /\ UNCHANGED <<inflight, expired>>

AbortFinish(p) ==
  /\ call[p].finish = "sent"
  /\ Goto(p, [call[p] EXCEPT !.finish = "aborted"])

FinishReceipt(p) ==
  /\ call[p].pc = "finishing"
  /\ call[p].finish = "landed"
  /\ Goto(p, [call[p] EXCEPT !.pc = "published"])

\* The receipt is a failure or is lost; the result is never sent again.
FinishReceiptLost(p) ==
  /\ call[p].pc = "finishing"
  /\ Return(p, "unknown")

\* The result read back is this one.
ReadBack(p) ==
  The(p).state = call[p].outcome /\ The(p).attempt_id = call[p].owner

ConfirmResult(p) ==
  /\ call[p].pc = "published"
  /\ \/ ReadBack(p) /\ Return(p, call[p].outcome)
     \/ Return(p, "unknown")

\* SettleStoppedHandoverReview, run by the operator beside envd: the stop of an
\* expired review is acknowledged under the attempt that left it running.
SettleStopped(p) ==
  /\ call[p].pc = "idle"
  /\ RunOf[p] \in Review
  /\ \/ /\ The(p).state \in Final \ {"needs_confirmation"}
        /\ Goto(p, [call[p] EXCEPT !.pc = "load"])
     \/ /\ The(p).state = "running"
        /\ The(p).stop_requested
        /\ RunOf[p] \in expired
        /\ Goto(p, [call[p] EXCEPT !.pc = "save", !.report = "stopped",
                                   !.owner = The(p).attempt_id])

-----------------------------------------------------------------------------
(* The human, time and failure.                                            *)

Human(r) == (Create(r) \/ Stop(r)) /\ UNCHANGED <<call, inflight, expired>>

Expire(r) ==
  /\ life[r].state # "none"
  /\ expired' = expired \cup {r}
  /\ UNCHANGED <<life, call, inflight>>

\* envd dies and starts again: its calls are gone, what they sent is not.
Crash ==
  /\ call' = [p \in Attempt |->
       IF call[p].pc \notin {"idle", "done"} /\ call[p].owner = p
       THEN [call[p] EXCEPT !.pc = "dead"] ELSE call[p]]
  /\ inflight' = [r \in Run |-> NoAttempt]
  /\ UNCHANGED <<life, expired>>

-----------------------------------------------------------------------------
\* The steps a call takes of itself once it was made.
Step(p) ==
  \/ Wake(p) \/ Preflight(p) \/ Refuse(p) \/ CopyAnswer(p) \/ FoundStarted(p)
  \/ Load(p) \/ Inspect(p) \/ SendStart(p) \/ StartReceipt(p)
  \/ StartReceiptLost(p) \/ Confirm(p) \/ CheckStart(p) \/ RejectInput(p)
  \/ Invoke(p) \/ AdapterEnds(p) \/ SendFinish(p) \/ SaveFails(p)
  \/ FinishReceipt(p) \/ FinishReceiptLost(p) \/ ConfirmResult(p)

\* What the chain does with the transactions of a call.
Ledger(p) == LandStart(p) \/ AbortStart(p) \/ LandFinish(p) \/ AbortFinish(p)

Next ==
  \/ \E p \in Attempt :
       Enter(p) \/ WaitTimeout(p) \/ SettleStopped(p) \/ Step(p) \/ Ledger(p)
  \/ \E r \in Run : Human(r) \/ Expire(r)
  \/ Crash

Spec == Init /\ [][Next]_vars

\* Every wait of a call but the one for a flight ends by itself: reads and
\* polls have timeouts, adapters a deadline.
FairSpec == Spec /\ \A p \in Attempt : WF_vars(Step(p))

-----------------------------------------------------------------------------
(* Properties.                                                             *)

TypeOK ==
  /\ life \in [Run -> Life]
  /\ call \in [Attempt -> CallState]
  /\ inflight \in [Run -> Attempt \cup {NoAttempt}]
  /\ expired \subseteq Run

\* However calls overlap, receipts are lost and envd crashes, the adapter is
\* invoked at most once for a run, and never for one cancelled before its start.
AdapterAtMostOnce ==
  \A p \in Attempt : call[p].invoked =>
    /\ The(p).attempt_id = p
    /\ \A q \in Attempt : call[q].invoked /\ RunOf[q] = RunOf[p] => q = p

\* The recorded outcome is what LoadCommand computes from the published report
\* and the stop flag it finds then; otherwise it could never be read again.
ResultAgreesWithChain ==
  \A p \in Attempt : call[p].finish = "landed" =>
    /\ The(p).state = call[p].outcome
    /\ The(p).state = Settlement(call[p].report, The(p).stop_requested)
    /\ The(p).attempt_id = call[p].owner

\* A call that is answered with an outcome is answered with the chain's.
AnswersTruthful ==
  \A p \in Attempt : call[p].answer \in Final => The(p).state = call[p].answer

\* Whatever is still on its way to the chain: a call that is refused, or told
\* that its start was rejected, has not started the run and never will; and one
\* told so or that gas is missing, which may come after its start, has neither
\* invoked the adapter nor sent a result.
RejectionIsDefinite ==
  \A p \in Attempt : ~call[p].copied =>
    /\ call[p].answer \in {"refused", "start_rejected"} =>
         call[p].begin \in {"none", "aborted"} /\ The(p).attempt_id # p
    /\ call[p].answer \in {"refused", "start_rejected", "no_gas"} =>
         ~call[p].invoked /\ call[p].finish = "none"

\* What makes these inductive, of one call in state c whose run is l: where a
\* call is in its code tells what it sent; a start landed exactly if the run
\* carries its attempt; a result that was sent was settled for the reading of
\* its cursor.
CallInv(p, c, l) ==
  /\ c.flight # NoAttempt => RunOf[c.flight] = RunOf[p]
  /\ c.pc = "idle" => c = Idle(p)
  /\ c.pc \in {"waiting", "preflight", "inspect", "reserve"} =>
       c.begin = "none" /\ c.finish = "none" /\ c.owner = p
  /\ c.pc = "starting" => c.finish = "none" /\ c.owner = p
  /\ c.pc \in {"confirm", "check", "invoke", "acting"} =>
       c.begin = "landed" /\ c.finish = "none" /\ c.owner = p
  /\ c.pc \in {"starting", "confirm", "check"} => ~c.invoked
  /\ c.pc = "save" => c.finish = "none" /\ l.attempt_id = c.owner
  /\ c.finish # "none" => l.attempt_id = c.owner
  /\ c.pc = "published" => c.finish = "landed"
  /\ c.begin = "landed" <=> l.attempt_id = p
  /\ c.invoked => c.begin = "landed"
  /\ c.finish = "sent" =>
       /\ c.outcome \in Final
       /\ c.cursor <= l.cursor
       /\ c.cursor = l.cursor => c.outcome = Settlement(c.report, l.stop_requested)
  /\ c.finish = "landed" =>
       l.state = c.outcome /\ c.outcome = Settlement(c.report, l.stop_requested)
  /\ c.answer # "none" \/ c.copied => c.pc = "done"
  /\ c.answer \in Final => l.state = c.answer
  /\ c.answer \in {"refused", "start_rejected"} /\ ~c.copied =>
       c.begin \in {"none", "aborted"}
  /\ c.answer \in {"refused", "start_rejected", "no_gas"} /\ ~c.copied =>
       ~c.invoked /\ c.finish = "none"

\* A run has no attempt exactly before its start, or if it never had one.
RunInv(r) ==
  /\ inflight[r] # NoAttempt => RunOf[inflight[r]] = r
  /\ life[r].state \in {"none", "queued"} => life[r].attempt_id = NoAttempt
  /\ life[r].state = "running" => life[r].attempt_id # NoAttempt
  /\ life[r].state = "none" => life[r] = NoLife

HostInv ==
  /\ TypeOK
  /\ \A p \in Attempt : CallInv(p, call[p], The(p))
  /\ \A r \in Run : RunInv(r)

\* Every call returns, unless envd dies: no call waits for a flight forever.
EveryCallReturns ==
  \A p \in Attempt : call[p].pc # "idle" ~> call[p].pc \in {"done", "dead"}
=============================================================================
