------------------------- MODULE HostExecutor_proofs -------------------------
(***************************************************************************)
(* Proofs about HostExecutor, for any number of runs and of calls.  The    *)
(* inductive invariant HostInv speaks of one call and its run at a time:   *)
(* a step of a call that leaves the chain alone has to restore it for that *)
(* call only (GotoPreserves, ReturnPreserves), a step of the chain for     *)
(* every call of that run (ChainPreserves).                                *)
(***************************************************************************)
EXTENDS HostExecutor, TLAPS

\* Every report is settled with a final state.
LEMMA SettlementFinal ==
  ASSUME NEW report, NEW stopping PROVE Settlement(report, stopping) \in Final
BY DEF Settlement, Final

\* The updates of a call are of its type.
LEMMA CallTypes ==
  ASSUME NEW c \in CallState, NEW pc \in Pc, NEW tx \in Tx, NEW report \in Report,
         NEW cursor \in Nat, NEW outcome \in Final, NEW owner \in Attempt
  PROVE  /\ [c EXCEPT !.pc = pc] \in CallState
         /\ [c EXCEPT !.begin = tx] \in CallState
         /\ [c EXCEPT !.finish = tx] \in CallState
         /\ [c EXCEPT !.pc = pc, !.report = report] \in CallState
         /\ [c EXCEPT !.pc = pc, !.report = report, !.owner = owner] \in CallState
         /\ [c EXCEPT !.pc = pc, !.finish = tx, !.cursor = cursor,
                      !.outcome = outcome] \in CallState
BY DEF CallState

\* What the chain's transactions make of a run.
LEMMA LifeTypes ==
  ASSUME NEW l \in Life, NEW a \in Attempt, NEW outcome \in Final
  PROVE  /\ Started(l, a) = [l EXCEPT !.state = "running", !.attempt_id = a,
                                       !.cursor = l.cursor + 1]
         /\ Started(l, a) \in Life
         /\ Finished(l, outcome) = [l EXCEPT !.state = outcome, !.cursor = l.cursor + 1]
         /\ Finished(l, outcome) \in Life
<1>1. "running" \in State /\ outcome \in State /\ l.cursor + 1 \in Nat
  BY DEF Life, State
<1>2. /\ Started(l, a) = [l EXCEPT !.state = "running", !.attempt_id = a,
                                    !.cursor = l.cursor + 1]
      /\ Finished(l, outcome) = [l EXCEPT !.state = outcome, !.cursor = l.cursor + 1]
  BY DEF Started, Finished, Life
<1> QED BY <1>1, <1>2 DEF Life

\* A call that goes on restores the invariant if its own part holds again.
LEMMA GotoPreserves ==
  ASSUME HostInv, NEW p \in Attempt, NEW c \in CallState,
         CallInv(p, c, The(p)), Goto(p, c)
  PROVE  HostInv'
<1>1. TypeOK'
  BY DEF HostInv, TypeOK, Goto
<1>2. ASSUME NEW q \in Attempt PROVE CallInv(q, call[q], The(q))'
  <2>1. CASE q = p
    <3>1. call'[q] = c /\ The(q)' = The(p)
      BY <2>1 DEF HostInv, TypeOK, Goto, The
    <3> QED BY <3>1, <2>1 DEF CallInv
  <2>2. CASE q # p
    <3>1. call'[q] = call[q] /\ The(q)' = The(q)
      BY <2>2 DEF HostInv, TypeOK, Goto, The
    <3>2. CallInv(q, call[q], The(q))
      BY DEF HostInv
    <3> QED BY <3>1, <3>2 DEF CallInv
  <2> QED BY <2>1, <2>2
<1>3. ASSUME NEW r \in Run PROVE RunInv(r)'
  BY DEF HostInv, Goto, RunInv
<1> QED BY <1>1, <1>2, <1>3 DEF HostInv

\* A call that returns restores it if its answer is consistent with its run.
LEMMA ReturnPreserves ==
  ASSUME HostInv, NEW p \in Attempt, NEW answer \in Answer \ {"none"},
         call[p].pc \notin {"idle", "done"},
         answer \in Final => The(p).state = answer,
         answer \in {"refused", "start_rejected"} => call[p].begin \in {"none", "aborted"},
         answer \in {"refused", "start_rejected", "no_gas"} =>
           ~call[p].invoked /\ call[p].finish = "none",
         Return(p, answer)
  PROVE  HostInv'
<1> DEFINE c == [call[p] EXCEPT !.pc = "done", !.answer = answer]
<1>0. call \in [Attempt -> CallState] /\ call[p] \in CallState /\ CallInv(p, call[p], The(p))
  BY DEF HostInv, TypeOK
<1>1. c \in CallState
  BY <1>0 DEF CallState, Pc
<1>2. CallInv(p, c, The(p))
  BY <1>0 DEF CallInv, CallState
<1>3. call' = [call EXCEPT ![p] = c]
  BY <1>0 DEF Return
<1> HIDE DEF c
<1>4. inflight' \in [Run -> Attempt \cup {NoAttempt}]
  BY DEF HostInv, TypeOK, Return, Released
<1>5. TypeOK'
  BY <1>0, <1>1, <1>3, <1>4 DEF HostInv, TypeOK, Return
<1>6. ASSUME NEW q \in Attempt PROVE CallInv(q, call[q], The(q))'
  <2>1. CASE q = p
    <3>1. call'[q] = c /\ The(q)' = The(p)
      BY <2>1, <1>0, <1>3 DEF Return, The
    <3> QED BY <3>1, <2>1, <1>2 DEF CallInv
  <2>2. CASE q # p
    <3>1. call'[q] = call[q] /\ The(q)' = The(q)
      BY <2>2, <1>0, <1>3 DEF Return, The
    <3>2. CallInv(q, call[q], The(q))
      BY DEF HostInv
    <3> QED BY <3>1, <3>2 DEF CallInv
  <2> QED BY <2>1, <2>2
<1>7. ASSUME NEW r \in Run PROVE RunInv(r)'
  <2>1. inflight'[r] # NoAttempt => inflight'[r] = inflight[r]
    BY DEF HostInv, TypeOK, Return, Released
  <2>2. RunInv(r) /\ life' = life
    BY DEF HostInv, Return
  <2> QED BY <2>1, <2>2 DEF RunInv
<1> QED BY <1>5, <1>6, <1>7 DEF HostInv

\* A step of the chain has to restore it for the calls of its run.
LEMMA ChainPreserves ==
  ASSUME HostInv, NEW r \in Run, NEW l \in Life,
         life' = [life EXCEPT ![r] = l], call' \in [Attempt -> CallState],
         UNCHANGED <<inflight, expired>>,
         l.state \in {"none", "queued"} => l.attempt_id = NoAttempt,
         l.state = "running" => l.attempt_id # NoAttempt,
         l.state # "none",
         \A q \in Attempt : RunOf[q] = r => CallInv(q, call'[q], l),
         \A q \in Attempt : RunOf[q] # r => call'[q] = call[q]
  PROVE  HostInv'
<1>1. TypeOK'
  BY DEF HostInv, TypeOK
<1>2. ASSUME NEW q \in Attempt PROVE CallInv(q, call[q], The(q))'
  <2>0. RunOf[q] \in Run /\ life \in [Run -> Life]
    BY RunOfAssumption DEF HostInv, TypeOK
  <2>1. CASE RunOf[q] = r
    <3>1. The(q)' = l
      BY <2>0, <2>1 DEF The
    <3> QED BY <3>1, <2>1 DEF CallInv
  <2>2. CASE RunOf[q] # r
    <3>1. call'[q] = call[q] /\ The(q)' = The(q)
      BY <2>0, <2>2 DEF The
    <3>2. CallInv(q, call[q], The(q))
      BY DEF HostInv
    <3> QED BY <3>1, <3>2 DEF CallInv
  <2> QED BY <2>1, <2>2
<1>3. ASSUME NEW s \in Run PROVE RunInv(s)'
  <2>1. RunInv(s) /\ life \in [Run -> Life]
    BY DEF HostInv, TypeOK
  <2> QED BY <2>1 DEF RunInv
<1> QED BY <1>1, <1>2, <1>3 DEF HostInv

\* The invariant gives what a step of call p starts from.
LEMMA Facts ==
  ASSUME HostInv, NEW p \in Attempt
  PROVE  /\ call \in [Attempt -> CallState] /\ call[p] \in CallState
         /\ life \in [Run -> Life] /\ RunOf[p] \in Run /\ The(p) \in Life
         /\ CallInv(p, call[p], The(p)) /\ RunInv(RunOf[p])
BY RunOfAssumption DEF HostInv, TypeOK, The

\* Entering Execute.
LEMMA EnterPreserves ==
  ASSUME HostInv, NEW p \in Attempt, Enter(p) PROVE HostInv'
<1>f. /\ call \in [Attempt -> CallState] /\ call[p] \in CallState
      /\ life \in [Run -> Life] /\ RunOf[p] \in Run /\ The(p) \in Life
      /\ CallInv(p, call[p], The(p)) /\ RunInv(RunOf[p])
  BY Facts
<1> USE <1>f
<1> DEFINE c == IF inflight[RunOf[p]] = NoAttempt
                THEN [call[p] EXCEPT !.pc = "preflight"]
                ELSE [call[p] EXCEPT !.pc = "waiting", !.flight = inflight[RunOf[p]]]
<1>0. /\ inflight \in [Run -> Attempt \cup {NoAttempt}] /\ call[p] = Idle(p)
      /\ inflight[RunOf[p]] \in Attempt \cup {NoAttempt}
  BY DEF HostInv, TypeOK, Enter, CallInv
<1>1. c \in CallState
  <2>1. [call[p] EXCEPT !.pc = "preflight"] \in CallState
    BY DEF CallState, Pc
  <2>2. [call[p] EXCEPT !.pc = "waiting", !.flight = inflight[RunOf[p]]] \in CallState
    BY <1>0 DEF CallState, Pc
  <2> QED BY <2>1, <2>2
<1>2. CallInv(p, c, The(p))
  BY <1>0, <1>1 DEF CallInv, CallState, Idle, RunInv, Final
<1>3. call' = [call EXCEPT ![p] = c]
  BY <1>0 DEF Enter
<1> HIDE DEF c
<1>4. TypeOK'
  BY <1>0, <1>1, <1>3 DEF HostInv, TypeOK, Enter
<1>5. ASSUME NEW q \in Attempt PROVE CallInv(q, call[q], The(q))'
  <2>1. call'[q] = (IF q = p THEN c ELSE call[q]) /\ The(q)' = The(q)
    BY <1>3 DEF Enter, The
  <2>2. CallInv(q, call[q], The(q))
    BY DEF HostInv
  <2> QED BY <1>2, <2>1, <2>2 DEF CallInv
<1>6. ASSUME NEW r \in Run PROVE RunInv(r)'
  <2>1. RunInv(r) /\ life' = life
    BY DEF HostInv, Enter
  <2>2. inflight'[r] = inflight[r] \/ (inflight'[r] = p /\ r = RunOf[p])
    BY <1>0 DEF Enter
  <2> QED BY <2>1, <2>2 DEF RunInv
<1> QED BY <1>4, <1>5, <1>6 DEF HostInv

\* A waiter that copies the answer of a flight of the same run.
LEMMA CopyPreserves ==
  ASSUME HostInv, NEW p \in Attempt, CopyAnswer(p) PROVE HostInv'
<1>f. /\ call \in [Attempt -> CallState] /\ call[p] \in CallState
      /\ life \in [Run -> Life] /\ RunOf[p] \in Run /\ The(p) \in Life
      /\ CallInv(p, call[p], The(p)) /\ RunInv(RunOf[p])
  BY Facts
<1> USE <1>f
<1> DEFINE f == call[p].flight
           c == [call[p] EXCEPT !.pc = "done", !.copied = TRUE, !.answer = call[f].answer]
<1>1. f \in Attempt /\ RunOf[f] = RunOf[p]
  BY DEF CopyAnswer, CallInv, CallState
<1>2. call[f] \in CallState /\ CallInv(f, call[f], The(p))
  BY <1>1, Facts DEF The
<1>3. c \in CallState
  BY <1>2 DEF CallState, Pc
<1>4. CallInv(p, c, The(p))
  BY <1>2, <1>3 DEF CallInv, CallState, CopyAnswer
<1>5. Goto(p, c)
  BY DEF CopyAnswer, Goto
<1> HIDE DEF c
<1> QED BY <1>3, <1>4, <1>5, GotoPreserves

\* The steps of a call that only read the chain, or send a transaction.
LEMMA StepPreserves ==
  ASSUME HostInv, NEW p \in Attempt, Step(p) PROVE HostInv'
<1>f. /\ call \in [Attempt -> CallState] /\ call[p] \in CallState
      /\ life \in [Run -> Life] /\ RunOf[p] \in Run /\ The(p) \in Life
      /\ CallInv(p, call[p], The(p)) /\ RunInv(RunOf[p])
  BY Facts
<1> USE <1>f
<1>g. ASSUME NEW pc \in Pc, Goto(p, [call[p] EXCEPT !.pc = pc]),
             CallInv(p, [call[p] EXCEPT !.pc = pc], The(p))
      PROVE  HostInv'
  <2>1. [call[p] EXCEPT !.pc = pc] \in CallState
    BY DEF CallState
  <2> QED BY <2>1, <1>g, GotoPreserves
<1>u. ASSUME Return(p, "unknown"), call[p].pc \notin {"idle", "done"} PROVE HostInv'
  BY <1>u, ReturnPreserves DEF Answer, Final
<1>1. CASE Wake(p)
  <2>1. CallInv(p, [call[p] EXCEPT !.pc = "inspect"], The(p))
    BY <1>1 DEF Wake, CallInv, CallState
  <2> QED BY <1>1, <1>g, <2>1 DEF Wake, Pc
<1>2. CASE Preflight(p)
  <2>1. CallInv(p, [call[p] EXCEPT !.pc = "inspect"], The(p))
    BY <1>2 DEF Preflight, CallInv, CallState
  <2> QED BY <1>2, <1>g, <2>1 DEF Preflight, Pc
<1>3. CASE Refuse(p)
  BY <1>3, ReturnPreserves DEF Refuse, Answer, Final, CallInv
<1>4. CASE CopyAnswer(p)
  BY <1>4, CopyPreserves
<1>5. CASE FoundStarted(p)
  <2>1. CallInv(p, [call[p] EXCEPT !.pc = "load"], The(p))
    BY <1>5 DEF FoundStarted, CallInv, CallState
  <2> QED BY <1>5, <1>g, <2>1 DEF FoundStarted, Pc
<1>6. CASE Load(p)
  <2>1. CASE The(p).state \in Final /\ Return(p, The(p).state)
    BY <1>6, <2>1, ReturnPreserves DEF Load, Answer, Final
  <2> QED BY <1>6, <2>1, <1>u DEF Load
<1>7. CASE Inspect(p)
  <2>1. CallInv(p, [call[p] EXCEPT !.pc = "reserve"], The(p))
    BY <1>7 DEF Inspect, CallInv, CallState
  <2> QED BY <1>7, <1>g, <2>1 DEF Inspect, Pc
<1>8. CASE SendStart(p)
  <2> DEFINE c == [call[p] EXCEPT !.pc = "starting", !.begin = "sent"]
  <2>1. c \in CallState
    BY DEF CallState, Pc, Tx
  <2>2. CallInv(p, c, The(p))
    BY <1>8 DEF SendStart, CallInv, CallState
  <2> HIDE DEF c
  <2> QED BY <1>8, <2>1, <2>2, GotoPreserves DEF SendStart, c
<1>9. CASE StartReceipt(p)
  <2>1. CASE call[p].begin = "landed" /\ Goto(p, [call[p] EXCEPT !.pc = "confirm"])
    <3>1. CallInv(p, [call[p] EXCEPT !.pc = "confirm"], The(p))
      BY <1>9, <2>1 DEF StartReceipt, CallInv, CallState
    <3> QED BY <2>1, <1>g, <3>1 DEF Pc
  <2>2. CASE call[p].begin = "aborted" /\ Return(p, "start_rejected")
    BY <1>9, <2>2, ReturnPreserves DEF StartReceipt, Answer, Final, CallInv
  <2> QED BY <1>9, <2>1, <2>2 DEF StartReceipt
<1>10. CASE StartReceiptLost(p)
  BY <1>10, <1>u DEF StartReceiptLost, WithoutReceipt
<1>11. CASE Confirm(p)
  <2>1. CASE Goto(p, [call[p] EXCEPT !.pc = "check"])
    <3>1. CallInv(p, [call[p] EXCEPT !.pc = "check"], The(p))
      BY <1>11 DEF Confirm, CallInv, CallState
    <3> QED BY <2>1, <1>g, <3>1 DEF Pc
  <2> QED BY <1>11, <2>1, <1>u DEF Confirm
<1>12. CASE CheckStart(p)
  <2>1. CASE Goto(p, [call[p] EXCEPT !.pc = "invoke"])
    <3>1. CallInv(p, [call[p] EXCEPT !.pc = "invoke"], The(p))
      BY <1>12 DEF CheckStart, CallInv, CallState
    <3> QED BY <2>1, <1>g, <3>1 DEF Pc
  <2>2. CASE Return(p, "no_gas")
    BY <1>12, <2>2, ReturnPreserves DEF CheckStart, Answer, Final, CallInv
  <2> QED BY <1>12, <2>1, <2>2, <1>u DEF CheckStart
<1>13. CASE RejectInput(p)
  <2> DEFINE c == [call[p] EXCEPT !.pc = "save", !.report = "rejected"]
  <2>0. "save" \in Pc /\ "rejected" \in Report
    BY DEF Pc, Report
  <2>1. c \in CallState
    BY <2>0 DEF CallState
  <2>2. CallInv(p, c, The(p))
    BY <1>13 DEF RejectInput, CallInv, CallState
  <2> HIDE DEF c
  <2> QED BY <1>13, <2>1, <2>2, GotoPreserves DEF RejectInput, c
<1>14. CASE Invoke(p)
  <2> DEFINE c == [call[p] EXCEPT !.pc = "acting", !.invoked = TRUE]
  <2>1. c \in CallState
    BY DEF CallState, Pc
  <2>2. CallInv(p, c, The(p))
    BY <1>14 DEF Invoke, CallInv, CallState
  <2> HIDE DEF c
  <2> QED BY <1>14, <2>1, <2>2, GotoPreserves DEF Invoke, c
<1>15. CASE AdapterEnds(p)
  <2> PICK report \in Report : Goto(p, [call[p] EXCEPT !.pc = "save", !.report = report])
    BY <1>15 DEF AdapterEnds
  <2> DEFINE c == [call[p] EXCEPT !.pc = "save", !.report = report]
  <2>1. c \in CallState
    BY DEF CallState, Pc
  <2>2. CallInv(p, c, The(p))
    BY <1>15 DEF AdapterEnds, CallInv, CallState
  <2>3. Goto(p, c)
    OBVIOUS
  <2> HIDE DEF c
  <2> QED BY <2>1, <2>2, <2>3, GotoPreserves
<1>16. CASE SendFinish(p)
  <2> DEFINE outcome == Settlement(call[p].report, The(p).stop_requested)
             c == [call[p] EXCEPT !.pc = "finishing", !.finish = "sent",
                                  !.cursor = The(p).cursor, !.outcome = outcome]
  <2>0. outcome \in Final /\ The(p).cursor \in Nat
    BY SettlementFinal DEF Life
  <2>3. Goto(p, c)
    BY <1>16 DEF SendFinish
  <2> HIDE DEF outcome
  <2>4. "finishing" \in Pc /\ "sent" \in Tx
    BY DEF Pc, Tx
  <2>1. c \in CallState
    BY <2>0, <2>4 DEF CallState
  <2>2. CallInv(p, c, The(p))
    BY <1>16, <2>0 DEF SendFinish, CallInv, CallState, OwnsStart, outcome
  <2> HIDE DEF c
  <2> QED BY <2>1, <2>2, <2>3, GotoPreserves
<1>17. CASE SaveFails(p)
  BY <1>17, <1>u DEF SaveFails
<1>18. CASE FinishReceipt(p)
  <2>1. CallInv(p, [call[p] EXCEPT !.pc = "published"], The(p))
    BY <1>18 DEF FinishReceipt, CallInv, CallState
  <2> QED BY <1>18, <1>g, <2>1 DEF FinishReceipt, Pc
<1>19. CASE FinishReceiptLost(p)
  BY <1>19, <1>u DEF FinishReceiptLost
<1>20. CASE ConfirmResult(p)
  <2>1. CASE ReadBack(p) /\ Return(p, call[p].outcome)
    <3>1. call[p].outcome \in Answer \ {"none", "refused", "start_rejected", "no_gas"}
      BY <1>20, <2>1, SettlementFinal DEF ConfirmResult, ReadBack, CallInv, CallState, Answer, Final, Life, State, RunInv
    <3> QED BY <1>20, <2>1, <3>1, ReturnPreserves DEF ConfirmResult, ReadBack
  <2> QED BY <1>20, <2>1, <1>u DEF ConfirmResult
<1> QED BY <1>1, <1>2, <1>3, <1>4, <1>5, <1>6, <1>7, <1>8, <1>9, <1>10, <1>11,
           <1>12, <1>13, <1>14, <1>15, <1>16, <1>17, <1>18, <1>19, <1>20 DEF Step

\* What the chain does with a start transaction.
LEMMA LandStartPreserves ==
  ASSUME HostInv, NEW p \in Attempt, LandStart(p) PROVE HostInv'
<1>f. /\ call \in [Attempt -> CallState] /\ call[p] \in CallState
      /\ life \in [Run -> Life] /\ RunOf[p] \in Run /\ The(p) \in Life
      /\ CallInv(p, call[p], The(p)) /\ RunInv(RunOf[p])
  BY Facts
<1> USE <1>f
<1> DEFINE r == RunOf[p]
           l == Started(The(p), p)
           c == [call[p] EXCEPT !.begin = "landed"]
<1>1. /\ The(p).state = "queued" /\ The(p).attempt_id = NoAttempt
      /\ life' = [life EXCEPT ![r] = l] /\ call' = [call EXCEPT ![p] = c]
      /\ UNCHANGED <<inflight, expired>>
  BY DEF LandStart, Start, Startable, RunInv, The
<1>2. l \in Life /\ l.state = "running" /\ l.attempt_id = p
      /\ l.cursor = The(p).cursor + 1 /\ l.stop_requested = The(p).stop_requested
  <2>1. l = [The(p) EXCEPT !.state = "running", !.attempt_id = p,
                           !.cursor = The(p).cursor + 1] /\ l \in Life
    BY LifeTypes, "failed" \in Final DEF Final
  <2> HIDE DEF l
  <2> QED BY <2>1 DEF Life
<1>3. "landed" \in Tx
  BY DEF Tx
<1>4. c \in CallState
  BY <1>3 DEF CallState
<1>5. CallInv(p, c, l)
  BY <1>1, <1>2, AttemptAssumption, SettlementFinal DEF CallInv, CallState, Idle, LandStart, Final
<1>6. ASSUME NEW q \in Attempt, q # p, RunOf[q] = r PROVE CallInv(q, call[q], l)
  <2>1. call[q] \in CallState /\ CallInv(q, call[q], The(p))
    BY <1>6, Facts DEF The
  <2> QED BY <1>1, <1>2, <1>6, <2>1, AttemptAssumption, SettlementFinal DEF CallInv, CallState, Final
<1> HIDE DEF c, l
<1>7. \A q \in Attempt : RunOf[q] = r => CallInv(q, call'[q], l)
  BY <1>1, <1>5, <1>6
<1>8. call' \in [Attempt -> CallState]
  BY <1>1, <1>4
<1> QED BY <1>1, <1>2, <1>7, <1>8, AttemptAssumption, ChainPreserves

\* What the chain does with a result transaction.
LEMMA LandFinishPreserves ==
  ASSUME HostInv, NEW p \in Attempt, LandFinish(p) PROVE HostInv'
<1>f. /\ call \in [Attempt -> CallState] /\ call[p] \in CallState
      /\ life \in [Run -> Life] /\ RunOf[p] \in Run /\ The(p) \in Life
      /\ CallInv(p, call[p], The(p)) /\ RunInv(RunOf[p])
  BY Facts
<1> USE <1>f
<1> DEFINE r == RunOf[p]
           l == Finished(The(p), call[p].outcome)
           c == [call[p] EXCEPT !.finish = "landed"]
<1>1. /\ The(p).state = "running" /\ The(p).cursor = call[p].cursor
      /\ call[p].outcome \in Final
      /\ life' = [life EXCEPT ![r] = l] /\ call' = [call EXCEPT ![p] = c]
      /\ UNCHANGED <<inflight, expired>>
  BY DEF LandFinish, Finish, Finishable, Outcomes, The
<1>2. l \in Life /\ l.state = call[p].outcome /\ l.attempt_id = The(p).attempt_id
      /\ l.cursor = The(p).cursor + 1 /\ l.stop_requested = The(p).stop_requested
  <2>1. l = [The(p) EXCEPT !.state = call[p].outcome, !.cursor = The(p).cursor + 1]
        /\ l \in Life
    BY <1>1, LifeTypes
  <2> HIDE DEF l
  <2> QED BY <2>1 DEF Life
<1>3. "landed" \in Tx
  BY DEF Tx
<1>4. c \in CallState
  BY <1>3 DEF CallState
<1>5. CallInv(p, c, l)
  BY <1>1, <1>2 DEF CallInv, CallState, Idle, LandFinish, Final
<1>6. ASSUME NEW q \in Attempt, q # p, RunOf[q] = r PROVE CallInv(q, call[q], l)
  <2>1. call[q] \in CallState /\ CallInv(q, call[q], The(p))
    BY <1>6, Facts DEF The
  <2>2. call[q].finish # "landed"
    BY <2>1, <1>1, SettlementFinal DEF CallInv, Final
  <2> QED BY <1>1, <1>2, <2>1, <2>2 DEF CallInv, CallState, Life, Final
<1> HIDE DEF c, l
<1>7. \A q \in Attempt : RunOf[q] = r => CallInv(q, call'[q], l)
  BY <1>1, <1>5, <1>6
<1>8. call' \in [Attempt -> CallState]
  BY <1>1, <1>4
<1>9. l.state \notin {"none", "queued", "running"}
  BY <1>1, <1>2 DEF Final
<1> QED BY <1>1, <1>2, <1>7, <1>8, <1>9, ChainPreserves

\* A transaction the chain refuses.
LEMMA AbortPreserves ==
  ASSUME HostInv, NEW p \in Attempt, AbortStart(p) \/ AbortFinish(p) PROVE HostInv'
<1>f. /\ call \in [Attempt -> CallState] /\ call[p] \in CallState
      /\ life \in [Run -> Life] /\ RunOf[p] \in Run /\ The(p) \in Life
      /\ CallInv(p, call[p], The(p)) /\ RunInv(RunOf[p])
  BY Facts
<1> USE <1>f
<1>0. "aborted" \in Tx
  BY DEF Tx
<1>1. CASE AbortStart(p)
  <2> DEFINE c == [call[p] EXCEPT !.begin = "aborted"]
  <2>1. c \in CallState
    BY <1>0 DEF CallState
  <2>2. CallInv(p, c, The(p))
    BY <1>1 DEF AbortStart, CallInv, CallState, Idle
  <2> HIDE DEF c
  <2> QED BY <1>1, <2>1, <2>2, GotoPreserves DEF AbortStart, c
<1>2. CASE AbortFinish(p)
  <2> DEFINE c == [call[p] EXCEPT !.finish = "aborted"]
  <2>1. c \in CallState
    BY <1>0 DEF CallState
  <2>2. CallInv(p, c, The(p))
    BY <1>2 DEF AbortFinish, CallInv, CallState, Idle
  <2> HIDE DEF c
  <2> QED BY <1>2, <2>1, <2>2, GotoPreserves DEF AbortFinish, c
<1> QED BY <1>1, <1>2

\* The human prepares a command, or stops one.
LEMMA HumanPreserves ==
  ASSUME HostInv, NEW r \in Run, Human(r) PROVE HostInv'
<1> DEFINE l == life[r]
           new == IF life[r].state = "none" THEN Created ELSE Stopped(life[r])
<1>0. life \in [Run -> Life] /\ l \in Life /\ RunInv(r) /\ call \in [Attempt -> CallState]
  BY DEF HostInv, TypeOK
<1>1. /\ l.state \in {"none", "queued", "running"} /\ life' = [life EXCEPT ![r] = new]
      /\ UNCHANGED <<call, inflight, expired>>
  BY DEF Human, Create, Stop
<1>2. /\ new \in Life /\ new.state \notin {"none", "succeeded", "failed", "needs_confirmation"}
      /\ new.attempt_id = l.attempt_id
      /\ new.state = "running" => l.state = "running"
      /\ new.cursor = l.cursor + 1 \/ new = l
  <2>1. CASE l.state = "none"
    <3>1. l = NoLife /\ new = [state |-> "queued", cursor |-> 1,
                               stop_requested |-> FALSE, attempt_id |-> NoAttempt]
      BY <1>0, <2>1 DEF RunInv, Created, NoLife
    <3>2. "queued" \in State /\ l.cursor = 0 /\ l.attempt_id = NoAttempt
      BY <3>1 DEF NoLife, State
    <3> HIDE DEF new, l
    <3> QED BY <3>1, <3>2 DEF Life
  <2>2. CASE l.state # "none" /\ l.stop_requested
    BY <1>0, <1>1, <2>2 DEF Stopped
  <2>3. CASE l.state # "none" /\ ~l.stop_requested
    <3> DEFINE state == IF l.state = "queued" THEN "cancelled" ELSE l.state
    <3>1. new = [l EXCEPT !.stop_requested = TRUE, !.state = state, !.cursor = l.cursor + 1]
      BY <1>0, <2>3 DEF Stopped, Life
    <3>2. state \in State /\ state \in {"cancelled", "running"} /\ l.cursor + 1 \in Nat
          /\ (state = "running" => l.state = "running")
      BY <1>0, <1>1, <2>3 DEF Life, State, Final
    <3> HIDE DEF state, new
    <3> QED BY <1>0, <3>1, <3>2 DEF Life
  <2> QED BY <2>1, <2>2, <2>3
<1>3. ASSUME NEW q \in Attempt, RunOf[q] = r PROVE CallInv(q, call[q], new)
  <2>1. call[q] \in CallState /\ CallInv(q, call[q], l)
    BY <1>3 DEF HostInv, TypeOK, The
  <2>2. call[q].finish # "landed" /\ call[q].answer \notin Final
    BY <2>1, <1>1, SettlementFinal DEF CallInv, Final
  <2> HIDE DEF new, l
  <2> QED BY <1>0, <1>2, <2>1, <2>2 DEF CallInv, CallState, Life, Final
<1>4. new.state \in {"none", "queued"} => new.attempt_id = NoAttempt
  BY <1>0, <1>1, <1>2 DEF RunInv, Created, Stopped, Life
<1>5. new.state = "running" => new.attempt_id # NoAttempt
  BY <1>0, <1>2 DEF RunInv
<1> HIDE DEF new
<1> QED BY <1>0, <1>1, <1>2, <1>3, <1>4, <1>5, ChainPreserves

\* The operator settles a stopped review.
LEMMA SettlePreserves ==
  ASSUME HostInv, NEW p \in Attempt, SettleStopped(p) PROVE HostInv'
<1>f. /\ call \in [Attempt -> CallState] /\ call[p] \in CallState
      /\ life \in [Run -> Life] /\ RunOf[p] \in Run /\ The(p) \in Life
      /\ CallInv(p, call[p], The(p)) /\ RunInv(RunOf[p])
  BY Facts
<1> USE <1>f
<1>1. CASE Goto(p, [call[p] EXCEPT !.pc = "load"])
  <2> DEFINE c == [call[p] EXCEPT !.pc = "load"]
  <2>1. c \in CallState
    BY DEF CallState, Pc
  <2>2. CallInv(p, c, The(p))
    BY DEF SettleStopped, CallInv, CallState, Idle, Final
  <2>3. Goto(p, c)
    BY <1>1
  <2> HIDE DEF c
  <2> QED BY <2>1, <2>2, <2>3, GotoPreserves
<1>2. CASE /\ The(p).state = "running"
           /\ Goto(p, [call[p] EXCEPT !.pc = "save", !.report = "stopped",
                                      !.owner = The(p).attempt_id])
  <2> DEFINE c == [call[p] EXCEPT !.pc = "save", !.report = "stopped",
                                  !.owner = The(p).attempt_id]
  <2>0. "save" \in Pc /\ "stopped" \in Report /\ The(p).attempt_id \in Attempt
    BY <1>2 DEF Pc, Report, Life, RunInv, The
  <2>1. c \in CallState
    BY <2>0 DEF CallState
  <2>2. CallInv(p, c, The(p))
    BY <1>2 DEF SettleStopped, CallInv, CallState, Idle, Final
  <2>3. Goto(p, c)
    BY <1>2
  <2> HIDE DEF c
  <2> QED BY <2>1, <2>2, <2>3, GotoPreserves
<1> QED BY <1>1, <1>2 DEF SettleStopped

\* envd dies.
LEMMA CrashPreserves ==
  ASSUME HostInv, Crash PROVE HostInv'
<1> USE Facts
<1>1. ASSUME NEW q \in Attempt PROVE call'[q] \in CallState /\ CallInv(q, call[q], The(q))'
  <2>1. call'[q] = call[q] \/ (/\ call[q].pc \notin {"idle", "done"}
                               /\ call'[q] = [call[q] EXCEPT !.pc = "dead"])
    BY DEF Crash
  <2>2. The(q)' = The(q)
    BY DEF Crash, The
  <2>3. [call[q] EXCEPT !.pc = "dead"] \in CallState
    BY DEF CallState, Pc
  <2>4. call[q].pc \notin {"idle", "done"} => CallInv(q, [call[q] EXCEPT !.pc = "dead"], The(q))
    BY DEF CallInv, CallState
  <2>5. CASE call'[q] = call[q]
    BY <2>2, <2>5 DEF CallInv
  <2>6. CASE call[q].pc \notin {"idle", "done"} /\ call'[q] = [call[q] EXCEPT !.pc = "dead"]
    <3> DEFINE c == [call[q] EXCEPT !.pc = "dead"]
    <3>1. c \in CallState /\ CallInv(q, c, The(q)) /\ call'[q] = c
      BY <2>3, <2>4, <2>6
    <3> HIDE DEF c
    <3> QED BY <2>2, <3>1 DEF CallInv
  <2> QED BY <2>1, <2>5, <2>6
<1>2. call' \in [Attempt -> CallState]
  BY <1>1 DEF Crash
<1>3. TypeOK'
  BY <1>2 DEF HostInv, TypeOK, Crash
<1>4. ASSUME NEW r \in Run PROVE RunInv(r)'
  BY DEF HostInv, RunInv, Crash
<1> QED BY <1>1, <1>3, <1>4 DEF HostInv

\* HostInv holds in every reachable state, for any runs and any calls.
LEMMA HostInvariant == Spec => []HostInv
<1>1. Init => HostInv
  <2> SUFFICES ASSUME Init PROVE HostInv
    OBVIOUS
  <2>1. NoLife \in Life
    BY DEF NoLife, Life, State
  <2>2. ASSUME NEW p \in Attempt PROVE Idle(p) \in CallState
    BY DEF Idle, CallState, Pc, Tx, Report, Answer, Final
  <2>3. TypeOK
    BY <2>1, <2>2 DEF Init, LifeInit, TypeOK
  <2>4. ASSUME NEW p \in Attempt PROVE CallInv(p, Idle(p), NoLife)
    BY AttemptAssumption DEF CallInv, Idle, NoLife, Final
  <2>5. ASSUME NEW p \in Attempt PROVE call[p] = Idle(p) /\ The(p) = NoLife
    BY RunOfAssumption DEF Init, LifeInit, The
  <2>6. ASSUME NEW r \in Run PROVE RunInv(r)
    BY DEF Init, LifeInit, RunInv, NoLife
  <2> QED BY <2>3, <2>4, <2>5, <2>6 DEF HostInv
<1>2. HostInv /\ [Next]_vars => HostInv'
  <2> SUFFICES ASSUME HostInv, [Next]_vars PROVE HostInv'
    OBVIOUS
  <2>1. ASSUME NEW p \in Attempt, WaitTimeout(p) PROVE HostInv'
    BY <2>1, ReturnPreserves DEF WaitTimeout, Answer, Final
  <2>2. ASSUME NEW p \in Attempt, Enter(p) \/ SettleStopped(p) \/ Step(p) PROVE HostInv'
    BY <2>2, EnterPreserves, SettlePreserves, StepPreserves
  <2>3. ASSUME NEW p \in Attempt, Ledger(p) PROVE HostInv'
    BY <2>3, LandStartPreserves, LandFinishPreserves, AbortPreserves DEF Ledger
  <2>4. ASSUME NEW r \in Run, Expire(r) PROVE HostInv'
    BY <2>4 DEF Expire, HostInv, TypeOK, CallInv, RunInv, The
  <2>5. CASE UNCHANGED vars
    BY <2>5 DEF vars, HostInv, TypeOK, CallInv, RunInv, The
  <2> QED BY <2>1, <2>2, <2>3, <2>4, <2>5, HumanPreserves, CrashPreserves DEF Next
<1> QED BY <1>1, <1>2, PTL DEF Spec

\* However calls overlap, receipts are lost and envd crashes, the adapter is
\* invoked at most once for a run.
THEOREM AtMostOnce == Spec => []AdapterAtMostOnce
<1>1. HostInv => AdapterAtMostOnce
  BY RunOfAssumption DEF HostInv, CallInv, AdapterAtMostOnce, The
<1> QED BY <1>1, HostInvariant, PTL

\* Every published result can be read again: its record and the run agree.
THEOREM ResultAgrees == Spec => []ResultAgreesWithChain
<1>1. HostInv => ResultAgreesWithChain
  BY DEF HostInv, CallInv, ResultAgreesWithChain
<1> QED BY <1>1, HostInvariant, PTL

\* No call is answered with an outcome that is not, for good, the chain's.
THEOREM AnswersAreTruthful == Spec => []AnswersTruthful
<1>1. HostInv => AnswersTruthful
  BY DEF HostInv, CallInv, AnswersTruthful
<1> QED BY <1>1, HostInvariant, PTL

\* A refusal is definite, whatever is still on its way to the chain: a refused
\* start never takes effect, and a call told that gas is missing, before or
\* after its start, neither invokes the adapter nor sends a result.
THEOREM RejectionsAreDefinite == Spec => []RejectionIsDefinite
<1>1. HostInv => RejectionIsDefinite
  BY DEF HostInv, CallInv, RejectionIsDefinite
<1> QED BY <1>1, HostInvariant, PTL
=============================================================================
