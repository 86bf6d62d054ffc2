-------------------------- MODULE CommandLifecycle --------------------------
(***************************************************************************)
(* What the chain promises a Host about one signed command, and nothing    *)
(* about how: a run is created once, is started at most once and by one    *)
(* attempt, reaches at most one final state, is cancelled without a start  *)
(* only while it is queued, and every change advances its cursor.          *)
(*                                                                         *)
(* NodeExecution is shown to implement this module.  HostExecutor is built *)
(* on it: it sees the chain through these four transactions only.          *)
(***************************************************************************)
EXTENDS Naturals

CONSTANTS
  Run,        \* runs
  Attempt,    \* start attempts, 32 random bytes each
  NoAttempt   \* the attempt of a run that was never started

ASSUME AttemptAssumption == NoAttempt \notin Attempt

VARIABLE life \* what is recorded of every run

Final == {"succeeded", "failed", "needs_confirmation", "cancelled"}
State == {"none", "queued", "running"} \cup Final

Life == [state : State, cursor : Nat, stop_requested : BOOLEAN,
         attempt_id : Attempt \cup {NoAttempt}]

NoLife == [state |-> "none", cursor |-> 0, stop_requested |-> FALSE,
           attempt_id |-> NoAttempt]

\* prepare creates the run in state QUEUED with cursor 1.
Created == [state |-> "queued", cursor |-> 1, stop_requested |-> FALSE,
            attempt_id |-> NoAttempt]

\* begin: what it does to the run it is given.  Every change advances the
\* cursor.
Started(l, a) ==
  [l EXCEPT !.state = "running", !.attempt_id = a, !.cursor = @ + 1]

\* finish: the final states a running run may be given.
Outcomes(l) == IF l.stop_requested THEN Final ELSE Final \ {"cancelled"}

Finished(l, outcome) == [l EXCEPT !.state = outcome, !.cursor = @ + 1]

\* request_stop_authorized: a queued run is cancelled at once, a running one
\* is only asked to stop, and a second request changes nothing.
Stopped(l) ==
  IF l.stop_requested THEN l
  ELSE [l EXCEPT !.stop_requested = TRUE, !.cursor = @ + 1,
                 !.state = IF @ = "queued" THEN "cancelled" ELSE @]

-----------------------------------------------------------------------------
LifeInit == life = [r \in Run |-> NoLife]

Create(r) ==
  /\ life[r].state = "none"
  /\ life' = [life EXCEPT ![r] = Created]

\* Fault: a run whose start is unconfirmed may be started again.
StartableAgain(l) == l.state \in {"queued", "running"} /\ ~l.stop_requested

Startable(l) == l.state = "queued" /\ ~l.stop_requested

Start(r, a) ==
  /\ Startable(life[r])
  /\ life' = [life EXCEPT ![r] = Started(@, a)]

\* Fault: the cursor the Host read is not compared.
FinishableAnyCursor(l, cursor) == l.state = "running"

\* Fault: neither is the state, and a result replaces an earlier one.
FinishableAgain(l, cursor) == l.state \notin {"none", "queued"}

Finishable(l, cursor) == l.state = "running" /\ l.cursor = cursor

Finish(r, cursor, outcome) ==
  /\ Finishable(life[r], cursor)
  /\ outcome \in Outcomes(life[r])
  /\ life' = [life EXCEPT ![r] = Finished(@, outcome)]

Stop(r) ==
  /\ life[r].state \in {"queued", "running"}
  /\ life' = [life EXCEPT ![r] = Stopped(@)]

LifeNext ==
  \E r \in Run :
    \/ Create(r)
    \/ \E a \in Attempt : Start(r, a)
    \/ \E outcome \in Final : Finish(r, life[r].cursor, outcome)
    \/ Stop(r)

LifeSpec == LifeInit /\ [][LifeNext]_life
=============================================================================
