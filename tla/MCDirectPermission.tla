-------------------------- MODULE MCDirectPermission --------------------------
(***************************************************************************)
(* Two instances of DirectPermission, explored side by side: `instance' is *)
(* chosen in the first state and confines every step.                      *)
(***************************************************************************)
EXTENDS DirectPermission

CONSTANTS m1, m2, c1, c2, c3, k1, k2, d1, d2, read, write

VARIABLE instance

mcVars == <<vars, instance>>

\* Two commands for the first message, one ordinary and one under an approval;
\* one command for the second.
Names == [c \in Command |-> IF c = c3 THEN m2 ELSE m1]
Capabilities == [c \in Command |-> IF c = c2 THEN k2 ELSE k1]
Kinds == [m \in Message |-> IF m = m2 THEN read ELSE write]
Amounts == [m \in Message |-> 1]

\* A policy that allows one call in all, and one that allows two of any kind.
Policies == {[kinds |-> {read, write}, max_calls |-> 1, budget_limit |-> 1],
             [kinds |-> {read}, max_calls |-> 1, budget_limit |-> 2]}

\* Two messages of one device, over three versions, while nothing else changes.
LedgerStep ==
  /\ instance = "ledger"
  /\ UNCHANGED <<workspace, source, grant>>
  /\ ~perm'.expired
  /\ \A m \in Message : /\ message'[m].writer # d2 /\ ~message'[m].expired
                        /\ approval'[m].by # d2

\* One message of two devices, against every change around the permission.
LapseStep ==
  /\ instance = "lapse"
  /\ perm'.version <= 2 /\ message'[m2].version = 0

MCInit == Init /\ instance \in {"ledger", "lapse"}

MCNext == Next /\ (LedgerStep \/ LapseStep) /\ UNCHANGED instance

MCSpec == MCInit /\ [][MCNext]_mcVars
=============================================================================
