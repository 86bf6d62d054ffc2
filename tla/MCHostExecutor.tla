--------------------------- MODULE MCHostExecutor ---------------------------
(* An instance of HostExecutor for TLC. *)
EXTENDS HostExecutor

CONSTANTS r1, p1, p2, p3

\* Every call delivers the same command: calls for different commands share
\* nothing but the crash.
OneRun == [p \in Attempt |-> r1]

\* Calls are interchangeable: they are named in the order in which they come.
InOrder ==
  /\ call[p2].pc # "idle" => call[p1].pc # "idle"
  /\ call[p3].pc # "idle" => call[p2].pc # "idle"

MCNext == Next /\ InOrder'

MCFairSpec == Init /\ [][MCNext]_vars /\ \A p \in Attempt : WF_vars(Step(p))
=============================================================================
