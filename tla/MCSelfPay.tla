------------------------------ MODULE MCSelfPay ------------------------------
(* Instances of SelfPay for TLC. *)
EXTENDS SelfPay, TLC

CONSTANTS r1, r2, m1, m2, c1, c2, c3, c4, k1

\* Three calls for one request, two of them through one manager, and one call
\* for another request through the other manager.
Requests == c1 :> r1 @@ c2 :> r1 @@ c3 :> r1 @@ c4 :> r2
Managers == c1 :> m1 @@ c2 :> m1 @@ c3 :> m2 @@ c4 :> m2
MCRequestOf == [c \in Call |-> Requests[c]]
MCManagerOf == [c \in Call |-> Managers[c]]

\* Three calls take place: one request in a shared flight, or two requests that
\* compete for the Gas.
Flight == call[c4].pc = "idle"
Windows == call[c2].pc = "idle"

MCNext == Next /\ (Flight' \/ Windows')

MCSpec == Init /\ [][MCNext]_vars
=============================================================================
