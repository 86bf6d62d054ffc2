----------------------------- MODULE MCNodeQueue -----------------------------
(***************************************************************************)
(* Two instances of NodeExecution with two capabilities, explored side by  *)
(* side: `instance' is chosen in the first state and confines every step.  *)
(***************************************************************************)
EXTENDS MCNodeExecution

VARIABLE instance

\* Every kind of capability and command, before anything expires; no record is
\* saved but by a command that finishes.
DeliveryStep ==
  /\ instance = "delivery"
  /\ UNCHANGED <<clock, key_version>>
  /\ run' = run => record' = record

\* Two runs of one intent, against key rotation and an administrator's records.
KeysStep ==
  /\ instance = "keys"
  /\ record'[2] = 0
  /\ \A c \in Cap : /\ authority'[c].issued => authority'[c].contract
                    /\ cap'[c].claims \subseteq {Control}
                    /\ \A key \in result_keys'[c] : key[1] = 1

QueueInit == Init /\ instance \in {"delivery", "keys"}

QueueNext == Next /\ (DeliveryStep \/ KeysStep) /\ UNCHANGED instance

QueueSpec == QueueInit /\ [][QueueNext]_<<vars, instance>>
=============================================================================
