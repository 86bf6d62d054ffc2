-------------------------- MODULE MCIdentityCreation --------------------------
(***************************************************************************)
(* Two instances of IdentityCreation, explored side by side: `instance' is *)
(* chosen in the first state and confines every step.                      *)
(***************************************************************************)
EXTENDS IdentityCreation, TLC

VARIABLE instance

Quotes == (sent \cup {window[w].quote : w \in Window}) \ {None}

\* The organization of a Human who is there, with up to three attempts; or both
\* stages, with two transactions in all.
RetriesStep == instance = "retries"
StagesStep == instance = "stages" /\ Cardinality(Quotes') <= 2

MCInit ==
  /\ Init
  /\ instance = IF "identity" \in created THEN "retries" ELSE "stages"

MCNext == Next /\ (RetriesStep \/ StagesStep) /\ UNCHANGED instance

MCSpec == MCInit /\ [][MCNext]_<<vars, instance>>

\* Neither windows nor digests are told apart.
Symmetry == Permutations(Window) \cup Permutations(Digest)
=============================================================================
