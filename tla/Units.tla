-------------------------------- MODULE Units --------------------------------
(***************************************************************************)
(* Sums of amounts, as the contracts keep them in their ledgers.  The n    *)
(* units of the amount of c are a set, and a sum over many c is the        *)
(* cardinality of the union of their units: what a claim adds to a ledger  *)
(* or takes from it is one block of the union.                             *)
(***************************************************************************)
EXTENDS Naturals, FiniteSets

Units(c, n) == {c} \X (1 .. n)

\* The units of f over S: their number is the sum of f[c] over the c of S.
Blocks(S, f) == UNION {Units(c, f[c]) : c \in S}
=============================================================================
