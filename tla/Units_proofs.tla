---------------------------- MODULE Units_proofs -----------------------------
(***************************************************************************)
(* What the ledgers of the contracts rest on: adding or settling one claim *)
(* adds or removes one block of units, of as many units as its amount.     *)
(***************************************************************************)
EXTENDS Units, FiniteSetTheorems, TLAPS

\* The units of an amount are as many as the amount.
LEMMA UnitsCardinality ==
  ASSUME NEW q, NEW n \in Nat
  PROVE  IsFiniteSet(Units(q, n)) /\ Cardinality(Units(q, n)) = n
<1>1. IsFiniteSet({q}) /\ Cardinality({q}) = 1
  BY FS_Singleton
<1>2. IsFiniteSet(1 .. n) /\ Cardinality(1 .. n) = n
  BY FS_Interval
<1> DEFINE S == {q}
           T == 1 .. n
<1>3. Units(q, n) = S \X T
  BY DEF Units
<1> HIDE DEF S, T
<1>4. IsFiniteSet(S) /\ IsFiniteSet(T) /\ Cardinality(S) = 1 /\ Cardinality(T) = n
  BY <1>1, <1>2 DEF S, T
<1>5. IsFiniteSet(S \X T) /\ Cardinality(S \X T) = Cardinality(S) * Cardinality(T)
  BY <1>4, FS_Product
<1> QED
  BY <1>3, <1>4, <1>5

\* Adding a disjoint block of units adds its amount.
LEMMA AddUnits ==
  ASSUME NEW S, IsFiniteSet(S), NEW q, NEW n \in Nat, S \cap Units(q, n) = {}
  PROVE  /\ IsFiniteSet(S \cup Units(q, n))
         /\ Cardinality(S \cup Units(q, n)) = Cardinality(S) + n
<1>1. IsFiniteSet(Units(q, n)) /\ Cardinality(Units(q, n)) = n
  BY UnitsCardinality
<1>2. Cardinality(S) \in Nat /\ Cardinality({}) = 0
  BY FS_CardinalityType, FS_EmptySet
<1> QED
  BY <1>1, <1>2, FS_Union

\* Units of other amounts are different units.
LEMMA UnitsDisjoint ==
  ASSUME NEW q, NEW n, NEW U, \A u \in U : u[1] # q
  PROVE  U \cap Units(q, n) = {}
  BY DEF Units

\* The block of one more c adds its amount, and taking it away removes it.
LEMMA BlockAdded ==
  ASSUME NEW S, NEW c, c \notin S, NEW f, NEW g, NEW n \in Nat,
         \A d \in S : g[d] = f[d], g[c] = n
  PROVE  /\ IsFiniteSet(Blocks(S \cup {c}, g)) <=> IsFiniteSet(Blocks(S, f))
         /\ IsFiniteSet(Blocks(S, f)) =>
              Cardinality(Blocks(S \cup {c}, g)) = Cardinality(Blocks(S, f)) + n
<1> DEFINE A == Blocks(S, f)
           B == Units(c, n)
           C == Blocks(S \cup {c}, g)
<1>1. C = A \cup B
  BY DEF Blocks
<1>2. A \cap B = {}
  BY DEF Blocks, Units
<1>3. IsFiniteSet(B) /\ Cardinality(B) = n
  BY UnitsCardinality
<1> HIDE DEF A, B, C
<1>4. IsFiniteSet(C) => IsFiniteSet(A)
  BY <1>1, FS_Subset
<1>5. IsFiniteSet(A) => IsFiniteSet(C) /\ Cardinality(C) = Cardinality(A) + n
  <2> HAVE IsFiniteSet(A)
  <2>1. Cardinality(A) \in Nat /\ Cardinality({}) = 0
    BY FS_CardinalityType, FS_EmptySet
  <2>2. /\ IsFiniteSet(A \cup B)
        /\ Cardinality(A \cup B) = Cardinality(A) + Cardinality(B) - Cardinality(A \cap B)
    BY <1>3, FS_Union
  <2>3. Cardinality(A \cap B) = 0
    BY <1>2, <2>1, Zenon
  <2>4. IsFiniteSet(C) /\ Cardinality(C) = Cardinality(A \cup B)
    BY <1>1, <2>2, Zenon
  <2> QED
    BY <1>3, <2>1, <2>2, <2>3, <2>4
<1> QED
  BY <1>4, <1>5 DEF A, C
=============================================================================
