--------------------------- MODULE CountingLemmas ---------------------------
(***************************************************************************)
(* Counting the tasks at given places: facts the proofs about the packet   *)
(* memory share.                                                           *)
(***************************************************************************)
EXTENDS Integers, FiniteSets, FiniteSetTheorems, TLAPS

(***************************************************************************)
(* Two sets that agree except perhaps on t differ in size by at most one.  *)
(***************************************************************************)
LEMMA CountMove ==
    ASSUME NEW S, NEW R, NEW t, IsFiniteSet(S),
           \A u : u # t => (u \in R <=> u \in S)
    PROVE  /\ IsFiniteSet(R)
           /\ Cardinality(S) \in Nat
           /\ Cardinality(R) \in Nat
           /\ Cardinality(R) = Cardinality(S) + (IF t \in R THEN 1 ELSE 0)
                                              - (IF t \in S THEN 1 ELSE 0)
<1>1. Cardinality(S) \in Nat
  BY FS_CardinalityType
<1>2. CASE t \in R /\ t \notin S
  <2>1. R = S \cup {t}
    BY <1>2
  <2>2. QED
    BY <1>1, <1>2, <2>1, FS_AddElement
<1>3. CASE t \notin R /\ t \in S
  <2>1. R = S \ {t}
    BY <1>3
  <2>2. IsFiniteSet(R) /\ Cardinality(R) = Cardinality(S) - 1
    BY <1>3, <2>1, FS_RemoveElement
  <2>3. Cardinality(R) \in Nat
    BY <2>2, FS_CardinalityType
  <2>4. QED
    BY <1>1, <1>3, <2>2, <2>3
<1>4. CASE t \in R <=> t \in S
  <2>1. R = S
    BY <1>4
  <2>2. QED
    BY <1>1, <1>4, <2>1
<1>5. QED
  BY <1>2, <1>3, <1>4

(***************************************************************************)
(* A subset of a finite set is counted by a natural number.                *)
(***************************************************************************)
LEMMA SubsetCount ==
    ASSUME NEW S, IsFiniteSet(S), NEW R \in SUBSET S
    PROVE  /\ IsFiniteSet(R)
           /\ Cardinality(R) \in Nat
           /\ Cardinality(R) <= Cardinality(S)
  BY FS_Subset, FS_CardinalityType

=============================================================================
