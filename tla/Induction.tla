------------------------------ MODULE Induction ------------------------------
(***************************************************************************)
(* Induction over numbers and finite sets, as facts about sets: what has a *)
(* property is the set that the induction is about, so that no fact takes  *)
(* an operator.  All of them come from one fact of FiniteSetTheorems, that *)
(* finite sets cannot become smaller for ever.                             *)
(***************************************************************************)
EXTENDS FiniteSetTheorems, TLAPS

(* Of some finite sets, one is minimal.                                    *)
LEMMA MinimalSet ==
  ASSUME NEW S, NEW F, F # {}, \A T \in F : T \subseteq S /\ IsFiniteSet(T)
  PROVE  \E T \in F : \A U \in F : U \subseteq T => U = T
<1>1. F \subseteq FiniteSubsetsOf(S)
  BY DEF FiniteSubsetsOf
<1>2. IsWellFoundedOn(StrictSubsetOrdering(S), FiniteSubsetsOf(S))
  BY FS_StrictSubsetOrderingWellFounded
<1>3. PICK T \in F : \A U \in F : <<U, T>> \notin StrictSubsetOrdering(S)
  BY <1>1, <1>2, WFMin
<1> QED
  BY <1>3 DEF StrictSubsetOrdering

(* Every set of numbers has a least element.                               *)
LEMMA LeastElement ==
  ASSUME NEW A \in SUBSET Nat, A # {}
  PROVE  \E n \in A : \A m \in A : n <= m
<1> DEFINE F == {1..n : n \in A}
<1>1. F # {} /\ \A T \in F : T \subseteq Nat /\ IsFiniteSet(T)
  <2>1. \A n \in A : 1..n \subseteq Nat /\ IsFiniteSet(1..n)
    BY FS_Interval
  <2> QED
    BY <2>1, Zenon
<1>2. PICK T \in F : \A U \in F : U \subseteq T => U = T
  <2> HIDE DEF F
  <2> QED
    BY <1>1, MinimalSet
<1>3. PICK n \in A : T = 1..n
  OBVIOUS
<1>4. ASSUME NEW m \in A, m < n PROVE FALSE
  <2>1. 1..m \subseteq 1..n /\ n \in 1..n /\ n \notin 1..m
    BY <1>4
  <2>2. 1..m \in F
    OBVIOUS
  <2> QED
    BY <1>2, <1>3, <2>1, <2>2
<1> QED
  BY <1>4

(* A set of numbers with 0 and the successor of each is all of them.       *)
LEMMA Numbers ==
  ASSUME NEW A, 0 \in A, \A n \in Nat : n \in A => n + 1 \in A
  PROVE  Nat \subseteq A
<1> SUFFICES ASSUME Nat \ A # {} PROVE FALSE
  OBVIOUS
<1>1. PICK n \in Nat \ A : \A m \in Nat \ A : n <= m
  BY LeastElement
<1>2. n - 1 \in Nat /\ n - 1 \in A
  BY <1>1
<1> QED
  BY <1>1, <1>2

(* A collection of sets with the empty one, and with each set also that    *)
(* set and one more element of S, has S, if that is finite.                *)
LEMMA FiniteSubsets ==
  ASSUME NEW S, IsFiniteSet(S), NEW F, {} \in F,
         \A T \in SUBSET S : \A x \in S \ T : T \in F => T \cup {x} \in F
  PROVE  S \in F
<1> DEFINE G == {T \in SUBSET S : T \notin F}
<1>1. \A T \in G : T \subseteq S /\ IsFiniteSet(T)
  BY FS_Subset
<1>2. ASSUME NEW T \in G, \A U \in G : U \subseteq T => U = T
      PROVE  FALSE
  <2>1. PICK x \in T : TRUE
    BY <1>2
  <2>2. T \ {x} \in SUBSET S /\ T \ {x} \subseteq T /\ T \ {x} # T /\ x \in S \ (T \ {x})
    BY <1>2, <2>1
  <2>3. T \ {x} \in F
    BY <1>2, <2>2
  <2>4. (T \ {x}) \cup {x} \in F /\ (T \ {x}) \cup {x} = T
    BY <2>1, <2>2, <2>3
  <2> QED
    BY <1>2, <2>4
<1>3. G = {}
  <2> HIDE DEF G
  <2> QED
    BY <1>1, <1>2, MinimalSet, SMTT(30)
<1> QED
  BY <1>3

(* What Min of FiniteSetsExt chooses.                                      *)
LEMMA Minimum ==
  ASSUME NEW A \in SUBSET Nat, A # {}
  PROVE  LET m == CHOOSE x \in A : \A y \in A : x =< y IN m \in A /\ \A y \in A : m <= y
BY LeastElement

\* g[k] is what the function G makes of a when it is applied k times.
Iterates(g, S, G, a, n) == g \in [0..n -> S] /\ g[0] = a /\ \A k \in 1..n : g[k] = G[g[k - 1]]

(* A function can be applied n times in a row.                             *)
LEMMA Iterated ==
  ASSUME NEW S, NEW G \in [S -> S], NEW a \in S, NEW n \in Nat
  PROVE  \E g : Iterates(g, S, G, a, n)
<1> DEFINE P(m) == \E g \in [0..m -> S] : g[0] = a /\ \A k \in 1..m : g[k] = G[g[k - 1]]
           A == {m \in Nat : P(m)}
<1>1. P(0)
  <2> DEFINE g == [k \in 0..0 |-> a]
  <2>1. g \in [0..0 -> S] /\ g[0] = a /\ \A k \in 1..0 : g[k] = G[g[k - 1]]
    OBVIOUS
  <2> QED
    BY <2>1
<1>2. ASSUME NEW m \in Nat, P(m) PROVE P(m + 1)
  <2>1. PICK f \in [0..m -> S] : f[0] = a /\ \A k \in 1..m : f[k] = G[f[k - 1]]
    BY <1>2
  <2> DEFINE g == [k \in 0..(m + 1) |-> IF k = m + 1 THEN G[f[m]] ELSE f[k]]
  <2>2. \A k \in 0..m : g[k] = f[k]
    OBVIOUS
  <2>3. g[m + 1] = G[f[m]] /\ f[m] \in S
    OBVIOUS
  <2>4. g \in [0..(m + 1) -> S]
    <3>1. \A k \in 0..(m + 1) : (IF k = m + 1 THEN G[f[m]] ELSE f[k]) \in S
      BY <2>3
    <3> QED
      BY <3>1
  <2> HIDE DEF g
  <2>5. g[0] = a
    BY <2>1, <2>2
  <2>6. ASSUME NEW k \in 1..(m + 1) PROVE g[k] = G[g[k - 1]]
    <3>1. k - 1 \in 0..m /\ (k = m + 1 \/ k \in 1..m)
      OBVIOUS
    <3> QED
      BY <2>1, <2>2, <2>3, <3>1
  <2> QED
    BY <2>4, <2>5, <2>6
<1>3. Nat \subseteq A
  <2>1. 0 \in A /\ \A m \in Nat : m \in A => m + 1 \in A
    BY <1>1, <1>2
  <2> HIDE DEF A
  <2> QED
    BY <2>1, Numbers
<1> QED
  BY <1>3 DEF Iterates

(* What Max of FiniteSetsExt chooses, of numbers up to n.                  *)
LEMMA Maximum ==
  ASSUME NEW n \in Nat, NEW T \in SUBSET (1..n), T # {}
  PROVE  LET m == CHOOSE x \in T : \A y \in T : x >= y IN m \in T /\ \A y \in T : m >= y
<1> DEFINE A == {n - x : x \in T}
<1>1. A \in SUBSET Nat /\ A # {}
  <2>1. \A x \in T : n - x \in Nat
    OBVIOUS
  <2> QED
    BY <2>1
<1>2. PICK a \in A : \A b \in A : a <= b
  <2> HIDE DEF A
  <2> QED
    BY <1>1, LeastElement
<1>3. PICK x \in T : a = n - x
  BY <1>2
<1>4. \A y \in T : x >= y
  <2> SUFFICES ASSUME NEW y \in T PROVE x >= y
    OBVIOUS
  <2>1. n - y \in A
    OBVIOUS
  <2>2. n - x <= n - y /\ x \in Nat /\ y \in Nat
    BY <1>2, <1>3, <2>1
  <2> QED
    BY <2>2
<1> QED
  BY <1>3, <1>4
===============================================================================
