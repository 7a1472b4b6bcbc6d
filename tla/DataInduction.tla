---------------------------- MODULE DataInduction ----------------------------
(***************************************************************************)
(* Induction over data: up to a number, and over the elements of a finite  *)
(* set.  Shared by the proofs about what a statement answers and about     *)
(* what is fetched of it.                                                  *)
(***************************************************************************)
EXTENDS Integers, FiniteSets, FiniteSetTheorems, WellFoundedInduction, TLAPS

\* A set that holds 0 and, below N, with each number the next one holds the numbers up to N.
LEMMA IntervalInduction ==
    ASSUME NEW N \in Nat, NEW S, 0 \in S, \A n \in 0 .. N - 1 : n \in S => n + 1 \in S
    PROVE  0 .. N \subseteq S
<1> DEFINE T == (0 .. N) \ S
<1> SUFFICES ASSUME T # {} PROVE FALSE
  OBVIOUS
<1>1. T \subseteq Nat
  OBVIOUS
<1>2. PICK m \in T : \A k \in T : <<k, m>> \notin OpToRel(<, Nat)
  BY <1>1, NatLessThanWellFounded, WFMin
<1>3. \A k \in T : ~ (k < m)
  BY <1>1, <1>2 DEF OpToRel
<1>4. m # 0 /\ m - 1 \in 0 .. N - 1 /\ m - 1 < m
  OBVIOUS
<1>5. m - 1 \in S
  BY <1>3, <1>4
<1> QED BY <1>4, <1>5

\* A finite set that is not empty has an element that ranks highest.
LEMMA HasGreatest ==
    ASSUME NEW S, IsFiniteSet(S), S # {}, NEW f \in [S -> Int]
    PROVE  \E m \in S : \A x \in S : f[m] >= f[x]
<1> DEFINE N == Cardinality(S)
           Greatest(U, m) == m \in U /\ \A x \in U : f[m] >= f[x]
           D == {n \in 0 .. N : \A U \in SUBSET S : Cardinality(U) = n /\ U # {} => \E m \in U : Greatest(U, m)}
<1>0. N \in Nat /\ \A U \in SUBSET S : IsFiniteSet(U)
  BY FS_CardinalityType, FS_Subset
<1>1. 0 \in D
  BY <1>0, FS_EmptySet
<1>2. ASSUME NEW n \in 0 .. N - 1, n \in D PROVE n + 1 \in D
  <2> SUFFICES ASSUME NEW U \in SUBSET S, Cardinality(U) = n + 1, U # {}
               PROVE  \E m \in U : Greatest(U, m)
    BY <1>0
  <2>1. PICK y \in U : TRUE
    OBVIOUS
  <2> DEFINE V == U \ {y}
  <2>2. Cardinality(V) = n /\ V \in SUBSET S
    <3>1. IsFiniteSet(U)
      BY <1>0
    <3>2. Cardinality(V) = Cardinality(U) - 1
      BY <2>1, <3>1, FS_RemoveElement
    <3>3. n \in Int
      OBVIOUS
    <3> HIDE DEF V
    <3>4. Cardinality(V) = n
      BY <3>2, <3>3
    <3> QED BY <3>4 DEF V
  <2>3. CASE V = {}
    <3>1. U = {y} /\ f[y] \in Int
      BY <2>1, <2>3
    <3>2. Greatest(U, y)
      BY <3>1
    <3> QED BY <2>1, <3>2
  <2>4. CASE V # {}
    <3>1. PICK m \in V : Greatest(V, m)
      BY <1>2, <2>2, <2>4
    <3>2. \A x \in U : x = y \/ x \in V
      OBVIOUS
    <3>3. \A x \in U : f[x] \in Int
      OBVIOUS
    <3>4. y \in U /\ m \in U
      BY <2>1
    <3> HIDE DEF V
    <3>5. CASE f[y] >= f[m]
      <4>1. Greatest(U, y)
        BY <3>1, <3>2, <3>3, <3>4, <3>5
      <4> QED BY <3>4, <4>1
    <3>6. CASE ~ (f[y] >= f[m])
      <4>1. Greatest(U, m)
        BY <3>1, <3>2, <3>3, <3>4, <3>6
      <4> QED BY <3>4, <4>1
    <3> QED BY <3>5, <3>6
  <2> QED BY <2>3, <2>4
<1>3. N \in D
  <2> HIDE DEF D
  <2> QED BY <1>0, <1>1, <1>2, IntervalInduction
<1> QED BY <1>3

\* T is the top of S: nothing outside ranks above it.
Top(T, S, f) == \A x \in T : \A y \in S \ T : f[x] >= f[y]

\* A top of a finite set is part of a top of any greater size.
LEMMA TopExtends ==
    ASSUME NEW S, IsFiniteSet(S), NEW f \in [S -> Int], NEW A \in SUBSET S,
           Top(A, S, f), NEW n \in Nat, Cardinality(A) <= n, n <= Cardinality(S)
    PROVE  \E T \in SUBSET S : A \subseteq T /\ Cardinality(T) = n /\ Top(T, S, f)
<1> DEFINE C == Cardinality(A)
           Fits(T, m) == A \subseteq T /\ Cardinality(T) = C + m /\ Top(T, S, f)
           D == {m \in 0 .. n - C : \E T \in SUBSET S : Fits(T, m)}
<1>0. C \in Nat /\ n - C \in Nat /\ Cardinality(S) \in Nat /\ \A U \in SUBSET S : IsFiniteSet(U)
  BY FS_CardinalityType, FS_Subset
<1>1. 0 \in D
  <2>1. Fits(A, 0)
    BY <1>0
  <2> QED BY <1>0, <2>1
<1>2. ASSUME NEW m \in 0 .. n - C - 1, m \in D PROVE m + 1 \in D
  <2>1. PICK T \in SUBSET S : Fits(T, m)
    BY <1>2
  <2>2. S \ T # {} /\ IsFiniteSet(S \ T)
    <3>1. T # S
      BY <1>0, <2>1
    <3> QED BY <1>0, <3>1
  <2>3. PICK y \in S \ T : \A x \in S \ T : f[y] >= f[x]
    <3> DEFINE g == [x \in S \ T |-> f[x]]
    <3>1. g \in [S \ T -> Int]
      OBVIOUS
    <3>2. \E y \in S \ T : \A x \in S \ T : g[y] >= g[x]
      <4> HIDE DEF g
      <4> QED BY <2>2, <3>1, HasGreatest
    <3> QED BY <3>2
  <2> DEFINE U == T \cup {y}
  <2>4. U \in SUBSET S /\ A \subseteq U /\ Cardinality(U) = C + (m + 1)
    <3>1. Cardinality(U) = Cardinality(T) + 1
      BY <1>0, <2>3, FS_AddElement
    <3> QED BY <1>0, <2>1, <2>3, <3>1
  <2>5. Top(U, S, f)
    <3>1. Top(T, S, f)
      BY <2>1
    <3>2. \A x \in U : \A z \in S \ U : f[x] >= f[z]
      BY <2>3, <3>1 DEF Top
    <3> QED BY <3>2 DEF Top
  <2>6. m + 1 \in 0 .. n - C
    BY <1>0
  <2> QED BY <2>4, <2>5, <2>6
<1>3. n - C \in D
  <2> HIDE DEF D
  <2>1. 0 .. n - C \subseteq D
    BY <1>0, <1>1, <1>2, IntervalInduction
  <2> QED BY <1>0, <2>1
<1>4. PICK T \in SUBSET S : Fits(T, n - C)
  BY <1>3
<1> QED BY <1>0, <1>4
=============================================================================
