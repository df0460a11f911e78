----------------------------- MODULE FoldProofs -----------------------------
(***************************************************************************)
(* What the proofs of several modules need of naturals, of the places of a *)
(* sequence, and of the folds of the community modules: the equation those *)
(* are defined by has a solution, so that a fold over a sequence can be    *)
(* unrolled into the values it runs through.                               *)
(***************************************************************************)
EXTENDS Integers, FiniteSetsExt, FiniteSetTheorems, WellFoundedInduction, TLAPS

(* A set of naturals that is not empty has a least element. *)
LEMMA LeastExists ==
  ASSUME NEW T \in SUBSET Nat, T # {}
  PROVE  \E x \in T : \A y \in T : x <= y
<1> DEFINE R == {ss \in Nat \X Nat : ss[1] < ss[2]}
<1>1. IsWellFoundedOn(R, Nat)
  BY NatLessThanWellFounded, Zenon DEF OpToRel
<1> HIDE DEF R
<1>2. PICK x \in T : \A y \in T : <<y, x>> \notin R
  BY <1>1, WFMin, Zenon
<1>3. \A y \in T : ~(y < x)
  BY <1>2 DEF R
<1> QED BY <1>3

(* Induction over the places of a sequence. *)
LEMMA Inducts ==
  ASSUME NEW n \in Nat, NEW A \in SUBSET (0..n), 0 \in A,
         \A i \in 1..n : i - 1 \in A => i \in A
  PROVE  A = 0..n
<1> SUFFICES ASSUME (0..n) \ A # {} PROVE FALSE
  OBVIOUS
<1>1. (0..n) \ A \in SUBSET Nat OBVIOUS
<1>2. PICK i \in (0..n) \ A : \A j \in (0..n) \ A : i <= j
  BY <1>1, LeastExists
<1>3. i \in 1..n /\ i - 1 \in 0..n BY <1>2
<1>4. i - 1 \in A BY <1>2, <1>3
<1> QED BY <1>2, <1>3, <1>4

(* The largest member of a set of places. *)
LEMMA LargestIs ==
  ASSUME NEW i \in Nat, NEW S \in SUBSET (1..i), i \in S
  PROVE  Max(S) = i
<1>1. \A y \in S : y \in Nat /\ i >= y
  OBVIOUS
<1>2. Max(S) = CHOOSE m \in S : \A y \in S : m >= y
  BY DEF Max
<1>3. PICK m \in S : m = Max(S) /\ \A y \in S : m >= y
  BY <1>1, <1>2
<1>4. m \in Nat /\ m >= i /\ i >= m BY <1>1, <1>3
<1> QED BY <1>3, <1>4

LEMMA LargestIn ==
  ASSUME NEW n \in Nat, NEW S \in SUBSET (1..n), S # {}
  PROVE  Max(S) \in S
<1> DEFINE below == {n - i : i \in S}
<1>1. \A i \in S : i \in Nat /\ n - i \in Nat OBVIOUS
<1>2. below \in SUBSET Nat /\ below # {} BY <1>1
<1> HIDE DEF below
<1>3. PICK x \in below : \A y \in below : x <= y BY <1>2, LeastExists
<1>4. PICK m \in S : x = n - m BY <1>3 DEF below
<1>5. \A i \in S : n - i \in below BY DEF below
<1>6. \A i \in S : n - m <= n - i BY <1>3, <1>4, <1>5
<1>7. \A i \in S : m >= i BY <1>6
<1> QED BY <1>7 DEF Max

(* The places up to one of them. *)
LEMMA UpTo ==
  ASSUME NEW n \in Nat, NEW i \in 1..n
  PROVE  (1..i) \ {i} = 1..(i - 1) /\ 1..i # {} /\ (1..i) \in SUBSET (1..n)
OBVIOUS

(* The equation by which the folds of the community modules are defined has *)
(* a solution.                                                              *)
Solves(g, n, x, F) ==
  g = [S \in SUBSET (1..n) |->
         IF S = {} THEN x ELSE F[<<Max(S), g[S \ {Max(S)}]>>]]

LEMMA FoldExists ==
  ASSUME NEW n \in Nat, NEW T, NEW x \in T, NEW F \in [(1..n) \X T -> T]
  PROVE  \E g \in [SUBSET (1..n) -> T] : Solves(g, n, x, F)
<1> DEFINE P(k) == \E g \in [SUBSET (1..k) -> T] : Solves(g, k, x, F)
<1>1. P(0)
  <2> DEFINE g == [S \in SUBSET (1..0) |-> x]
  <2>1. SUBSET (1..0) = {{}} OBVIOUS
  <2>2. g \in [SUBSET (1..0) -> T] OBVIOUS
  <2>3. g = [S \in SUBSET (1..0) |->
               IF S = {} THEN x ELSE F[<<Max(S), g[S \ {Max(S)}]>>]]
    BY <2>1
  <2> QED BY <2>2, <2>3 DEF Solves
<1>2. ASSUME NEW k \in 1..n, P(k - 1) PROVE P(k)
  <2>1. PICK g \in [SUBSET (1..(k - 1)) -> T] : Solves(g, k - 1, x, F)
    BY <1>2
  <2> DEFINE f == [S \in SUBSET (1..k) |->
                     IF k \in S THEN F[<<k, g[S \ {k}]>>] ELSE g[S]]
  <2>2. \A S \in SUBSET (1..k) : /\ S \ {k} \in SUBSET (1..(k - 1))
                                 /\ k \notin S => S \in SUBSET (1..(k - 1))
    OBVIOUS
  <2>3. f \in [SUBSET (1..k) -> T]
    <3> SUFFICES ASSUME NEW S \in SUBSET (1..k) PROVE f[S] \in T
      OBVIOUS
    <3>1. CASE k \in S
      <4>1. g[S \ {k}] \in T BY <2>2
      <4> QED BY <3>1, <4>1
    <3>2. CASE k \notin S BY <2>2, <3>2
    <3> QED BY <3>1, <3>2
  <2>4. ASSUME NEW S \in SUBSET (1..k)
        PROVE  f[S] = IF S = {} THEN x ELSE F[<<Max(S), f[S \ {Max(S)}]>>]
    <3>1. CASE k \in S
      <4>1. Max(S) = k BY <3>1, LargestIs
      <4>2. f[S \ {k}] = g[S \ {k}] BY <2>2
      <4> QED BY <3>1, <4>1, <4>2
    <3>2. CASE k \notin S
      <4>1. S \in SUBSET (1..(k - 1)) BY <2>2, <3>2
      <4>2. g[S] = IF S = {} THEN x ELSE F[<<Max(S), g[S \ {Max(S)}]>>]
        BY <2>1, <4>1 DEF Solves
      <4>3. f[S] = g[S] BY <3>2
      <4>4. f[S \ {Max(S)}] = g[S \ {Max(S)}]
        BY <3>2
      <4> QED BY <4>2, <4>3, <4>4
    <3> QED BY <3>1, <3>2
  <2>5. f = [S \in SUBSET (1..k) |->
               IF S = {} THEN x ELSE F[<<Max(S), f[S \ {Max(S)}]>>]]
    <3> DEFINE h == [S \in SUBSET (1..k) |->
                       IF S = {} THEN x ELSE F[<<Max(S), f[S \ {Max(S)}]>>]]
    <3>1. \A S \in SUBSET (1..k) : f[S] = h[S] BY <2>4
    <3>2. f = [S \in SUBSET (1..k) |-> f[S]] OBVIOUS
    <3>3. h = [S \in SUBSET (1..k) |-> h[S]] OBVIOUS
    <3> HIDE DEF f, h
    <3>4. f = h BY <3>1, <3>2, <3>3
    <3> QED BY <3>4, Zenon DEF h
  <2> QED BY <2>3, <2>5, Zenon DEF Solves
<1> HIDE DEF P
<1>3. {k \in 0..n : P(k)} = 0..n
  <2>1. 0 \in {k \in 0..n : P(k)} BY <1>1
  <2>2. \A i \in 1..n : i - 1 \in {k \in 0..n : P(k)} => i \in {k \in 0..n : P(k)}
    BY <1>2
  <2> QED BY <2>1, <2>2, Inducts
<1>4. P(n) BY <1>3
<1> QED BY <1>4 DEF P
=============================================================================
