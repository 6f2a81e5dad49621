------------------------------ MODULE DataLemmas ------------------------------
(***************************************************************************)
(* Facts about numbers, loops and finite sets that the proofs of several   *)
(* components use.  A proof by induction takes the set of the numbers that *)
(* have the property, and the function that a loop computes is given by    *)
(* its step.                                                               *)
(***************************************************************************)
EXTENDS Integers, Sequences, FiniteSets, FiniteSetTheorems, SequenceTheorems,
        WellFoundedInduction, TLAPS

(* Every nonempty set of natural numbers has a least member. *)
LEMMA LeastNat ==
  ASSUME NEW S \in SUBSET Nat, S # {}
  PROVE  \E x \in S : \A y \in S : x <= y
<1> DEFINE R == {ss \in Nat \X Nat : ss[1] < ss[2]}
<1>1. IsWellFoundedOn(R, Nat)
  BY NatLessThanWellFounded, Zenon DEF OpToRel
<1> HIDE DEF R
<1>2. PICK x \in S : \A y \in S : <<y, x>> \notin R
  BY <1>1, WFMin
<1>3. \A y \in S : ~(y < x)
  BY <1>2 DEF R
<1> QED
  BY <1>3

(* What holds of 0, and of a number if of the one before it, holds up to n. *)
LEMMA UpTo ==
  ASSUME NEW n \in Nat, NEW S, 0 \in S, \A i \in 1..n : i - 1 \in S => i \in S
  PROVE  0..n \subseteq S
<1> DEFINE Bad == (0..n) \ S
<1> SUFFICES ASSUME Bad # {} PROVE FALSE
  OBVIOUS
<1>1. Bad \in SUBSET Nat
  OBVIOUS
<1>2. PICK m \in Bad : \A k \in Bad : m <= k
  <2> HIDE DEF Bad
  <2> QED BY <1>1, LeastNat
<1>3. m \in 1..n /\ m \notin S
  BY <1>2
<1>4. m - 1 \in 0..n /\ ~(m <= m - 1)
  BY <1>3
<1>5. m - 1 \in S
  BY <1>2, <1>4
<1> QED
  BY <1>3, <1>5

(* What a loop of n steps computes: the values after each step. *)
Loop(n, V, first, step) ==
  {f \in [0..n -> V] : f[0] = first /\ \A i \in 1..n : f[i] = step[<<i, f[i - 1]>>]}

Steps(n, V) == [(1..n) \X V -> V]

(* A loop of n steps that keep to V computes one value after another. *)
LEMMA LoopRuns ==
  ASSUME NEW n \in Nat, NEW V, NEW first \in V, NEW step \in Steps(n, V)
  PROVE  Loop(n, V, first, step) # {}
<1> USE DEF Steps
<1> DEFINE Runs(m) == {f \in [0..m -> V] :
                         f[0] = first /\ \A i \in 1..m : f[i] = step[<<i, f[i - 1]>>]}
           S == {m \in 0..n : Runs(m) # {}}
<1>1. 0 \in S
  <2>1. [i \in 0..0 |-> first] \in Runs(0)
    OBVIOUS
  <2> HIDE DEF Runs
  <2> QED
    BY <2>1
<1>2. ASSUME NEW m \in 1..n, m - 1 \in S PROVE m \in S
  <2>1. PICK f \in [0..(m - 1) -> V] :
          f[0] = first /\ \A i \in 1..(m - 1) : f[i] = step[<<i, f[i - 1]>>]
    BY <1>2
  <2> DEFINE g == [i \in 0..m |-> IF i = m THEN step[<<m, f[m - 1]>>] ELSE f[i]]
  <2>2. f[m - 1] \in V /\ step[<<m, f[m - 1]>>] \in V
    OBVIOUS
  <2>3. \A i \in 0..m : g[i] \in V
    BY <2>2
  <2>4. g \in [0..m -> V]
    BY <2>3
  <2>5. g[0] = first /\ g[m] = step[<<m, f[m - 1]>>] /\ \A i \in 0..(m - 1) : g[i] = f[i]
    BY <2>1
  <2>6. ASSUME NEW i \in 1..m PROVE g[i] = step[<<i, g[i - 1]>>]
    <3>1. i - 1 \in 0..(m - 1) /\ g[i - 1] = f[i - 1]
      BY <2>5
    <3>2. CASE i = m
      BY <3>1, <3>2, <2>5
    <3>3. CASE i # m
      <4>1. i \in 1..(m - 1) /\ i \in 0..(m - 1)
        BY <3>3
      <4>2. g[i] = f[i] /\ f[i] = step[<<i, f[i - 1]>>]
        BY <4>1, <2>1, <2>5
      <4> QED
        BY <4>2, <3>1
    <3> QED
      BY <3>2, <3>3
  <2> HIDE DEF g
  <2>7. g \in Runs(m)
    BY <2>4, <2>5, <2>6
  <2> HIDE DEF Runs
  <2> QED
    BY <2>7
<1>3. 0..n \subseteq S
  <2> HIDE DEF S
  <2> QED BY <1>1, <1>2, UpTo
<1>4. n \in S
  BY <1>3
<1> QED
  BY <1>4 DEF Loop

(* A nonempty finite set that is totally ordered by R has a greatest member. *)
LEMMA Greatest ==
  ASSUME NEW S, IsFiniteSet(S), S # {}, NEW R,
         \A a, b \in S : <<a, b>> \in R \/ <<b, a>> \in R,
         \A a, b, c \in S : <<a, b>> \in R /\ <<b, c>> \in R => <<a, c>> \in R
  PROVE  \E m \in S : \A x \in S : <<x, m>> \in R
<1>1. PICK q \in Seq(S) : \A s \in S : \E k \in 1..Len(q) : q[k] = s
  BY DEF IsFiniteSet
<1> DEFINE n == Len(q)
<1>2. n \in Nat /\ \A i \in 1..n : q[i] \in S
  BY <1>1
<1> HIDE DEF n
<1> DEFINE T == {i \in 0..n : i > 0 => \E m \in 1..i : \A j \in 1..i : <<q[j], q[m]>> \in R}
<1>3. 0 \in T
  BY <1>2
<1>4. ASSUME NEW i \in 1..n, i - 1 \in T PROVE i \in T
  <2>1. CASE i = 1
    <3>1. <<q[1], q[1]>> \in R
      BY <1>2, <2>1
    <3> QED
      BY <3>1, <2>1
  <2>2. CASE i # 1
    <3>1. i - 1 > 0 /\ i - 1 \in Int /\ i \in 0..n /\ \A j \in 1..i : j = i \/ j \in 1..(i - 1)
      BY <1>2, <2>2
    <3>2. PICK m \in 1..(i - 1) : \A j \in 1..(i - 1) : <<q[j], q[m]>> \in R
      BY <1>4, <3>1
    <3>3. m \in 1..i /\ m \in 1..n /\ i \in 1..i /\ \A j \in 1..i : j \in 1..n
      BY <3>1, <1>2
    <3>4. CASE <<q[i], q[m]>> \in R
      BY <3>1, <3>2, <3>3, <3>4
    <3>5. CASE <<q[m], q[i]>> \in R
      <4>1. ASSUME NEW j \in 1..(i - 1) PROVE <<q[j], q[i]>> \in R
        <5>1. j \in 1..n /\ q[j] \in S /\ q[m] \in S /\ q[i] \in S
          BY <1>2, <3>3
        <5>2. <<q[j], q[m]>> \in R
          BY <3>2
        <5> QED
          BY <5>1, <5>2, <3>5
      <4>2. <<q[i], q[i]>> \in R
        BY <1>2
      <4> QED
        BY <4>1, <4>2, <3>1, <3>3
    <3>6. q[i] \in S /\ q[m] \in S
      BY <1>2, <3>3
    <3> QED
      BY <3>4, <3>5, <3>6
  <2> QED
    BY <2>1, <2>2
<1>5. 0..n \subseteq T
  <2> HIDE DEF T
  <2> QED BY <1>2, <1>3, <1>4, UpTo
<1>6. n > 0 /\ n \in 0..n
  BY <1>1, <1>2 DEF n
<1>7. PICK m \in 1..n : \A j \in 1..n : <<q[j], q[m]>> \in R
  BY <1>5, <1>6
<1> QED
  BY <1>1, <1>2, <1>7 DEF n

(* A set with one more member is no more than one larger. *)
LEMMA OneMore ==
  ASSUME NEW S, IsFiniteSet(S), NEW x, NEW n \in Nat, Cardinality(S) <= n
  PROVE  IsFiniteSet(S \cup {x}) /\ Cardinality(S \cup {x}) <= n + 1
<1>1. Cardinality(S) \in Nat
  BY FS_CardinalityType
<1>2. IsFiniteSet(S \cup {x})
  BY FS_AddElement
<1>3. Cardinality(S \cup {x}) = IF x \in S THEN Cardinality(S) ELSE Cardinality(S) + 1
  BY FS_AddElement
<1> QED
  BY <1>1, <1>2, <1>3

(* Every nonempty finite set of numbers has a greatest member. *)
LEMMA GreatestInt ==
  ASSUME NEW S \in SUBSET Int, IsFiniteSet(S), S # {}
  PROVE  \E m \in S : \A x \in S : x <= m
<1> DEFINE R == {p \in Int \X Int : p[1] <= p[2]}
<1>1. /\ \A a, b \in S : <<a, b>> \in R \/ <<b, a>> \in R
      /\ \A a, b, c \in S : <<a, b>> \in R /\ <<b, c>> \in R => <<a, c>> \in R
  OBVIOUS
<1>2. PICK m \in S : \A x \in S : <<x, m>> \in R
  <2> HIDE DEF R
  <2> QED BY <1>1, Greatest
<1> QED
  BY <1>2
================================================================================
