------------------------------ MODULE NatLemmas ------------------------------
(***************************************************************************)
(* Least and greatest numbers, and functions by iteration: what the other  *)
(* proof modules use in the place of an induction.                         *)
(***************************************************************************)
EXTENDS Naturals, WellFoundedInduction, TLAPS

\* Every set of naturals that is not empty has a least member.
LEMMA LeastNat ==
    ASSUME NEW T, T \subseteq Nat, T # {}
    PROVE  \E x \in T : \A y \in T : x <= y
  <1> DEFINE R == OpToRel(<, Nat)
  <1>1. IsWellFoundedOn(R, Nat)
    BY NatLessThanWellFounded
  <1>2. PICK x \in T : \A y \in T : <<y, x>> \notin R
    <2> HIDE DEF R
    <2> QED
      BY <1>1, WFMin
  <1>3. ASSUME NEW y \in T PROVE x <= y
    <2>1. x \in Nat /\ y \in Nat
      OBVIOUS
    <2>2. ~(y < x)
      BY <1>2, <2>1 DEF OpToRel
    <2> QED
      BY <2>1, <2>2
  <1> QED
    BY <1>3

\* A set of numbers of 1 .. k that is not empty has a greatest member.
LEMMA GreatestUpTo ==
    ASSUME NEW k \in Nat, NEW T, T \subseteq 1 .. k, T # {}
    PROVE  \E x \in T : \A y \in T : x >= y
  <1> DEFINE D == {k - x : x \in T}
  <1>1. D \subseteq Nat /\ D # {}
    OBVIOUS
  <1>2. PICK d \in D : \A e \in D : d <= e
    <2> HIDE DEF D
    <2> QED
      BY <1>1, LeastNat
  <1>3. PICK x \in T : d = k - x
    OBVIOUS
  <1>4. ASSUME NEW y \in T PROVE x >= y
    <2>1. k - y \in D /\ x \in 1 .. k /\ y \in 1 .. k
      OBVIOUS
    <2>2. k - x <= k - y
      BY <1>2, <1>3, <2>1
    <2> QED
      BY <2>1, <2>2
  <1> QED
    BY <1>4

\* A step repeated N times: the functions a recursive definition stands for.
Iterates(S, a, next, N) ==
    {g \in [0 .. N -> S] : g = [i \in 0 .. N |-> IF i = 0 THEN a ELSE next[g[i - 1]]]}

\* For every step there is such a function, so that a recursive definition by one
\* is equal to its body.
LEMMA IterationExists ==
    ASSUME NEW S, NEW a \in S, NEW next \in [S -> S], NEW N \in Nat
    PROVE  Iterates(S, a, next, N) # {}
  <1> DEFINE Good(n, g) == /\ g \in [0 .. n -> S]
                           /\ g = [i \in 0 .. n |-> IF i = 0 THEN a ELSE next[g[i - 1]]]
             T == {n \in Nat : ~\E g : Good(n, g)}
  <1> SUFFICES ASSUME T # {} PROVE FALSE
    BY DEF Iterates
  <1>1. PICK n \in T : \A m \in T : n <= m
    <2>1. T \subseteq Nat
      OBVIOUS
    <2> HIDE DEF T
    <2> QED
      BY <2>1, LeastNat
  <1>2. n \in Nat /\ ~\E g : Good(n, g)
    OBVIOUS
  <1>3. CASE n = 0
    <2> DEFINE g == [i \in 0 .. 0 |-> a]
    <2>1. Good(0, g)
      OBVIOUS
    <2> QED
      BY <1>2, <1>3, <2>1
  <1>4. CASE n # 0
    <2>0. n - 1 \in Nat /\ ~(n <= n - 1)
      BY <1>2, <1>4
    <2>1. n - 1 \in Nat /\ n - 1 \notin T
      BY <1>1, <2>0
    <2>2. PICK g : Good(n - 1, g)
      BY <2>1
    <2> DEFINE h == [i \in 0 .. n |-> IF i = n THEN next[g[n - 1]] ELSE g[i]]
    <2>3. \A i \in 0 .. n : i # n => i \in 0 .. n - 1
      BY <1>2
    <2>4. h \in [0 .. n -> S] /\ \A i \in 0 .. n - 1 : h[i] = g[i]
      <3>1. n - 1 \in 0 .. n - 1 /\ \A i \in 0 .. n - 1 : i \in 0 .. n /\ i # n
        BY <1>2, <1>4
      <3>2. g \in [0 .. n - 1 -> S]
        BY <2>2
      <3> QED
        BY <2>3, <3>1, <3>2
    <2>5. \A i \in 0 .. n : h[i] = IF i = 0 THEN a ELSE next[h[i - 1]]
      <3> SUFFICES ASSUME NEW i \in 0 .. n
                   PROVE  h[i] = IF i = 0 THEN a ELSE next[h[i - 1]]
        OBVIOUS
      <3>1. CASE i = n
        <4>1. n - 1 \in 0 .. n - 1 /\ h[n - 1] = g[n - 1] /\ h[n] = next[g[n - 1]]
          BY <1>2, <1>4, <2>4
        <4> QED
          BY <1>4, <3>1, <4>1
      <3>2. CASE i # n
        <4>1. i \in 0 .. n - 1 /\ (i # 0 => i - 1 \in 0 .. n - 1)
          BY <1>2, <3>2
        <4>2. g[i] = IF i = 0 THEN a ELSE next[g[i - 1]]
          BY <2>2, <4>1
        <4> QED
          BY <2>4, <4>1, <4>2
      <3> QED
        BY <3>1, <3>2
    <2>6. Good(n, h)
      BY <2>4, <2>5
    <2> QED
      BY <1>2, <2>6
  <1> QED
    BY <1>3, <1>4
=============================================================================
