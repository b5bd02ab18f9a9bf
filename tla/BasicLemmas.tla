----------------------------- MODULE BasicLemmas -----------------------------
(***************************************************************************)
(* Facts that the proofs about several modules rest on: unsigned           *)
(* arithmetic, as PWMThread and PWMDuty do it; induction over the natural  *)
(* numbers, for a set instead of a predicate; and the existence of the     *)
(* functions that the models define recursively.                           *)
(***************************************************************************)
EXTENDS Integers, TLAPS, WellFoundedInduction

-----------------------------------------------------------------------------
(* Unsigned arithmetic *)

\* A remainder is the number itself when that is below the modulus.
LEMMA SmallModulo ==
    ASSUME NEW n \in Nat, NEW w \in Nat, n < w
    PROVE  n % w = n
<1>. DEFINE q == n \div w
            r == n % w
<1>1. q \in Int /\ r \in 0..(w - 1) /\ n = w * q + r
  BY SMT
<1>2. q = 0
  <2>1. CASE q >= 1
    <3>1. w * q >= w
      BY <1>1, <2>1, SMT
    <3>. QED  BY <1>1, <3>1, SMT
  <2>2. CASE q <= -1
    <3>1. w * q <= -w
      BY <1>1, <2>2, SMT
    <3>. QED  BY <1>1, <3>1, SMT
  <2>. QED  BY <1>1, <2>1, <2>2, SMT
<1>. QED  BY <1>1, <1>2, SMT

\* Whatever is reduced to w values is one of them.
LEMMA ModuloRange ==
    ASSUME NEW n \in Int, NEW w \in Nat \ {0}
    PROVE  n % w \in 0..(w - 1)
BY SMT

\* Products of numbers that are not negative grow with their factors.
LEMMA ProductGrows ==
    ASSUME NEW a \in Nat, NEW b \in Nat, NEW p \in Nat, a <= b
    PROVE  a * p \in Nat /\ a * p <= b * p /\ b * p \in Nat
<1>1. b * p - a * p = (b - a) * p /\ b - a \in Nat
    BY SMT
<1>2. \A m \in Nat : m * p \in Nat
    BY SMT
<1> QED BY <1>1, <1>2, SMT

\* Whole turns around the unsigned numbers do not count.
LEMMA ModuloTurns ==
    ASSUME NEW k \in Nat, NEW n \in Nat, NEW w \in Nat, n < w
    PROVE  (k * w + n) % w = n
<1> DEFINE m == k * w + n
           q == m \div w
           r == m % w
<1>0. k * w \in Nat
    BY ProductGrows, k \in Nat, 0 <= k
<1>1. q \in Int /\ r \in 0..(w - 1) /\ m = w * q + r
    BY <1>0, SMT
<1>2. n - r = w * (q - k)
    BY <1>1, SMT
<1> DEFINE d == q - k
<1>3. d \in Int /\ n - r = w * d
    BY <1>1, <1>2
<1> HIDE DEF d, q, r, m
<1>4. d = 0
    <2>1. CASE d >= 1
        <3>1. w * d >= w
            BY <2>1, <1>3, SMT
        <3> QED BY <1>1, <1>3, <3>1, SMT
    <2>2. CASE d <= -1
        <3>1. w * d <= -w
            BY <2>2, <1>3, SMT
        <3> QED BY <1>1, <1>3, <3>1, SMT
    <2> QED BY <1>3, <2>1, <2>2, SMT
<1>5. r = n
    BY <1>1, <1>3, <1>4, SMT
<1> QED BY <1>5 DEF r, m

-----------------------------------------------------------------------------
(* Induction and recursion *)

\* A set of numbers that holds 0, and with each number the next, holds them all.
LEMMA NaturalInduction ==
    ASSUME NEW S, 0 \in S, \A n \in Nat : n \in S => n + 1 \in S
    PROVE  Nat \subseteq S
<1> DEFINE T == Nat \ S
<1> SUFFICES ASSUME T # {} PROVE FALSE
    OBVIOUS
<1>1. T \subseteq Nat
    OBVIOUS
<1>2. PICK n \in T : \A m \in T : ~ (<<m, n>> \in OpToRel(<, Nat))
    <2> HIDE DEF T
    <2> QED BY <1>1, NatLessThanWellFounded, WFMin
<1>3. \A m \in T : ~ (m < n)
    <2> HIDE DEF T
    <2> QED BY <1>1, <1>2, Zenon DEF OpToRel
<1>4. n \in Nat /\ n \notin S /\ n # 0
    OBVIOUS
<1>5. n - 1 \in Nat /\ n - 1 < n
    BY <1>4
<1>6. n - 1 \in S
    BY <1>3, <1>5
<1> QED BY <1>4, <1>5, <1>6

\* The function f on 0..N is computed from its base, step by step.
Computes(f, N, X, base, step) ==
    /\ f \in [0..N -> X]
    /\ f[0] = base
    /\ \A i \in 1..N : f[i] = step[i][f[i - 1]]

\* Whatever the base and the steps, there is such a function.
LEMMA RecursionExists ==
    ASSUME NEW N \in Nat, NEW X, NEW base \in X, NEW step \in [1..N -> [X -> X]]
    PROVE  \E f : Computes(f, N, X, base, step)
<1> USE DEF Computes
<1> DEFINE Fits(f, k) == Computes(f, k, X, base, step)
           S == {k \in Nat : k <= N => \E f : Fits(f, k)}
<1>1. 0 \in S
    <2> DEFINE g == [i \in 0..0 |-> base]
    <2>1. Fits(g, 0)
        OBVIOUS
    <2> QED BY <2>1
<1>2. ASSUME NEW k \in Nat, k \in S PROVE k + 1 \in S
    <2> SUFFICES ASSUME k + 1 <= N PROVE \E f : Fits(f, k + 1)
        OBVIOUS
    <2>1. PICK f : Fits(f, k)
        BY <1>2
    <2> DEFINE g == [i \in 0..(k + 1) |-> IF i = k + 1 THEN step[k + 1][f[k]] ELSE f[i]]
    <2>2. step[k + 1][f[k]] \in X
        <3>1. k + 1 \in 1..N /\ f[k] \in X
            BY <2>1
        <3> QED BY <3>1
    <2>3. g \in [0..(k + 1) -> X] /\ g[0] = base
        BY <2>1, <2>2
    <2>4. ASSUME NEW i \in 1..(k + 1) PROVE g[i] = step[i][g[i - 1]]
        <3>1. g[i - 1] = f[i - 1]
            BY <2>1
        <3>2. CASE i = k + 1
            <4>1. g[i] = step[k + 1][f[k]] /\ i - 1 = k
                BY <3>2
            <4> QED BY <3>1, <3>2, <4>1
        <3>3. CASE i # k + 1
            <4>1. g[i] = f[i] /\ i \in 1..k
                BY <3>3
            <4> QED BY <2>1, <3>1, <4>1
        <3> QED BY <3>2, <3>3
    <2>5. Fits(g, k + 1)
        BY <2>3, <2>4
    <2> QED BY <2>5
<1>3. N \in S
    <2> HIDE DEF S
    <2> QED BY <1>1, <1>2, NaturalInduction
<1>4. PICK f : Fits(f, N)
    BY <1>3
<1> QED BY <1>4
=============================================================================
