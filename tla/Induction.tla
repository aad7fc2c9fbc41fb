------------------------------ MODULE Induction ------------------------------
(***************************************************************************)
(* Induction over the natural numbers with sets in place of operators, so  *)
(* that it can be used by name; and what it needs to show that a function  *)
(* defined by recursion exists.                                            *)
(***************************************************************************)
EXTENDS Integers, WellFoundedInduction, TLAPS

(* A set of naturals that is not empty has a least member.                 *)
LEMMA LeastNatural ==
  ASSUME NEW T \in SUBSET Nat, T # {}
  PROVE  \E m \in T : \A k \in T : m <= k
<1>1. PICK R : R = {ss \in Nat \X Nat : ss[1] < ss[2]}
  OBVIOUS
<1>2. R = OpToRel(<, Nat)
  BY <1>1 DEF OpToRel
<1>3. IsWellFoundedOn(R, Nat)
  BY <1>2, NatLessThanWellFounded
<1>4. PICK x \in T : \A y \in T : ~(<<y, x>> \in R)
  BY <1>3, WFMin
<1>5. ASSUME NEW y \in T PROVE x <= y
  <2>1. ~(<<y, x>> \in R) /\ x \in Nat /\ y \in Nat
    BY <1>4
  <2>2. ~(y < x)
    BY <1>1, <2>1
  <2>. QED  BY <2>1, <2>2
<1>. QED  BY <1>5

(* A set that has 0, and the successor of all it has, has every natural.   *)
LEMMA EveryNatural ==
  ASSUME NEW S \in SUBSET Nat, 0 \in S, \A n \in S : n + 1 \in S
  PROVE  S = Nat
<1>. SUFFICES ASSUME Nat \ S # {} PROVE FALSE
  OBVIOUS
<1>1. PICK m \in Nat \ S : \A k \in Nat \ S : m <= k
  BY LeastNatural
<1>2. m # 0 /\ m - 1 \in Nat
  BY <1>1
<1>3. m - 1 \in S
  BY <1>1, <1>2
<1>4. (m - 1) + 1 \in S
  BY <1>3
<1>. QED  BY <1>1, <1>4

(* The same up to a bound.                                                 *)
LEMMA UpTo ==
  ASSUME NEW N \in Nat, NEW S, 0 \in S, \A n \in 0 .. N - 1 : n \in S => n + 1 \in S
  PROVE  0 .. N \subseteq S
<1>1. PICK T \in SUBSET Nat : T = {n \in Nat : n <= N => n \in S}
  OBVIOUS
<1>2. ASSUME NEW n \in T PROVE n + 1 \in T
  BY <1>1, <1>2
<1>3. T = Nat
  BY <1>1, <1>2, EveryNatural
<1>. QED  BY <1>1, <1>3

(* What is defined step by step from a start is defined.                   *)
StepDefined(g, N, z, step) == g[0] = z /\ \A n \in 1 .. N : g[n] = step[<<n, g[n - 1]>>]

LEMMA StepByStep ==
  ASSUME NEW N \in Nat, NEW S, NEW z \in S, NEW step \in [Nat \X S -> S]
  PROVE  \E g \in [0 .. N -> S] : StepDefined(g, N, z, step)
<1>. DEFINE Makes(n, g) == /\ g \in [0 .. n -> S] /\ g[0] = z
                           /\ \A i \in 1 .. n : g[i] = step[<<i, g[i - 1]>>]
<1>1. PICK T \in SUBSET Nat : T = {n \in Nat : \E g : Makes(n, g)}
  OBVIOUS
<1>2. 0 \in T
  <2>1. PICK g : g = [i \in 0 .. 0 |-> z]
    OBVIOUS
  <2>2. Makes(0, g)
    BY <2>1
  <2>. QED  BY <1>1, <2>2
<1>3. ASSUME NEW n \in T PROVE n + 1 \in T
  <2>1. n \in Nat
    BY <1>1
  <2>2. PICK g : Makes(n, g)
    BY <1>1
  <2>3. PICK h : h = [i \in 0 .. n + 1 |-> IF i <= n THEN g[i] ELSE step[<<n + 1, g[n]>>]]
    OBVIOUS
  <2>4. g[n] \in S /\ step[<<n + 1, g[n]>>] \in S
    BY <2>1, <2>2
  <2>5. h \in [0 .. n + 1 -> S] /\ h[0] = z
    BY <2>1, <2>2, <2>3, <2>4
  <2>6. ASSUME NEW i \in 1 .. n + 1 PROVE h[i] = step[<<i, h[i - 1]>>]
    <3>1. i \in Nat /\ i - 1 \in 0 .. n /\ h[i - 1] = g[i - 1]
      BY <2>1, <2>3
    <3>2. CASE i <= n
      BY <2>1, <2>2, <2>3, <3>1, <3>2
    <3>3. CASE i = n + 1
      <4>1. h[n + 1] = step[<<n + 1, g[n]>>]
        BY <2>1, <2>3
      <4>2. i - 1 = n
        BY <2>1, <3>3
      <4>3. h[i - 1] = g[n]
        BY <3>1, <4>2
      <4>. QED  BY <3>3, <4>1, <4>3
    <3>. QED  BY <2>1, <3>1, <3>2, <3>3
  <2>7. Makes(n + 1, h)
    BY <2>5, <2>6
  <2>. QED  BY <1>1, <2>1, <2>7
<1>4. T = Nat
  BY <1>2, <1>3, EveryNatural
<1>5. \E g : Makes(N, g)
  BY <1>1, <1>4
<1>6. PICK g \in [0 .. N -> S] : Makes(N, g)
  BY <1>5
<1>. QED  BY <1>6 DEF StepDefined
=============================================================================
