------------------------------ MODULE Recursion ------------------------------
(***************************************************************************)
(* Induction and recursion over the naturals, stated for sets and for      *)
(* functions: what the proofs about the carries and sums of Words and the  *)
(* sums of asm3.s use.                                                     *)
(***************************************************************************)
EXTENDS Integers, WellFoundedInduction, TLAPS

\* A nonempty set of naturals has a smallest element.
LEMMA SmallestElement ==
  ASSUME NEW S \in SUBSET Nat, S # {}
  PROVE  \E n \in S : \A m \in S : n <= m
<1> DEFINE R == OpToRel(<, Nat)
<1>1. \A x, y \in Nat : <<y, x>> \in R <=> y < x
  BY DEF OpToRel
<1> HIDE DEF R
<1>2. \E n \in S : \A m \in S : ~ (<<m, n>> \in R)
  BY NatLessThanWellFounded, WFMin, Zenon DEF R
<1>3. PICK n \in S : \A m \in S : ~ (<<m, n>> \in R)
  BY <1>2
<1>4. n \in Nat /\ \A m \in S : m \in Nat
  OBVIOUS
<1>5. \A m \in S : n <= m
  <2> TAKE m \in S
  <2>1. ~ (m < n)
    BY <1>1, <1>3, <1>4, Zenon
  <2> QED
    BY <2>1, <1>4, SMT
<1> QED
  BY <1>5

\* Induction on the naturals, for a set P.
LEMMA SetInduction ==
  ASSUME NEW P, 0 \in P, \A n \in Nat : n \in P => n + 1 \in P
  PROVE  Nat \subseteq P
<1> SUFFICES ASSUME Nat \ P # {} PROVE FALSE
  OBVIOUS
<1>1. PICK n \in Nat \ P : \A m \in Nat \ P : n <= m
  BY SmallestElement
<1>2. n # 0 /\ n - 1 \in Nat
  BY SMT
<1>3. n - 1 \in P
  BY <1>1, <1>2, SMT
<1> QED
  BY <1>2, <1>3, SMT

-----------------------------------------------------------------------------
SolvesRecursion(f, S, c, g) ==
  f \in [Nat -> S] /\ f[0] = c /\ \A n \in Nat : f[n + 1] = g[n][f[n]]

\* A recursive definition f[0] = c, f[n + 1] = g[n][f[n]] has a solution: the
\* finite ones, Upto(n), agree with each other.
LEMMA RecursiveFunction ==
  ASSUME NEW S, NEW c \in S, NEW g \in [Nat -> [S -> S]]
  PROVE  \E f : SolvesRecursion(f, S, c, g)
<1> DEFINE Upto(n) == {h \in [0 .. n -> S] :
                         h[0] = c /\ \A m \in 0 .. n - 1 : h[m + 1] = g[m][h[m]]}
           P == {n \in Nat : Upto(n) # {}}
<1>1. 0 \in P
  <2>1. [m \in 0 .. 0 |-> c] \in Upto(0)
    BY SMT
  <2> QED
    BY <2>1
<1>2. ASSUME NEW n \in Nat, Upto(n) # {}
      PROVE  Upto(n + 1) # {}
  <2>0. PICK h : h \in Upto(n)
    <3> HIDE DEF Upto
    <3> QED
      BY <1>2
  <2> DEFINE k == [m \in 0 .. n + 1 |-> IF m = n + 1 THEN g[n][h[n]] ELSE h[m]]
  <2>1. h[n] \in S /\ g[n][h[n]] \in S
    BY <2>0, SMT
  <2>2. k \in [0 .. n + 1 -> S]
    BY <2>0, <2>1, SMT
  <2>3. k[0] = c
    BY <2>0, SMT
  <2>4. ASSUME NEW m \in 0 .. (n + 1) - 1
        PROVE  k[m + 1] = g[m][k[m]]
    BY <2>0, SMT
  <2> QED
    BY <2>2, <2>3, <2>4
<1>3. \A n \in Nat : Upto(n) # {}
  <2> HIDE DEF Upto
  <2>1. \A n \in Nat : n \in P => n + 1 \in P
    BY <1>2
  <2>2. Nat \subseteq P
    <3> HIDE DEF P
    <3> QED
      BY <1>1, <2>1, SetInduction
  <2> QED
    BY <2>2
<1>4. ASSUME NEW n \in Nat, NEW h \in Upto(n), NEW k \in Upto(n + 1)
      PROVE  h[n] = k[n]
  <2> DEFINE Q == {m \in Nat : m <= n => h[m] = k[m]}
  <2>1. 0 \in Q
    BY SMT
  <2>2. \A m \in Nat : m \in Q => m + 1 \in Q
    BY SMT
  <2>3. n \in Q
    BY <2>1, <2>2, SetInduction
  <2> QED
    BY <2>3
<1> DEFINE H == [n \in Nat |-> CHOOSE h : h \in Upto(n)]
<1>5. \A n \in Nat : H[n] \in Upto(n)
  <2> HIDE DEF Upto
  <2> QED
    BY <1>3
<1> HIDE DEF P, H
<1> DEFINE f == [n \in Nat |-> H[n][n]]
<1>6. f \in [Nat -> S]
  BY <1>5, SMT
<1>7. f[0] = c
  BY <1>5, SMT
<1>8. ASSUME NEW n \in Nat PROVE f[n + 1] = g[n][f[n]]
  <2>1. H[n] \in Upto(n) /\ H[n + 1] \in Upto(n + 1)
    BY <1>5
  <2>2. H[n][n] = H[n + 1][n]
    BY <2>1, <1>4
  <2>3. H[n + 1][n + 1] = g[n][H[n + 1][n]]
    BY <2>1, SMT
  <2> QED
    BY <2>2, <2>3
<1> HIDE DEF f
<1> QED
  BY <1>6, <1>7, <1>8 DEF SolvesRecursion
=============================================================================
