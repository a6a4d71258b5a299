------------------------------- MODULE Words -------------------------------
(***************************************************************************)
(* The C type WORD ("typedef int WORD;" in sim4.h and sim5.h) and the C    *)
(* operators the simulators apply to it.  A word of W bits is the set of   *)
(* the positions of its one-bits; bit W-1 is the sign.  W is 32 in the     *)
(* code: small instances keep the wrap-around and the sign at W bits.      *)
(***************************************************************************)
EXTENDS Integers

CONSTANT W   \* bits of a word

ASSUME WidthAssumption == W \in Nat /\ W >= 2

Bits == 0 .. W - 1
SignBit == W - 1
WORD == SUBSET Bits

Zero == {}
One == {0}

-----------------------------------------------------------------------------
(* The bitwise operators &, |, ^ and ~. *)
BitAnd(a, b) == a \cap b
BitOr(a, b) == a \cup b
BitXor(a, b) == (a \ b) \cup (b \ a)
BitNot(a) == Bits \ a

\* a << n: the bits pushed past the sign are lost.
ShiftLeft(a, n) == {i \in Bits : i - n \in a}

\* Carry(a, b, carryIn)[i] is the carry into position i of a sum ...
Carry(a, b, carryIn) ==
  LET c[i \in Nat] == IF i = 0 THEN carryIn
                      ELSE IF (i - 1 \in a) = (i - 1 \in b) THEN i - 1 \in a
                      ELSE c[i - 1]
  IN c

\* ... of two's complement addition.
AddWithCarry(a, b, carryIn) ==
  LET c == Carry(a, b, carryIn)
  IN {i \in Bits : ((i \in a) # (i \in b)) # c[i]}

Plus(a, b) == AddWithCarry(a, b, FALSE)
Minus(a, b) == AddWithCarry(a, BitNot(b), TRUE)

\* The signed comparison a < b: the highest differing bit decides, and at
\* the sign position a one-bit makes the smaller word.
SignedLess(a, b) ==
  \E i \in Bits :
    /\ (i \in a) # (i \in b)
    /\ \A j \in Bits : j > i => ((j \in a) <=> (j \in b))
    /\ i \in b <=> i # SignBit

-----------------------------------------------------------------------------
(* Conversions. *)

\* The value of bit i; -2^(W-1) is written so that W = 32 does not overflow.
Weight(i) == IF i = SignBit THEN - (2^(W - 2)) - (2^(W - 2)) ELSE 2^i

\* The signed value of a word: the sum v[n] of the weights of the one-bits
\* below n, for n = W.
Value(a) ==
  LET v[n \in 0 .. W] == IF n = 0 THEN 0
                         ELSE v[n - 1] + IF n - 1 \in a THEN Weight(n - 1) ELSE 0
  IN v[W]

\* The word of an integer n with -2^16 <= n < 2^16 (an immediate field,
\* sign- or zero-extended): from bit 16 on all bits repeat the sign.
ImmediateWord(n) ==
  {i \in Bits : (n \div (2^(IF i < 16 THEN i ELSE 16))) % 2 = 1}

\* C's division by 4 truncates towards zero.
DivBy4(n) == IF n >= 0 THEN n \div 4 ELSE - ((- n) \div 4)
=============================================================================
