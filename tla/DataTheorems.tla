---------------------------- MODULE DataTheorems ----------------------------
(***************************************************************************)
(* Lemmas about Words and Instructions for every word width: the operators *)
(* of the ALU return words, and every int decodes to fields in range.      *)
(***************************************************************************)
EXTENDS Words, Instructions, Recursion, TLAPS

LEMMA BitwiseType ==
  ASSUME NEW a \in WORD, NEW b \in WORD
  PROVE  /\ BitAnd(a, b) \in WORD
         /\ BitOr(a, b) \in WORD
         /\ BitXor(a, b) \in WORD
         /\ BitNot(a) \in WORD
BY DEF WORD, BitAnd, BitOr, BitXor, BitNot

LEMMA ShiftType ==
  ASSUME NEW a, NEW n
  PROVE  ShiftLeft(a, n) \in WORD
BY DEF WORD, ShiftLeft

LEMMA ArithmeticType ==
  ASSUME NEW a, NEW b
  PROVE  Plus(a, b) \in WORD /\ Minus(a, b) \in WORD
<1>1. \A x, y, carryIn : AddWithCarry(x, y, carryIn) \in WORD
  BY Zenon DEF WORD, AddWithCarry
<1> QED
  BY <1>1 DEF Plus, Minus

LEMMA ConstantType == Zero \in WORD /\ One \in WORD
BY WidthAssumption DEF WORD, Bits, Zero, One

LEMMA ImmediateType ==
  ASSUME NEW n
  PROVE  ImmediateWord(n) \in WORD
BY DEF WORD, ImmediateWord

LEMMA ShiftByZero ==
  ASSUME NEW a \in WORD
  PROVE  ShiftLeft(a, 0) = a
<1>1. \A i \in Bits : i - 0 = i
  BY WidthAssumption, SMT DEF Bits
<1> QED
  BY <1>1 DEF ShiftLeft, WORD

-----------------------------------------------------------------------------
(* The carries of an addition. *)

\* The recursive definition of Carry has a solution: a position with equal
\* bits generates or stops the carry, one with different bits passes it on.
LEMMA CarryStep ==
  ASSUME NEW a, NEW b, NEW carryIn \in BOOLEAN
  PROVE  /\ Carry(a, b, carryIn) \in [Nat -> BOOLEAN]
         /\ Carry(a, b, carryIn)[0] = carryIn
         /\ \A i \in Nat : i \in a /\ i \in b => Carry(a, b, carryIn)[i + 1] = TRUE
         /\ \A i \in Nat : i \notin a /\ i \notin b => Carry(a, b, carryIn)[i + 1] = FALSE
         /\ \A i \in Nat : ~ (i \in a <=> i \in b) =>
              Carry(a, b, carryIn)[i + 1] = Carry(a, b, carryIn)[i]
<1> DEFINE g == [n \in Nat |-> [v \in BOOLEAN |->
                  IF (n \in a) = (n \in b) THEN n \in a ELSE v]]
           Body(c) == [i \in Nat |-> IF i = 0 THEN carryIn
                                     ELSE IF (i - 1 \in a) = (i - 1 \in b) THEN i - 1 \in a
                                     ELSE c[i - 1]]
           c == Carry(a, b, carryIn)
<1>0. \A n \in Nat, v \in BOOLEAN :
        (IF (n \in a) = (n \in b) THEN n \in a ELSE v) \in BOOLEAN
  <2>1. \A n : (n \in a) \in BOOLEAN
    BY SMT
  <2> QED
    BY <2>1, Zenon
<1>1. g \in [Nat -> [BOOLEAN -> BOOLEAN]]
  BY <1>0, Zenon
<1>2. \A n \in Nat, v \in BOOLEAN :
        g[n][v] = IF (n \in a) = (n \in b) THEN n \in a ELSE v
  BY Zenon
<1> HIDE DEF g
<1>3. PICK f : SolvesRecursion(f, BOOLEAN, carryIn, g)
  BY <1>1, RecursiveFunction
<1> USE DEF SolvesRecursion
<1>4. f = Body(f)
  <2>1. ASSUME NEW i \in Nat
        PROVE  f[i] = IF i = 0 THEN carryIn
                      ELSE IF (i - 1 \in a) = (i - 1 \in b) THEN i - 1 \in a
                      ELSE f[i - 1]
    <3>1. CASE i = 0
      BY <3>1, <1>3
    <3>2. CASE i # 0
      <4>1. i - 1 \in Nat /\ (i - 1) + 1 = i
        BY <3>2, SMT
      <4>2. f[i] = g[i - 1][f[i - 1]]
        BY <4>1, <1>3, Zenon
      <4>3. f[i - 1] \in BOOLEAN
        BY <4>1, <1>3, Zenon
      <4> QED
        BY <3>2, <4>1, <4>2, <4>3, <1>2, Zenon
    <3> QED
      BY <3>1, <3>2
  <2>2. f = [i \in Nat |-> f[i]]
    BY <1>3
  <2> QED
    BY <2>1, <2>2, Zenon
<1>5. c = Body(c)
  <2>1. c = CHOOSE h : h = Body(h)
    BY Zenon DEF Carry
  <2> HIDE DEF Body, c
  <2> QED
    BY <1>4, <2>1, Zenon
<1> HIDE DEF c
<1>6. c[0] = carryIn
  BY <1>5, Zenon
<1>7. ASSUME NEW i \in Nat
      PROVE  c[i + 1] = IF (i \in a) = (i \in b) THEN i \in a ELSE c[i]
  <2>1. i + 1 \in Nat /\ i + 1 # 0 /\ (i + 1) - 1 = i
    BY SMT
  <2>2. c[i + 1] = IF i + 1 = 0 THEN carryIn
                   ELSE IF ((i + 1) - 1 \in a) = ((i + 1) - 1 \in b) THEN (i + 1) - 1 \in a
                   ELSE c[(i + 1) - 1]
    BY <2>1, <1>5, Zenon
  <2> QED
    BY <2>1, <2>2, Zenon
<1>8. c \in [Nat -> BOOLEAN]
  <2> DEFINE P == {i \in Nat : c[i] \in BOOLEAN}
  <2>1. 0 \in P
    BY <1>6
  <2>2. \A i \in Nat : i \in P => i + 1 \in P
    <3> TAKE i \in Nat
    <3>1. i + 1 \in Nat
      BY SMT
    <3>2. c[i] \in BOOLEAN => c[i + 1] \in BOOLEAN
      BY <1>0, <1>7, Zenon
    <3> QED
      BY <3>1, <3>2
  <2>3. Nat \subseteq P
    <3> HIDE DEF P
    <3> QED
      BY <2>1, <2>2, SetInduction
  <2>4. \A i \in Nat : c[i] \in BOOLEAN
    BY <2>3
  <2>5. c = [i \in Nat |-> c[i]]
    BY <1>5
  <2> QED
    BY <2>4, <2>5
<1>9. ASSUME NEW i \in Nat
      PROVE  /\ i \in a /\ i \in b => c[i + 1] = TRUE
             /\ i \notin a /\ i \notin b => c[i + 1] = FALSE
             /\ ~ (i \in a <=> i \in b) => c[i + 1] = c[i]
  <2>1. CASE i \in a /\ i \in b
    BY <1>7, <2>1, Zenon
  <2>2. CASE i \notin a /\ i \notin b
    <3>1. c[i + 1] = (i \in a)
      BY <1>7, <2>2
    <3>2. (i \in a) = FALSE
      BY <2>2, SMT
    <3> QED
      BY <2>2, <3>1, <3>2, Zenon
  <2>3. CASE ~ (i \in a <=> i \in b)
    BY <1>7, <2>3
  <2> QED
    BY <2>1, <2>2, <2>3
<1> QED
  BY <1>6, <1>8, <1>9, Zenon DEF c

\* The difference of two words is zero exactly when they are equal: both BEQ
\* of sim4.c and the abstract comparison decide the same.
LEMMA MinusZero ==
  ASSUME NEW a \in WORD, NEW b \in WORD
  PROVE  Minus(a, b) = Zero <=> a = b
<1> DEFINE c == Carry(a, BitNot(b), TRUE)
           Same(i) == \A k \in 0 .. i - 1 : (k \in a) <=> (k \in b)
<1>1. /\ c \in [Nat -> BOOLEAN]
      /\ c[0] = TRUE
      /\ \A i \in Nat : ~ (i \in a <=> i \in BitNot(b)) => c[i + 1] = c[i]
  BY CarryStep, Zenon
<1>2. Minus(a, b) = {i \in Bits : ((i \in a) # (i \in BitNot(b))) # c[i]}
  BY Zenon DEF Minus, AddWithCarry
<1> HIDE DEF c
<1>3. \A i \in Bits : i \in BitNot(b) <=> i \notin b
  BY DEF BitNot
<1>4. \A i \in Bits : i \in Nat /\ \A k \in 0 .. i - 1 : k \in Bits
  BY WidthAssumption, SMT DEF Bits
<1>5. \A i \in Bits : Same(i) => c[i] = TRUE
  <2> DEFINE P == {i \in Nat : i \in Bits /\ Same(i) => c[i] = TRUE}
  <2>1. 0 \in P
    BY <1>1, Zenon
  <2>2. ASSUME NEW i \in Nat, i \in P PROVE i + 1 \in P
    <3> SUFFICES ASSUME i + 1 \in Bits, Same(i + 1) PROVE c[i + 1] = TRUE
      <4>1. i + 1 \in Nat
        BY SMT
      <4> QED
        BY <4>1, Zenon
    <3>1. i \in Bits /\ i \in 0 .. (i + 1) - 1 /\ \A k \in 0 .. i - 1 : k \in 0 .. (i + 1) - 1
      BY WidthAssumption, SMT DEF Bits
    <3>2. Same(i) /\ ((i \in a) <=> (i \in b))
      BY <3>1, Zenon
    <3>3. c[i] = TRUE
      BY <2>2, <3>1, <3>2
    <3>4. ~ (i \in a <=> i \in BitNot(b))
      BY <3>1, <3>2, <1>3, Zenon
    <3> QED
      BY <1>1, <3>3, <3>4, Zenon
  <2>3. Nat \subseteq P
    <3> HIDE DEF P
    <3> QED
      BY <2>1, <2>2, SetInduction
  <2> QED
    BY <1>4, <2>3, Zenon
<1>6. ASSUME a = b PROVE Minus(a, b) = Zero
  <2>1. ASSUME NEW i \in Bits PROVE i \notin Minus(a, b)
    <3>1. c[i] = TRUE
      BY <1>5, <1>6, Zenon
    <3>2. ((i \in a) # (i \in BitNot(b))) = TRUE
      BY <1>3, <1>6, Zenon
    <3> QED
      BY <1>2, <3>1, <3>2, Zenon
  <2> QED
    BY <2>1, <1>2 DEF Zero
<1>7. ASSUME a # b PROVE Minus(a, b) # Zero
  <2> DEFINE D == {i \in Bits : ~ ((i \in a) <=> (i \in b))}
  <2>1. D # {} /\ D \subseteq Nat
    BY <1>4, <1>7 DEF WORD
  <2>2. PICK i \in D : \A m \in D : i <= m
    BY <2>1, SmallestElement
  <2>3. Same(i)
    <3> TAKE k \in 0 .. i - 1
    <3>1. i \in Nat /\ ~ (i <= k) /\ k \in Bits
      BY <1>4, <2>1, SMT
    <3> QED
      BY <2>2, <3>1
  <2>4. c[i] = TRUE
    BY <1>5, <2>3, Zenon
  <2>5. i \in Bits /\ ((i \in a) # (i \in BitNot(b))) = FALSE
    <3>1. i \in Bits /\ ((i \in a) <=> (i \in BitNot(b)))
      BY <1>3, <2>2, Zenon
    <3> QED
      BY <3>1, SMT
  <2>6. i \in Minus(a, b)
    BY <1>2, <2>4, <2>5, Zenon
  <2> QED
    BY <2>6 DEF Zero
<1> QED
  BY <1>6, <1>7

-----------------------------------------------------------------------------
LEMMA FieldsType ==
  ASSUME NEW instruction \in Int
  PROVE  extract_instructionFields(instruction) \in InstructionFields
<1>1. instruction % 65536 \in Nat /\ instruction % 67108864 \in Nat
  BY SMT
<1>2. SignExtend16(instruction % 65536) \in Int
  BY <1>1, SMT DEF SignExtend16
<1>3. /\ (instruction \div 67108864) % 64 \in 0 .. 63
      /\ instruction % 64 \in 0 .. 63
  BY SMT
<1>4. /\ (instruction \div 2097152) % 32 \in 0 .. 31
      /\ (instruction \div 65536) % 32 \in 0 .. 31
      /\ (instruction \div 2048) % 32 \in 0 .. 31
      /\ (instruction \div 64) % 32 \in 0 .. 31
  BY SMT
<1> QED
  BY <1>1, <1>2, <1>3, <1>4
     DEF extract_instructionFields, InstructionFields, RegNumber
=============================================================================
