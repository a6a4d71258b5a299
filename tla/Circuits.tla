------------------------------ MODULE Circuits ------------------------------
(***************************************************************************)
(* The adders and the ALU under the protocol of their tests: set the       *)
(* inputs, execute(), read the outputs, and start again with clockTick()   *)
(* (sim3) or with new objects (sim1 and sim2, whose RussWire has no        *)
(* clockTick()).  The C adder execute_add() of sim1.c is called again and  *)
(* again with the same struct.                                             *)
(***************************************************************************)
EXTENDS BitSlicedALU

VARIABLES
  device,    \* the device under test
  phase,     \* "idle", "driven", "done"
  given,     \* the inputs of this cycle
  obj        \* the Sim1Data of execute_add()

vars == <<wires, exception, device, phase, given, obj>>

JavaAdders == {"Sim1_ADD", "Sim1_SUB", "Sim2_AdderX"}
Devices == JavaAdders \cup {"Sim3_ALU", "execute_add"}

\* The outermost device has the empty path.
Top == << >>
Method == [Sim1_ADD |-> Sim1_ADD(Top), Sim1_SUB |-> Sim1_SUB(Top),
           Sim2_AdderX |-> Sim2_AdderX(Top), Sim3_ALU |-> Sim3_ALU(Top)]

\* Two words, an ALU operation, and whether b is negated.
Operation == [a : WORD, b : WORD, op : 0 .. 7, negate : BOOLEAN]
OperationsOf(d) ==
  {o \in Operation : /\ d # "Sim3_ALU" => o.op = 2
                     /\ d \in {"Sim1_ADD", "Sim2_AdderX"} => ~ o.negate
                     /\ d = "Sim1_SUB" => o.negate}

-----------------------------------------------------------------------------
(* sim1.c *)

Sim1Data == [a : WORD, b : WORD, isSubtraction : BOOLEAN, sum : WORD,
             aNonNeg : BOOLEAN, bNonNeg : BOOLEAN, sumNonNeg : BOOLEAN,
             carryOut : BOOLEAN, overflow : BOOLEAN]

\* The tests clear the struct before its first use.
ClearedData ==
  [a |-> Zero, b |-> Zero, isSubtraction |-> FALSE, sum |-> Zero,
   aNonNeg |-> FALSE, bNonNeg |-> FALSE, sumNonNeg |-> FALSE,
   carryOut |-> FALSE, overflow |-> FALSE]

\* Seeded fault: "obj->sum = 0" is missing.
SumNotCleared(o) == o.sum

\* What the sum bits are or-ed into.
SumAtStart(o) == Zero

execute_add(o) ==
  LET b == IF o.isSubtraction THEN BitNot(o.b) ELSE o.b
      carry[i \in 0 .. W] ==
        IF i = 0 THEN o.isSubtraction
        ELSE \/ i - 1 \in o.a /\ i - 1 \in b
             \/ i - 1 \in o.a /\ carry[i - 1]
             \/ i - 1 \in b /\ carry[i - 1]
      sum == BitOr(SumAtStart(o), {i \in Bits : ((i \in o.a) # (i \in b)) # carry[i]})
      msb(w) == SignBit \in w
  IN  [o EXCEPT !.sum = sum, !.carryOut = carry[W],
                !.aNonNeg = ~ msb(o.a), !.bNonNeg = ~ msb(o.b), !.sumNonNeg = ~ msb(sum),
                !.overflow = IF o.isSubtraction
                             THEN msb(o.a) # ~ msb(b) /\ msb(o.a) # msb(sum)
                             ELSE msb(o.a) = msb(b) /\ msb(o.a) # msb(sum)]

-----------------------------------------------------------------------------
(* The tests *)

SetBits(field, word) ==
  ForBits(0, W - 1, LAMBDA i : << Set(Pins(Top, field, i), << >>, Constant(i \in word)) >>)

\* A test sets aluOp, bNegate (ALU) and the bits of a and b.
InputStatements(o) ==
  (IF device = "Sim3_ALU"
   THEN ForBits(0, 2, LAMBDA j :
          << Set(Pins(Top, "aluOp", j), << >>, Constant((o.op \div 2^j) % 2 = 1)) >>)
        \o << Set(Pin(Top, "bNegate"), << >>, Constant(o.negate)) >>
   ELSE << >>)
  \o SetBits("a", o.a) \o SetBits("b", o.b)

Nothing == [a |-> Zero, b |-> Zero, op |-> 0, negate |-> FALSE]

Init ==
  /\ device \in Devices
  /\ phase = "idle"
  /\ given = Nothing
  /\ wires = << >>
  /\ exception = "none"
  /\ obj = ClearedData

Drive(o) ==
  /\ phase = "idle" /\ device # "execute_add"
  /\ Execute(InputStatements(o))
  /\ given' = o
  /\ phase' = "driven"
  /\ UNCHANGED <<device, obj>>

Run ==
  /\ phase = "driven" /\ device # "execute_add"
  /\ Execute(Method[device])
  /\ phase' = "done"
  /\ UNCHANGED <<device, given, obj>>

\* clockTick(), or new objects.
NextCycle ==
  /\ phase = "done" /\ device # "execute_add"
  /\ ClockTick
  /\ phase' = "idle"
  /\ given' = Nothing
  /\ UNCHANGED <<device, obj>>

\* The caller of execute_add() fills in the inputs and leaves the rest.
Fill(o) ==
  /\ phase \in {"idle", "done"} /\ device = "execute_add"
  /\ obj' = [obj EXCEPT !.a = o.a, !.b = o.b, !.isSubtraction = o.negate]
  /\ given' = o
  /\ phase' = "driven"
  /\ UNCHANGED <<device, wires, exception>>

CallAdd ==
  /\ phase = "driven" /\ device = "execute_add"
  /\ obj' = execute_add(obj)
  /\ phase' = "done"
  /\ UNCHANGED <<device, given, wires, exception>>

Next ==
  \/ \E o \in OperationsOf(device) : Drive(o) \/ Fill(o)
  \/ Run \/ NextCycle \/ CallAdd

Spec == Init /\ [][Next]_vars

-----------------------------------------------------------------------------
(* Properties *)

\* The word on an array of wires.
Word(field) == {i \in Bits : wires[Pins(Top, field, i)]}

\* The result as an integer, before it is cut to W bits.
Exact == IF given.negate THEN Value(given.a) - Value(given.b)
                         ELSE Value(given.a) + Value(given.b)
Overflows == Exact < - (2^(W - 1)) \/ Exact >= 2^(W - 1)

Unsigned(w) == Value(w) % 2^W
\* The carry out of the top bit: no borrow, if b is subtracted.
Carries2W == IF given.negate THEN Unsigned(given.a) >= Unsigned(given.b)
                             ELSE Unsigned(given.a) + Unsigned(given.b) >= 2^W

\* No circuit, in any cycle, sets a wire twice or reads one before it is set
\* (the exceptions of RussWire.java).
NoException == exception = "none"

\* The sums of Sim1_ADD, Sim1_SUB and Sim2_AdderX are arithmetic modulo 2^W;
\* overflow, computed from signs by the one and from carries by the other,
\* says whether the signed result fits, and carryOut is the unsigned carry.
AddersCorrect ==
  phase = "done" /\ device \in JavaAdders =>
    /\ Value(Word("sum")) % 2^W = Exact % 2^W
    /\ device # "Sim1_SUB" => /\ wires[Pin(Top, "overflow")] = Overflows
                              /\ wires[Pin(Top, "carryOut")] = Carries2W

\* execute_add() gives the same sum and flags for addition and subtraction,
\* whatever the struct held from the call before.
StructCorrect ==
  phase = "done" /\ device = "execute_add" =>
    /\ Value(obj.sum) % 2^W = Exact % 2^W
    /\ obj.overflow = Overflows
    /\ obj.carryOut = Carries2W
    /\ obj.aNonNeg = (Value(given.a) >= 0)
    /\ obj.bNonNeg = (Value(given.b) >= 0)
    /\ obj.sumNonNeg = (Value(obj.sum) >= 0)

\* The bits of Sim3_ALU, put together, are the operation on words (the op
\* codes are those of execute_ALU() in sim4.c).
ALUCorrect ==
  LET b == IF given.negate THEN BitNot(given.b) ELSE given.b
  IN  phase = "done" /\ device = "Sim3_ALU" /\ given.op # 3 =>
        Word("result") = CASE given.op = 0 -> BitAnd(given.a, b)
                           [] given.op = 1 -> BitOr(given.a, b)
                           [] given.op = 2 -> IF given.negate THEN Minus(given.a, given.b)
                                                              ELSE Plus(given.a, given.b)
                           [] given.op = 4 -> BitXor(given.a, b)
                           [] OTHER -> Zero

\* LESS is the sign of the exact result - with bNegate, the signed a < b -
\* as long as it fits the width, and the opposite when it overflows: the
\* tests keep away from "any worry about overflow" (Test_30_ALU_32bit_AND.java,
\* line 51).
LessUpToOverflow ==
  phase = "done" /\ device = "Sim3_ALU" /\ given.op = 3 =>
    Word("result") = IF (Exact < 0) # Overflows THEN One ELSE Zero
=============================================================================
