------------------------ MODULE SingleCycleCPUProofs ------------------------
(***************************************************************************)
(* Type correctness of SingleCycleCPU, the alignment of its program        *)
(* counter and the refinement of MipsISA, for every word width from 5 bits *)
(* (2 for the first two), register file and data memory.                   *)
(***************************************************************************)
EXTENDS SingleCycleCPU, DataTheorems

\* Whatever the instruction, decoding leaves a complete set of control bits.
LEMMA ControlType ==
  ASSUME NEW f
  PROVE  fill_CPUControl(f) \in CPUControl
<1>1. ALUop(f) \in 0 .. 6
  BY SMT DEF ALUop
<1>2. \A c : Flag(c) \in Bit
  BY SMT DEF Flag, Bit
<1> QED
  BY <1>1, <1>2, Zenon DEF fill_CPUControl, CPUControl

\* The three values the ALU works with are words.
LEMMA ALUType ==
  ASSUME NEW control, NEW fields, NEW rsVal \in WORD, NEW rtVal \in WORD
  PROVE  execute_ALU(control, getALUinput1(control, rsVal, rtVal),
                     getALUinput2(control, fields, rtVal)) \in WORD
<1>1. /\ getALUinput1(control, rsVal, rtVal) \in WORD
      /\ getALUinput2(control, fields, rtVal) \in WORD
  BY ImmediateType DEF getALUinput1, getALUinput2
<1> QED
  BY <1>1, BitwiseType, ShiftType, ArithmeticType, ConstantType DEF execute_ALU

\* The next program counter is a multiple of 4 again.
LEMMA NextPCAligned ==
  ASSUME NEW fields \in InstructionFields, NEW control, NEW aluZero \in BOOLEAN,
         NEW oldPC \in Int, oldPC % 4 = 0
  PROVE  /\ getNextPC(fields, control, aluZero, oldPC) \in Int
         /\ getNextPC(fields, control, aluZero, oldPC) % 4 = 0
<1>1. fields.imm32 \in Int /\ fields.address \in Int
  BY SMT DEF InstructionFields
<1>2. (oldPC + 4) % 4 = 0
  BY SMT
<1>3. \A n \in Int : (oldPC + 4 + n * 4) % 4 = 0
  BY SMT
<1>4. \A n \in Int : ((oldPC - (oldPC % 268435456)) + n * 4) % 4 = 0
  BY SMT
<1>5. /\ oldPC + 4 \in Int
      /\ oldPC + 4 + fields.imm32 * 4 \in Int
      /\ (oldPC - (oldPC % 268435456)) + fields.address * 4 \in Int
  BY <1>1, SMT
<1>6. getNextPC(fields, control, aluZero, oldPC) \in
        {oldPC + 4 + fields.imm32 * 4,
         (oldPC - (oldPC % 268435456)) + fields.address * 4, oldPC + 4}
  BY SMT DEF getNextPC
<1> QED
  BY <1>1, <1>2, <1>3, <1>4, <1>5, <1>6, SMT

-----------------------------------------------------------------------------
(* The inductive invariant. *)
Inv == TypeOK /\ PCAligned

LEMMA InitInv == Init => Inv
<1> SUFFICES ASSUME Init PROVE Inv
  OBVIOUS
<1>1. dataMemory \in [DOMAIN dataMemory -> WORD]
  BY MemoryAssumption DEF Init
<1> QED
  BY <1>1, ProgramsAssumption, RegsAssumption, SMT DEF Init, Inv, TypeOK, PCAligned

LEMMA ExecuteInv ==
  ASSUME Inv, Execute
  PROVE  Inv'
<1> DEFINE fields == extract_instructionFields(getInstruction(pc))
           control == fill_CPUControl(fields)
           rsVal == regs[fields.rs]
           rtVal == regs[fields.rt]
           aluResult == execute_ALU(control, getALUinput1(control, rsVal, rtVal),
                                    getALUinput2(control, fields, rtVal))
           newPC == getNextPC(fields, control, aluResult = Zero, pc)
<1>1. fields \in InstructionFields
  BY FieldsType DEF Execute, Running, getInstruction, Inv, TypeOK
<1>2. fields.rs \in Registers /\ fields.rt \in Registers /\ fields.rd \in Registers
  BY <1>1, SMT DEF InstructionFields, RegNumber, Registers
<1>3. rsVal \in WORD /\ rtVal \in WORD
  BY <1>2 DEF Inv, TypeOK
<1>4. aluResult \in WORD
  BY <1>3, ALUType
<1>5. newPC \in Int /\ newPC % 4 = 0
  BY <1>1, NextPCAligned DEF Inv, TypeOK, PCAligned
<1>6. control.memRead \in 0 .. 1 /\ control.memToReg \in 0 .. 1
  BY ControlType DEF CPUControl, Bit
<1>7. /\ instMemory' = instMemory
      /\ \/ status' = "fault" /\ UNCHANGED <<dataMemory, pc, regs>>
         \/ /\ AccessesMemory(control) => MemIndex(aluResult) \in DOMAIN dataMemory
            /\ dataMemory' = MemoryAfter(control, aluResult, rtVal)
            /\ pc' = newPC
            /\ status' \in {"stuck", "running"}
            /\ regs' = execute_updateRegs(fields, control, aluResult,
                                          ReadVal(control, aluResult))
  <2> HIDE DEF fields, control, rsVal, rtVal, aluResult, newPC
  <2> QED
    BY <1>5, Zenon DEF Execute, fields, control, rsVal, rtVal, aluResult, newPC
<1> HIDE DEF fields, control, rsVal, rtVal, aluResult, newPC
<1>8. CASE status' = "fault" /\ UNCHANGED <<dataMemory, pc, regs>>
  BY <1>7, <1>8 DEF Inv, TypeOK, PCAligned
<1>9. CASE /\ AccessesMemory(control) => MemIndex(aluResult) \in DOMAIN dataMemory
           /\ dataMemory' = MemoryAfter(control, aluResult, rtVal)
           /\ pc' = newPC
           /\ status' \in {"stuck", "running"}
           /\ regs' = execute_updateRegs(fields, control, aluResult,
                                         ReadVal(control, aluResult))
  <2>1. ReadVal(control, aluResult) \in WORD
    BY <1>9, ConstantType DEF ReadVal, AccessesMemory, Inv, TypeOK
  <2>2. regs' \in [Registers -> WORD]
    BY <1>2, <1>4, <1>9, <2>1, SMT DEF execute_updateRegs, Inv, TypeOK
  <2>3. dataMemory' \in [DOMAIN dataMemory' -> WORD]
    BY <1>3, <1>9 DEF MemoryAfter, Inv, TypeOK
  <2> QED
    BY <1>5, <1>7, <1>9, <2>2, <2>3 DEF Inv, TypeOK, PCAligned
<1> QED
  BY <1>7, <1>8, <1>9

LEMMA StepInv == Inv /\ [Next]_vars => Inv'
<1> SUFFICES ASSUME Inv, [Next]_vars
             PROVE  Inv'
  OBVIOUS
<1>1. CASE SystemCall
  <2>1. pc + 4 \in Int /\ (pc + 4) % 4 = 0
    BY SMT DEF Inv, TypeOK, PCAligned
  <2>2. status' \in {"exit", status}
    BY <1>1 DEF SystemCall
  <2> QED
    BY <1>1, <2>1, <2>2 DEF SystemCall, Inv, TypeOK, PCAligned
<1>2. CASE Unrecognized
  BY <1>2 DEF Unrecognized, Inv, TypeOK, PCAligned
<1>3. CASE Execute
  BY <1>3, ExecuteInv
<1>4. CASE FetchOutside
  BY <1>4 DEF FetchOutside, Inv, TypeOK, PCAligned
<1>5. CASE Terminated \/ UNCHANGED vars
  BY <1>5 DEF Terminated, vars, Inv, TypeOK, PCAligned
<1> QED
  BY <1>1, <1>2, <1>3, <1>4, <1>5 DEF Next

\* Register file, data memory and program counter keep their types.
THEOREM TypeCorrect == Spec => []TypeOK
<1>1. Init => Inv
  BY InitInv
<1>2. Inv /\ [Next]_vars => Inv'
  BY StepInv
<1>3. Inv => TypeOK
  BY DEF Inv
<1> QED
  BY <1>1, <1>2, <1>3, PTL DEF Spec

\* The error of the harness for a program counter that is not a multiple of
\* 4 is unreachable, whatever offsets and addresses the program holds.
THEOREM AlwaysAligned == Spec => []PCAligned
<1>1. Init => Inv
  BY InitInv
<1>2. Inv /\ [Next]_vars => Inv'
  BY StepInv
<1>3. Inv => PCAligned
  BY DEF Inv
<1> QED
  BY <1>1, <1>2, <1>3, PTL DEF Spec

-----------------------------------------------------------------------------
(* Refinement of MipsISA: the control bits, the ALU, the next PC and the   *)
(* register update of sim4.c together have, for each instruction, the      *)
(* effect MipsISA gives it.                                                *)

\* What the refinement asks of a program: no result for register 0, and that
\* it lies in the first 2^28 bytes, so that getNextPC() may take the upper
\* bits of a jump from the jump itself (the harness has 1024 words).
Executable(program) == NoZeroWrites(program) /\ Len(program) < 67108864

-----------------------------------------------------------------------------
(* MipsISA has its own copies of the operators of Words and Instructions.  *)

LEMMA SameWords ==
  /\ \A a, b : ISA!Plus(a, b) = Plus(a, b)
  /\ \A a, b : ISA!Minus(a, b) = Minus(a, b)
  /\ \A a, b : ISA!BitAnd(a, b) = BitAnd(a, b)
  /\ \A a, b : ISA!BitOr(a, b) = BitOr(a, b)
  /\ \A a, b : ISA!BitXor(a, b) = BitXor(a, b)
  /\ \A a : ISA!BitNot(a) = BitNot(a)
  /\ \A a, n : ISA!ShiftLeft(a, n) = ShiftLeft(a, n)
  /\ \A a, b : ISA!SignedLess(a, b) = SignedLess(a, b)
  /\ \A a : ISA!Value(a) = Value(a)
  /\ \A n : ISA!ImmediateWord(n) = ImmediateWord(n)
  /\ \A n : ISA!DivBy4(n) = DivBy4(n)
  /\ ISA!WORD = WORD /\ ISA!Zero = Zero /\ ISA!One = One
<1>1. ISA!Bits = Bits /\ ISA!SignBit = SignBit
  BY DEF ISA!Bits, Bits, ISA!SignBit, SignBit
<1>2. \A a, b, c : ISA!AddWithCarry(a, b, c) = AddWithCarry(a, b, c)
  BY <1>1, Zenon DEF ISA!AddWithCarry, AddWithCarry, ISA!Carry, Carry
<1>3. \A a : ISA!BitNot(a) = BitNot(a)
  BY <1>1 DEF ISA!BitNot, BitNot
<1>4. /\ \A a, b : ISA!Plus(a, b) = Plus(a, b)
      /\ \A a, b : ISA!Minus(a, b) = Minus(a, b)
  BY <1>2, <1>3, Zenon DEF ISA!Plus, Plus, ISA!Minus, Minus
<1>5. /\ \A a, b : ISA!BitAnd(a, b) = BitAnd(a, b)
      /\ \A a, b : ISA!BitOr(a, b) = BitOr(a, b)
      /\ \A a, b : ISA!BitXor(a, b) = BitXor(a, b)
      /\ \A a, n : ISA!ShiftLeft(a, n) = ShiftLeft(a, n)
  BY <1>1 DEF ISA!BitAnd, BitAnd, ISA!BitOr, BitOr, ISA!BitXor, BitXor,
              ISA!ShiftLeft, ShiftLeft
<1>6. \A a, b : ISA!SignedLess(a, b) = SignedLess(a, b)
  BY <1>1, Zenon DEF ISA!SignedLess, SignedLess
<1>7. \A a : ISA!Value(a) = Value(a)
  BY <1>1, Zenon DEF ISA!Value, Value, ISA!Weight, Weight
<1>8. \A n : ISA!ImmediateWord(n) = ImmediateWord(n)
  BY <1>1, Zenon DEF ISA!ImmediateWord, ImmediateWord
<1>9. \A n : ISA!DivBy4(n) = DivBy4(n)
  BY Zenon DEF ISA!DivBy4, DivBy4
<1>10. ISA!WORD = WORD /\ ISA!Zero = Zero /\ ISA!One = One
  BY <1>1 DEF ISA!WORD, WORD, ISA!Zero, Zero, ISA!One, One
<1> QED
  BY <1>3, <1>4, <1>5, <1>6, <1>7, <1>8, <1>9, <1>10

LEMMA SameInstructions ==
  /\ \A n : ISA!extract_instructionFields(n) = extract_instructionFields(n)
  /\ ISA!SYSCALL = SYSCALL
  /\ ISA!RFuncts = RTypeFuncts
<1>1. \A n : ISA!extract_instructionFields(n) = extract_instructionFields(n)
  BY SMT DEF ISA!extract_instructionFields, extract_instructionFields,
               ISA!SignExtend16, SignExtend16
<1>2. ISA!SYSCALL = SYSCALL
  BY SMT DEF ISA!SYSCALL, SYSCALL, ISA!R_FORMAT, R_FORMAT, ISA!R_FORMAT_x, R_FORMAT_x,
         ISA!SignedOpcode, SignedOpcode
<1> QED
  BY <1>1, <1>2 DEF ISA!RFuncts, RTypeFuncts

\* A shamt goes through the ALU as a word and comes out as the same count.
LEMMA ShiftCountOfShamt ==
  ASSUME W >= 5, NEW n \in 0 .. 31
  PROVE  ShiftCount(ImmediateWord(n)) = n
<1>1. \A i \in 0 .. 4 : i \in Bits
  BY WidthAssumption, SMT DEF Bits
<1>2. \A i \in 0 .. 4 : i \in ImmediateWord(n) <=> (n \div (2^i)) % 2 = 1
  BY <1>1, SMT DEF ImmediateWord
<1>3. 2^0 = 1 /\ 2^1 = 2 /\ 2^2 = 4 /\ 2^3 = 8 /\ 2^4 = 16
  BY SMT
<1>4. /\ 0 \in ImmediateWord(n) <=> n % 2 = 1
      /\ 1 \in ImmediateWord(n) <=> (n \div 2) % 2 = 1
      /\ 2 \in ImmediateWord(n) <=> (n \div 4) % 2 = 1
      /\ 3 \in ImmediateWord(n) <=> (n \div 8) % 2 = 1
      /\ 4 \in ImmediateWord(n) <=> (n \div 16) % 2 = 1
  <2>1. n \div 1 = n
    BY SMT
  <2> QED
    BY <1>2, <1>3, <2>1, SMT
<1> HIDE DEF ImmediateWord
<1> QED
  BY <1>4, SMT DEF ShiftCount

-----------------------------------------------------------------------------
(* One call of execute_singleCycleCPU(). *)

\* Where a running program is.
LEMMA RunningAt ==
  ASSUME Inv, Running
  PROVE  /\ status = "running"
         /\ ISA!Index = FetchIndex(pc)
         /\ ISA!Instruction = extract_instructionFields(getInstruction(pc))
         /\ ISA!OnInstruction <=> getInstruction(pc) # SYSCALL
         /\ ISA!OnSystemCall <=> getInstruction(pc) = SYSCALL
         /\ extract_instructionFields(getInstruction(pc)) \in InstructionFields
<1>1. status = "running" /\ FetchIndex(pc) \in DOMAIN instMemory
  BY DEF Running
<1>2. ISA!Index = FetchIndex(pc)
  BY <1>1, SMT DEF ISA!Index, FetchIndex, Inv, TypeOK
<1>3. ISA!Instruction = extract_instructionFields(getInstruction(pc))
  BY <1>2, SameInstructions, Zenon DEF ISA!Instruction, getInstruction
<1>4. extract_instructionFields(getInstruction(pc)) \in InstructionFields
  BY <1>1, FieldsType DEF getInstruction, Inv, TypeOK
<1> QED
  BY <1>1, <1>2, <1>3, <1>4, SameInstructions
     DEF ISA!OnInstruction, ISA!OnSystemCall, getInstruction

LEMMA SameRecognized ==
  ASSUME NEW f \in InstructionFields
  PROVE  ISA!Implemented(f) <=> Recognized(f)
BY SameInstructions, SMT DEF ISA!Implemented, Recognized, InstructionFields

LEMMA SystemCallRefines ==
  ASSUME Inv, SystemCall
  PROVE  ISA!Next
<1>1. Running /\ getInstruction(pc) = SYSCALL /\ pc' = pc + 4
      /\ UNCHANGED <<instMemory, regs, dataMemory>>
  BY DEF SystemCall
<1>2. ISA!OnSystemCall /\ status = "running"
  BY <1>1, RunningAt
<1>3. \A n : ISA!Number(n) = ImmediateWord(n)
  BY SameWords DEF ISA!Number
<1>4. ISA!V0 = V0 /\ ISA!A0 = A0
  BY DEF ISA!V0, V0, ISA!A0, A0
<1>5. CASE regs[V0] = ImmediateWord(10)
  <2>1. status' = "exit" /\ console' = console
    BY <1>5 DEF SystemCall
  <2>2. pc' - 4 = pc
    BY <1>1, SMT DEF Inv, TypeOK
  <2>3. ISA!Exit
    BY <1>1, <1>2, <1>3, <1>4, <1>5, <2>1, <2>2 DEF ISA!Exit, ISA!Stop
  <2> QED
    BY <2>3 DEF ISA!Next
<1>6. CASE regs[V0] # ImmediateWord(10)
  <2>1. status' = status /\ console' = Append(console, Printed)
    BY <1>6 DEF SystemCall
  <2>2. ISA!Printed = Printed
    BY <1>3, <1>4, Zenon DEF ISA!Printed, Printed
  <2>3. ISA!WriteConsole
    BY <1>1, <1>2, <1>3, <1>4, <1>6, <2>1, <2>2 DEF ISA!WriteConsole
  <2> QED
    BY <2>3 DEF ISA!Next
<1> QED
  BY <1>5, <1>6

LEMMA UnrecognizedRefines ==
  ASSUME Inv, Unrecognized
  PROVE  ISA!Next
<1>1. ISA!OnInstruction /\ ~ ISA!Implemented(ISA!Instruction) /\ status = "running"
  BY RunningAt, SameRecognized DEF Unrecognized
<1>2. ISA!Error
  BY <1>1 DEF Unrecognized, ISA!Error, ISA!Stop
<1> QED
  BY <1>2 DEF ISA!Next

LEMMA FetchOutsideRefines ==
  ASSUME Inv, FetchOutside
  PROVE  ISA!Next
<1>1. ISA!Index = FetchIndex(pc)
  BY SMT DEF FetchOutside, ISA!Index, FetchIndex, Inv, TypeOK
<1>2. ISA!Wild
  BY <1>1 DEF FetchOutside, ISA!Wild, ISA!Stop
<1> QED
  BY <1>2 DEF ISA!Next

\* The ALU computes what MipsISA writes for the instruction.
LEMMA ALUComputes ==
  ASSUME W >= 5, NEW f \in InstructionFields, Recognized(f),
         NEW a \in WORD, NEW b \in WORD
  PROVE  LET control == fill_CPUControl(f)
             result == execute_ALU(control, getALUinput1(control, a, b),
                                   getALUinput2(control, f, b))
         IN  /\ f.opcode = 0 => result = ISA!RResult(f, a, b)
             /\ f.opcode \in {8, 9, 10} => result = ISA!IResult(f, a)
             /\ f.opcode \in {35, 43} => result = Plus(a, ImmediateWord(f.imm32))
             /\ f.opcode \in {4, 5} => (result = Zero <=> a = b)
<1> DEFINE control == fill_CPUControl(f)
           result == execute_ALU(control, getALUinput1(control, a, b),
                                 getALUinput2(control, f, b))
<1>0. control.op = ALUop(f)
      /\ control.ALUsrc = Flag(f.opcode \in {8, 9, 10, 35, 43})
      /\ control.bNegate = Flag(\/ f.opcode = 0 /\ f.funct \in RTypeFuncts /\ f.funct \in {34, 35, 42}
                                \/ f.opcode \in {4, 5, 10})
  BY Zenon DEF fill_CPUControl
<1> HIDE DEF control
<1>1. CASE f.opcode = 0
  <2>1. f.funct \in RTypeFuncts /\ control.ALUsrc = 0
    BY <1>0, <1>1, SMT DEF Recognized, Flag
  <2>2. CASE f.funct = 0
    <3>1. control.op = 5
      BY <1>0, <1>1, <2>2, SMT DEF ALUop
    <3>2. f.shamt \in 0 .. 31
      BY DEF InstructionFields
    <3>3. result = ShiftLeft(b, f.shamt)
      BY <3>1, <3>2, ShiftCountOfShamt DEF execute_ALU, getALUinput1, getALUinput2
    <3> HIDE DEF result
    <3>4. result = ISA!RResult(f, a, b)
      BY <2>2, <3>3, SameWords, SMT DEF ISA!RResult
    <3> QED
      BY <1>1, <3>4 DEF result, control
  <2>3. CASE f.funct # 0
    <3>1. f.funct \in 32 .. 39 \cup {42}
      BY <2>1, <2>3 DEF RTypeFuncts
    <3>2. control.op # 5
      BY <1>0, <1>1, <3>1, SMT DEF ALUop
    <3>3. getALUinput1(control, a, b) = a /\ getALUinput2(control, f, b) = b
      BY <2>1, <3>2 DEF getALUinput1, getALUinput2
    <3>4. f.funct \in {32, 33} => result = Plus(a, b)
      BY <1>0, <1>1, <3>3, SMT DEF ALUop, Flag, execute_ALU
    <3>5. f.funct \in {34, 35} => result = Minus(a, b)
      BY <1>0, <1>1, <3>3, SMT DEF ALUop, Flag, execute_ALU, RTypeFuncts
    <3>6. f.funct = 36 => result = BitAnd(a, b)
      BY <1>0, <1>1, <3>3, SMT DEF ALUop, execute_ALU
    <3>7. f.funct = 37 => result = BitOr(a, b)
      BY <1>0, <1>1, <3>3, SMT DEF ALUop, execute_ALU
    <3>8. f.funct = 38 => result = BitXor(a, b)
      BY <1>0, <1>1, <3>3, SMT DEF ALUop, execute_ALU
    <3>9. f.funct = 39 => result = BitNot(BitOr(a, b))
      BY <1>0, <1>1, <3>3, SMT DEF ALUop, execute_ALU
    <3>10. f.funct = 42 => result = IF SignedLess(a, b) THEN One ELSE Zero
      BY <1>0, <1>1, <3>3, SMT DEF ALUop, execute_ALU
    <3> HIDE DEF result
    <3>11. result = ISA!RResult(f, a, b)
      BY <3>1, <3>4, <3>5, <3>6, <3>7, <3>8, <3>9, <3>10, SameWords, SMT DEF ISA!RResult
    <3> QED
      BY <1>1, <3>11 DEF result, control
  <2> QED
    BY <2>2, <2>3
<1>2. CASE f.opcode # 0
  <2>1. control.op # 5
    BY <1>0, <1>2, SMT DEF ALUop
  <2>2. f.opcode \in {8, 9, 10, 35, 43} =>
          getALUinput1(control, a, b) = a
          /\ getALUinput2(control, f, b) = ImmediateWord(f.imm32)
    BY <1>0, <2>1 DEF getALUinput1, getALUinput2, Flag
  <2>3. f.opcode \in {4, 5} =>
          getALUinput1(control, a, b) = a /\ getALUinput2(control, f, b) = b
    BY <1>0, <2>1, SMT DEF getALUinput1, getALUinput2, Flag
  <2>4. f.opcode \in {8, 9, 35, 43} => result = Plus(a, ImmediateWord(f.imm32))
    BY <1>0, <1>2, <2>2, SMT DEF ALUop, Flag, execute_ALU
  <2>5. f.opcode = 10 =>
          result = IF SignedLess(a, ImmediateWord(f.imm32)) THEN One ELSE Zero
    BY <1>0, <1>2, <2>2, SMT DEF ALUop, execute_ALU
  <2>6. f.opcode \in {4, 5} => result = Minus(a, b)
    BY <1>0, <1>2, <2>3, SMT DEF ALUop, Flag, execute_ALU
  <2> HIDE DEF result
  <2>7. f.opcode \in {8, 9, 10} => result = ISA!IResult(f, a)
    BY <2>4, <2>5, SameWords, SMT DEF ISA!IResult
  <2>8. f.opcode \in {4, 5} => (result = Zero <=> a = b)
    BY <2>6, MinusZero
  <2> QED
    BY <1>2, <2>4, <2>7, <2>8 DEF result, control
<1> QED
  BY <1>1, <1>2

\* The control bits that decide what a step changes.
LEMMA ControlOf ==
  ASSUME NEW f \in InstructionFields, Recognized(f)
  PROVE  LET control == fill_CPUControl(f)
         IN  /\ control.memRead = Flag(f.opcode = 35)
             /\ control.memWrite = Flag(f.opcode = 43)
             /\ control.memToReg = Flag(f.opcode = 35)
             /\ control.regDst = Flag(f.opcode = 0)
             /\ control.regWrite = Flag(f.opcode \in {0, 8, 9, 10, 35})
             /\ control.branch = Flag(f.opcode \in {4, 5})
             /\ control.jump = Flag(f.opcode = 2)
             /\ control.extra1 = Flag(f.opcode = 5)
<1>1. f.opcode = 0 <=> f.opcode = 0 /\ f.funct \in RTypeFuncts
  BY SMT DEF Recognized
<1> QED
  BY <1>1, SMT DEF fill_CPUControl, Flag

\* Writing a register: MipsISA leaves register 0 alone, and so does a program
\* whose only write to it is NOP.
LEMMA ZeroWriteIsNOP ==
  ASSUME Inv, Running, NoZeroWrites(instMemory),
         NEW f, f = extract_instructionFields(getInstruction(pc)), Recognized(f),
         f.opcode \in {0, 8, 9, 10, 35},
         NEW r, r = IF f.opcode = 0 THEN f.rd ELSE f.rt
  PROVE  r # 0 \/ getInstruction(pc) = NOP
<1>1. FetchIndex(pc) \in DOMAIN instMemory /\ getInstruction(pc) = instMemory[FetchIndex(pc)]
  BY DEF Running, getInstruction
<1>2. f \in InstructionFields
  BY <1>1, FieldsType DEF Inv, TypeOK
<1>3. fill_CPUControl(f).regWrite = 1 /\ (fill_CPUControl(f).regDst = 0 <=> f.opcode # 0)
  BY <1>2, ControlOf, SMT DEF Flag
<1> QED
  BY <1>1, <1>3, Zenon DEF NoZeroWrites

LEMMA NOPFields ==
  ASSUME NEW n \in Int, n = NOP
  PROVE  LET f == extract_instructionFields(n)
         IN  f.opcode = 0 /\ f.funct = 0 /\ f.rt = 0 /\ f.rd = 0 /\ f.shamt = 0
<1> DEFINE f == extract_instructionFields(n)
<1>1. /\ f.opcode = (n \div 67108864) % 64 /\ f.funct = n % 64
      /\ f.rt = (n \div 65536) % 32 /\ f.rd = (n \div 2048) % 32
      /\ f.shamt = (n \div 64) % 32
  BY SMT DEF extract_instructionFields
<1> HIDE DEF f
<1>2. f.opcode = 0 /\ f.funct = 0 /\ f.rt = 0 /\ f.rd = 0 /\ f.shamt = 0
  BY <1>1, SMT DEF NOP
<1> QED
  BY <1>2 DEF f

LEMMA JumpInSegment ==
  ASSUME Inv, Running, Executable(instMemory)
  PROVE  pc - (pc % 268435456) = (pc + 4) - ((pc + 4) % 268435456)
<1>1. pc \in Int /\ pc % 4 = 0
  BY DEF Inv, TypeOK, PCAligned
<1>2. FetchIndex(pc) \in 1 .. Len(instMemory) /\ Len(instMemory) \in Nat
  BY DEF Running, Inv, TypeOK
<1>3. (pc \div 4) + 1 >= 1 /\ (pc \div 4) + 1 < 67108864
  BY <1>1, <1>2, SMT DEF FetchIndex, Executable
<1>4. 0 <= pc /\ pc + 4 < 268435456
  BY <1>1, <1>3, SMT
<1>5. pc % 268435456 = pc /\ (pc + 4) % 268435456 = pc + 4
  BY <1>1, <1>4, SMT
<1> QED
  BY <1>1, <1>5, SMT

LEMMA ExecuteRefines ==
  ASSUME W >= 5, Inv, Executable(instMemory), Execute
  PROVE  ISA!Next
<1> DEFINE f == extract_instructionFields(getInstruction(pc))
           control == fill_CPUControl(f)
           a == regs[f.rs]
           b == regs[f.rt]
           result == execute_ALU(control, getALUinput1(control, a, b),
                                 getALUinput2(control, f, b))
           newPC == getNextPC(f, control, result = Zero, pc)
<1>1. /\ Running /\ getInstruction(pc) # SYSCALL /\ Recognized(f)
      /\ instMemory' = instMemory /\ console' = console
      /\ \/ /\ AccessesMemory(control) /\ MemIndex(result) \notin DOMAIN dataMemory
            /\ status' = "fault" /\ UNCHANGED <<dataMemory, pc, regs>>
         \/ /\ AccessesMemory(control) => MemIndex(result) \in DOMAIN dataMemory
            /\ dataMemory' = MemoryAfter(control, result, b)
            /\ pc' = newPC
            /\ status' \in {"stuck", "running", "misaligned"}
            /\ newPC % 4 = 0 => regs' = execute_updateRegs(f, control, result,
                                                           ReadVal(control, result))
            /\ status' = "misaligned" <=> newPC % 4 # 0
  <2> HIDE DEF f, control, a, b, result, newPC
  <2> QED
    BY Zenon DEF Execute, f, control, a, b, result, newPC
<1>2. status' # "misaligned"
  BY ExecuteInv DEF Inv, PCAligned
<1>3. /\ status = "running" /\ ISA!OnInstruction
      /\ ISA!Instruction = f /\ f \in InstructionFields
      /\ ISA!Implemented(f)
  BY <1>1, RunningAt, SameRecognized
<1>4. /\ f.rs \in Registers /\ f.rt \in Registers /\ f.rd \in Registers
      /\ a \in WORD /\ b \in WORD
  <2>1. f.rs \in Registers /\ f.rt \in Registers /\ f.rd \in Registers
    <3> HIDE DEF f
    <3> QED
      BY <1>3, SMT DEF InstructionFields, RegNumber, Registers
  <2> QED
    BY <2>1 DEF Inv, TypeOK
<1>5. /\ f.opcode = 0 => result = ISA!RResult(f, a, b)
      /\ f.opcode \in {8, 9, 10} => result = ISA!IResult(f, a)
      /\ f.opcode \in {35, 43} => result = Plus(a, ImmediateWord(f.imm32))
      /\ f.opcode \in {4, 5} => (result = Zero <=> a = b)
  BY <1>1, <1>3, <1>4, ALUComputes
<1>6. /\ control.memRead = Flag(f.opcode = 35)
      /\ control.memWrite = Flag(f.opcode = 43)
      /\ control.memToReg = Flag(f.opcode = 35)
      /\ control.regDst = Flag(f.opcode = 0)
      /\ control.regWrite = Flag(f.opcode \in {0, 8, 9, 10, 35})
      /\ control.branch = Flag(f.opcode \in {4, 5})
      /\ control.jump = Flag(f.opcode = 2)
      /\ control.extra1 = Flag(f.opcode = 5)
  BY <1>1, <1>3, ControlOf
<1>7. ISA!Address(f) = DivBy4(Value(Plus(a, ImmediateWord(f.imm32))))
  BY SameWords, Zenon DEF ISA!Address
<1>8. f.opcode \in {35, 43} => ISA!Address(f) = MemIndex(result)
  BY <1>5, <1>7 DEF MemIndex
<1>9. f.opcode \in {0, 8, 9, 10} \cup {35, 43, 4, 5, 2}
  BY <1>1 DEF Recognized
<1>10. f.opcode \in {0, 8, 9, 10, 35} =>
         LET r == IF f.opcode = 0 THEN f.rd ELSE f.rt
         IN  r # 0 \/ getInstruction(pc) = NOP
  <2>1. NoZeroWrites(instMemory)
    BY SMT DEF Executable
  <2> QED
    BY <1>1, <2>1, ZeroWriteIsNOP
<1>11. getInstruction(pc) = NOP => f.opcode = 0 /\ f.funct = 0 /\ f.rt = 0 /\ f.rd = 0 /\ f.shamt = 0
  BY <1>1, NOPFields DEF Running, getInstruction, Inv, TypeOK
<1>12. pc - (pc % 268435456) = (pc + 4) - ((pc + 4) % 268435456)
  BY <1>1, JumpInSegment, SMT
<1> HIDE DEF f, control, a, b, result, newPC
<1>13. CASE /\ AccessesMemory(control) /\ MemIndex(result) \notin DOMAIN dataMemory
            /\ status' = "fault" /\ UNCHANGED <<dataMemory, pc, regs>>
  <2>1. f.opcode \in {35, 43}
    BY <1>6, <1>13, SMT DEF AccessesMemory, Flag
  <2>2. ISA!Fault
    BY <1>1, <1>3, <1>8, <1>13, <2>1 DEF ISA!Fault, ISA!Stop
  <2> QED
    BY <2>2 DEF ISA!Next
<1>14. CASE /\ AccessesMemory(control) => MemIndex(result) \in DOMAIN dataMemory
            /\ dataMemory' = MemoryAfter(control, result, b)
            /\ pc' = newPC
            /\ status' \in {"stuck", "running"}
            /\ regs' = execute_updateRegs(f, control, result, ReadVal(control, result))
  <2>1. f.opcode # 43 => dataMemory' = dataMemory
    BY <1>6, <1>14, SMT DEF MemoryAfter, Flag
  <2>2. f.opcode \notin {0, 8, 9, 10, 35} => regs' = regs
    BY <1>6, <1>14, SMT DEF execute_updateRegs, Flag
  <2>3. f.opcode \notin {2, 4, 5} => newPC = pc + 4
    BY <1>6, SMT DEF getNextPC, Flag, newPC
  <2>4. CASE f.opcode \in {0, 8, 9, 10}
    <3> DEFINE r == IF f.opcode = 0 THEN f.rd ELSE f.rt
    <3>1. regs' = [regs EXCEPT ![r] = result]
      <4>1. control.regWrite # 0 /\ control.memToReg = 0 /\ (control.regDst = 0 <=> f.opcode # 0)
        BY <1>6, <2>4, SMT DEF Flag
      <4>2. (IF control.regDst = 0 THEN f.rt ELSE f.rd) = r
        BY <4>1
      <4> HIDE DEF r
      <4> QED
        BY <1>14, <4>1, <4>2, Zenon DEF execute_updateRegs
    <3>2. r = 0 => regs' = regs
      <4> SUFFICES ASSUME r = 0 PROVE regs' = regs
        OBVIOUS
      <4>1. f.opcode = 0 /\ f.funct = 0 /\ f.rt = 0 /\ f.shamt = 0
        BY <1>10, <1>11, <2>4, SMT
      <4>2. ISA!RResult(f, a, b) = ShiftLeft(b, 0)
        BY <4>1, SameWords, SMT DEF ISA!RResult
      <4>3. result = regs[0]
        BY <1>4, <1>5, <4>1, <4>2, ShiftByZero DEF b
      <4> QED
        BY <3>1, <4>3, SMT DEF Inv, TypeOK
    <3> HIDE DEF r
    <3>3. ISA!Write(r, result)
      BY <3>1, <3>2 DEF ISA!Write
    <3>4. ISA!Arithmetic
      <4>1. \/ f.opcode = 0 /\ ISA!Write(f.rd, ISA!RResult(f, a, b))
            \/ f.opcode \in {8, 9, 10, 12, 13, 15} /\ ISA!Write(f.rt, ISA!IResult(f, a))
        BY <1>5, <2>4, <3>3 DEF r
      <4> QED
        BY <1>1, <1>3, <1>14, <2>1, <2>3, <2>4, <4>1 DEF ISA!Arithmetic, a, b
    <3> QED
      BY <3>4 DEF ISA!Next
  <2>5. CASE f.opcode = 35
    <3>1. f.rt # 0
      BY <1>10, <1>11, <2>5, SMT
    <3>2. MemIndex(result) \in DOMAIN dataMemory
      BY <1>6, <1>14, <2>5 DEF AccessesMemory, Flag
    <3>3. regs' = [regs EXCEPT ![f.rt] = dataMemory[MemIndex(result)]]
      BY <1>6, <1>14, <2>5, SMT DEF execute_updateRegs, ReadVal, Flag
    <3>4. ISA!Load
      BY <1>1, <1>3, <1>8, <1>14, <2>1, <2>3, <2>5, <3>1, <3>2, <3>3 DEF ISA!Load, ISA!Write
    <3> QED
      BY <3>4 DEF ISA!Next
  <2>6. CASE f.opcode = 43
    <3>1. MemIndex(result) \in DOMAIN dataMemory
      BY <1>6, <1>14, <2>6 DEF AccessesMemory, Flag
    <3>2. dataMemory' = [dataMemory EXCEPT ![MemIndex(result)] = b]
      BY <1>6, <1>14, <2>6 DEF MemoryAfter, Flag
    <3>3. ISA!Store
      BY <1>1, <1>3, <1>8, <1>14, <2>2, <2>3, <2>6, <3>1, <3>2 DEF ISA!Store, b
    <3> QED
      BY <3>3 DEF ISA!Next
  <2>7. CASE f.opcode \in {4, 5}
    <3>1. newPC = pc + 4 + IF f.opcode = 4 <=> a = b THEN f.imm32 * 4 ELSE 0
      <4>1. control.branch = 1
        BY <1>6, <2>7, SMT DEF Flag
      <4>2. CASE f.opcode = 4
        <5>1. newPC = IF result = Zero THEN pc + 4 + f.imm32 * 4 ELSE pc + 4
          BY <1>6, <4>1, <4>2, SMT DEF getNextPC, newPC, Flag
        <5> QED
          BY <1>3, <1>5, <4>2, <5>1, SMT DEF Inv, TypeOK, InstructionFields
      <4>3. CASE f.opcode = 5
        <5>1. newPC = IF result = Zero THEN pc + 4 ELSE pc + 4 + f.imm32 * 4
          BY <1>6, <4>1, <4>3, SMT DEF getNextPC, newPC, Flag
        <5> QED
          BY <1>3, <1>5, <4>3, <5>1, SMT DEF Inv, TypeOK, InstructionFields
      <4> QED
        BY <2>7, <4>2, <4>3
    <3>2. ISA!Branch
      BY <1>1, <1>3, <1>14, <2>1, <2>2, <2>7, <3>1 DEF ISA!Branch, a, b
    <3> QED
      BY <3>2 DEF ISA!Next
  <2>8. CASE f.opcode = 2
    <3>1. newPC = (pc - (pc % 268435456)) + f.address * 4
      BY <1>6, <2>8, SMT DEF getNextPC, newPC, Flag
    <3>2. ISA!Jump
      BY <1>1, <1>3, <1>12, <1>14, <2>1, <2>2, <2>8, <3>1, SMT DEF ISA!Jump
    <3> QED
      BY <3>2 DEF ISA!Next
  <2> QED
    BY <1>9, <2>4, <2>5, <2>6, <2>7, <2>8
<1> QED
  BY <1>1, <1>2, <1>13, <1>14, SMT

-----------------------------------------------------------------------------
LEMMA InitRefines == Init => ISA!Init
<1> SUFFICES ASSUME Init PROVE ISA!Init
  OBVIOUS
<1>1. instMemory \in Seq(Int) /\ regs \in [0 .. 33 -> WORD]
  BY ProgramsAssumption, RegsAssumption DEF Init, Registers
<1>2. dataMemory \in [DOMAIN dataMemory -> WORD]
  BY MemoryAssumption DEF Init
<1> QED
  BY <1>1, <1>2, SameWords DEF Init, ISA!Init

LEMMA StepRefines ==
  ASSUME W >= 5, Inv, Executable(instMemory), [Next]_vars
  PROVE  [ISA!Next]_(ISA!vars)
<1>1. CASE SystemCall
  BY <1>1, SystemCallRefines
<1>2. CASE Unrecognized
  BY <1>2, UnrecognizedRefines
<1>3. CASE Execute
  BY <1>3, ExecuteRefines
<1>4. CASE FetchOutside
  BY <1>4, FetchOutsideRefines
<1>5. CASE Terminated \/ UNCHANGED vars
  BY <1>5 DEF Terminated, vars, ISA!vars
<1> QED
  BY <1>1, <1>2, <1>3, <1>4, <1>5 DEF Next

\* Every run of the harness on programs that leave register 0 alone is a run
\* of MipsISA: one call of execute_singleCycleCPU() executes one instruction.
THEOREM Refinement ==
  ASSUME W >= 5, \A p \in Programs : Executable(p)
  PROVE  Spec => Implements
<1>1. Init => Inv /\ Executable(instMemory) /\ ISA!Init
  BY InitInv, InitRefines DEF Init
<1>2. Inv /\ [Next]_vars => Inv'
  BY StepInv
<1>3. Executable(instMemory) /\ [Next]_vars => Executable(instMemory)'
  <2>1. [Next]_vars => instMemory' = instMemory
    BY DEF Next, SystemCall, Unrecognized, Execute, FetchOutside, Terminated, vars
  <2> QED
    BY <2>1
<1>4. Inv /\ Executable(instMemory) /\ [Next]_vars => [ISA!Next]_(ISA!vars)
  BY StepRefines
<1> QED
  BY <1>1, <1>2, <1>3, <1>4, PTL DEF Spec, Implements, ISA!Spec
=============================================================================
