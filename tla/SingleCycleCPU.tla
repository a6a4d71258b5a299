--------------------------- MODULE SingleCycleCPU ---------------------------
(***************************************************************************)
(* The single-cycle CPU: the functions of sim4.c, called in the order of   *)
(* execute_singleCycleCPU() (sim4_test_commonCode.c).  One call of that    *)
(* function is one action; the tests call it until it returns nonzero.     *)
(***************************************************************************)
EXTENDS Words, Instructions, Sequences

CONSTANTS
  Programs,        \* the instruction memories a test may load
  InitialRegs,     \* the register files a test may start with
  InitialMemory    \* the data memories a test may start with

\* regs[34]: the 32 registers, then lo and hi.
Registers == 0 .. 33

ASSUME ProgramsAssumption == Programs \subseteq Seq(Int)
ASSUME RegsAssumption == InitialRegs \subseteq [Registers -> WORD]
ASSUME MemoryAssumption ==
  \A m \in InitialMemory : m \in [DOMAIN m -> WORD]

VARIABLES
  instMemory,      \* instMemory[]
  regs,            \* regs[34]
  dataMemory,      \* dataMemory[]
  pc,              \* *pc, a byte address
  console,         \* what execSyscall() has printed, in order
  status           \* "running" while execute_singleCycleCPU() returns 0, and
                   \* then the return statement that ended the test

vars == <<instMemory, regs, dataMemory, pc, console, status>>

Init ==
  /\ instMemory \in Programs
  /\ regs \in InitialRegs
  /\ dataMemory \in InitialMemory
  /\ pc = 0
  /\ console = <<>>
  /\ status = "running"

-----------------------------------------------------------------------------
(* sim4.c: decode *)

\* The control bits; those of the ALU are not in a struct of their own.
Bit == 0 .. 1
CPUControl ==
  [ALUsrc : Bit, op : 0 .. 6, bNegate : Bit, memRead : Bit, memWrite : Bit,
   memToReg : Bit, regDst : Bit, regWrite : Bit, branch : Bit, jump : Bit,
   extra1 : Bit]

\* The instructions for which fill_CPUControl() returns 1.
RTypeFuncts == {0} \cup 32 .. 39 \cup {42}
Recognized(f) ==
  \/ f.opcode = 0 /\ f.funct \in RTypeFuncts
  \/ f.opcode \in {2, 4, 5, 8, 9, 10, 35, 43}

ALUop(f) ==
  IF f.opcode = 0
  THEN CASE f.funct = 0 -> 5
         [] f.funct \in 32 .. 35 -> 2
         [] f.funct = 36 -> 0
         [] f.funct = 37 -> 1
         [] f.funct = 38 -> 4
         [] f.funct = 39 -> 6
         [] f.funct = 42 -> 3
         [] OTHER -> 0
  ELSE CASE f.opcode \in {4, 5, 8, 9, 35, 43} -> 2
         [] f.opcode = 10 -> 3
         [] OTHER -> 0

Flag(condition) == IF condition THEN 1 ELSE 0

fill_CPUControl(f) ==
  LET rType == f.opcode = 0 /\ f.funct \in RTypeFuncts
  IN  [ALUsrc   |-> Flag(f.opcode \in {8, 9, 10, 35, 43}),
       op       |-> ALUop(f),
       bNegate  |-> Flag(\/ rType /\ f.funct \in {34, 35, 42}
                         \/ f.opcode \in {4, 5, 10}),
       memRead  |-> Flag(f.opcode = 35),
       memWrite |-> Flag(f.opcode = 43),
       memToReg |-> Flag(f.opcode = 35),
       regDst   |-> Flag(rType),
       regWrite |-> Flag(rType \/ f.opcode \in {8, 9, 10, 35}),
       branch   |-> Flag(f.opcode \in {4, 5}),
       jump     |-> Flag(f.opcode = 2),
       extra1   |-> Flag(f.opcode = 5)]

-----------------------------------------------------------------------------
(* sim4.c: fetch, execute, memory, next PC, register update *)

FetchIndex(curPC) == (curPC \div 4) + 1
getInstruction(curPC) == instMemory[FetchIndex(curPC)]

getALUinput1(control, rsVal, rtVal) == IF control.op = 5 THEN rtVal ELSE rsVal

getALUinput2(control, fields, rtVal) ==
  IF control.op = 5 THEN ImmediateWord(fields.shamt)
  ELSE IF control.ALUsrc = 1 THEN ImmediateWord(fields.imm32)
  ELSE rtVal

\* The count of a shift is a shamt, a number of five bits.
ShiftCount(input2) ==
  LET bit(i) == IF i \in input2 THEN 1 ELSE 0
  IN  bit(0) + 2 * bit(1) + 4 * bit(2) + 8 * bit(3) + 16 * bit(4)

\* Seeded fault: a shift keeps the bits that leave the word.
execute_ALUWide(control, input1, input2) ==
  IF control.op = 5 THEN {i + ShiftCount(input2) : i \in input1}
  ELSE Plus(input1, input2)

\* The result; "zero" is the test result = 0.  Another op leaves the result
\* at the 0 the harness has put there.
execute_ALU(control, input1, input2) ==
  CASE control.op = 0 -> BitAnd(input1, input2)
    [] control.op = 1 -> BitOr(input1, input2)
    [] control.op = 2 -> IF control.bNegate = 0 THEN Plus(input1, input2)
                                                ELSE Minus(input1, input2)
    [] control.op = 3 -> IF SignedLess(input1, input2) THEN One ELSE Zero
    [] control.op = 4 -> BitXor(input1, input2)
    [] control.op = 5 -> ShiftLeft(input1, ShiftCount(input2))
    [] control.op = 6 -> BitNot(BitOr(input1, input2))
    [] OTHER -> Zero

\* "memory + memAddress / 4"
MemIndex(aluResult) == DivBy4(Value(aluResult))

AccessesMemory(control) == control.memRead = 1 \/ control.memWrite = 1

\* What execute_MEM() reads, and the memory it leaves.
ReadVal(control, aluResult) ==
  IF control.memRead = 1 THEN dataMemory[MemIndex(aluResult)] ELSE Zero
MemoryAfter(control, aluResult, rtVal) ==
  IF control.memWrite = 1
  THEN [dataMemory EXCEPT ![MemIndex(aluResult)] = rtVal]
  ELSE dataMemory

\* Seeded faults: the offset is not shifted; BNE branches like BEQ.
nextPCUnshifted(fields, control, aluZero, oldPC) ==
  IF control.branch = 1 /\ aluZero THEN oldPC + 4 + fields.imm32 ELSE oldPC + 4
nextPCBranchOnEqual(fields, control, aluZero, oldPC) ==
  IF control.branch = 1 /\ aluZero THEN oldPC + 4 + fields.imm32 * 4
  ELSE IF control.jump = 1
  THEN (oldPC - (oldPC % 268435456)) + fields.address * 4
  ELSE oldPC + 4

getNextPC(fields, control, aluZero, oldPC) ==
  LET shouldBranch == IF control.extra1 = 0 THEN aluZero ELSE ~ aluZero
  IN  IF control.branch = 1 /\ shouldBranch
      THEN oldPC + 4 + fields.imm32 * 4
      ELSE IF control.branch = 0 /\ control.jump = 1
      THEN (oldPC - (oldPC % 268435456)) + fields.address * 4
      ELSE oldPC + 4

execute_updateRegs(fields, control, aluResult, readVal) ==
  LET writeReg == IF control.regDst = 0 THEN fields.rt ELSE fields.rd
      writeVal == IF control.memToReg = 0 THEN aluResult ELSE readVal
  IN  IF control.regWrite = 0 THEN regs
      ELSE [regs EXCEPT ![writeReg] = writeVal]

-----------------------------------------------------------------------------
(* sim4_test_commonCode.c: one call of execute_singleCycleCPU() *)

Running == status = "running" /\ FetchIndex(pc) \in DOMAIN instMemory

\* execSyscall(): $v0 selects the call, $a0 is its argument.  print_str
\* prints from the data memory as it is at the call.
V0 == 2
A0 == 4
Printed ==
  CASE regs[V0] = ImmediateWord(1) -> [call |-> "int", arg |-> regs[A0]]
    [] regs[V0] = ImmediateWord(11) -> [call |-> "char", arg |-> regs[A0]]
    [] regs[V0] = ImmediateWord(4) ->
         [call |-> "str", arg |-> <<regs[A0], dataMemory>>]
    [] OTHER -> [call |-> "unrecognized", arg |-> regs[V0]]

SystemCall ==
  /\ Running
  /\ getInstruction(pc) = SYSCALL
  /\ pc' = pc + 4
  /\ IF regs[V0] = ImmediateWord(10)
     THEN status' = "exit" /\ UNCHANGED console
     ELSE console' = Append(console, Printed) /\ UNCHANGED status
  /\ UNCHANGED <<instMemory, regs, dataMemory>>

\* "fill_CPUControl() returned 0"
Unrecognized ==
  /\ Running
  /\ getInstruction(pc) # SYSCALL
  /\ ~ Recognized(extract_instructionFields(getInstruction(pc)))
  /\ status' = "error"
  /\ UNCHANGED <<instMemory, regs, dataMemory, pc, console>>

\* Steps 1 to 6 of execute_singleCycleCPU().  A new PC that is not a
\* multiple of 4 ends the call before step 6; an unchanged one ends it
\* after.  An access outside the data memory is undefined: the model stops.
Execute ==
  /\ Running
  /\ getInstruction(pc) # SYSCALL
  /\ LET fields == extract_instructionFields(getInstruction(pc))
         control == fill_CPUControl(fields)
         rsVal == regs[fields.rs]
         rtVal == regs[fields.rt]
         aluResult == execute_ALU(control,
                                  getALUinput1(control, rsVal, rtVal),
                                  getALUinput2(control, fields, rtVal))
         newPC == getNextPC(fields, control, aluResult = Zero, pc)
     IN  /\ Recognized(fields)
         /\ IF AccessesMemory(control) /\ MemIndex(aluResult) \notin DOMAIN dataMemory
            THEN status' = "fault" /\ UNCHANGED <<dataMemory, pc, regs>>
            ELSE /\ dataMemory' = MemoryAfter(control, aluResult, rtVal)
                 /\ pc' = newPC
                 /\ IF newPC % 4 # 0
                    THEN status' = "misaligned" /\ UNCHANGED regs
                    ELSE /\ status' = IF newPC = pc THEN "stuck" ELSE "running"
                         /\ regs' = execute_updateRegs(fields, control, aluResult,
                                                       ReadVal(control, aluResult))
  /\ UNCHANGED <<instMemory, console>>

\* The PC has left the program: what the fetch reads is undefined.
FetchOutside ==
  /\ status = "running"
  /\ FetchIndex(pc) \notin DOMAIN instMemory
  /\ status' = "wild"
  /\ UNCHANGED <<instMemory, regs, dataMemory, pc, console>>

Terminated == status # "running" /\ UNCHANGED vars

Next == SystemCall \/ Unrecognized \/ Execute \/ FetchOutside \/ Terminated

Spec == Init /\ [][Next]_vars

-----------------------------------------------------------------------------
(* The machine the program sees.  An exit call has advanced the PC, and a  *)
(* harness that gives up leaves a machine that could go on.                *)
ISA == INSTANCE MipsISA WITH
         pc <- IF status = "exit" THEN pc - 4 ELSE pc,
         status <- IF status \in {"stuck", "misaligned"} THEN "running" ELSE status,
         Opcodes <- {0, 2, 4, 5, 8, 9, 10, 35, 43},
         CodeOffset <- 0

\* The only instruction with register 0 as its destination is NOP, the shift
\* of register 0 by 0: execute_updateRegs() writes register 0.
NoZeroWrites(program) ==
  \A i \in DOMAIN program :
    LET f == extract_instructionFields(program[i])
        control == fill_CPUControl(f)
    IN  control.regWrite = 1 /\ program[i] # NOP =>
          (IF control.regDst = 0 THEN f.rt ELSE f.rd) # 0

-----------------------------------------------------------------------------
(* Properties *)

\* Registers, program counter and stopping reason have their types, and a
\* PC is always the address of a whole instruction.
TypeOK ==
  /\ instMemory \in Seq(Int)
  /\ regs \in [Registers -> WORD]
  /\ dataMemory \in [DOMAIN dataMemory -> WORD]
  /\ pc \in Int
  /\ status \in {"running", "exit", "error", "wild", "fault", "stuck", "misaligned"}

\* The "not a multiple of 4" error of the harness (lines 219-224) cannot
\* happen: branch offsets and jump addresses are shifted by getNextPC().
PCAligned == pc % 4 = 0 /\ status # "misaligned"

\* "The $zero register was changed" (harness, lines 257-261) is an error.
\* execute_updateRegs() does not test for register 0.
ZeroRegisterIsZero == regs[0] = Zero

\* One call of execute_singleCycleCPU() executes one instruction, with the
\* effect MipsISA gives it on registers, memory, PC and console.
Implements == ISA!Spec
=============================================================================
