------------------------------ MODULE MipsISA ------------------------------
(***************************************************************************)
(* The machine the CPU simulators promise to the program they run: one     *)
(* instruction at a time, each one executed completely before the next,    *)
(* in the order the program counter gives.  There are no control bits, no  *)
(* ALU, no latches and no forwarding here.  Both SingleCycleCPU and        *)
(* PipelinedCPU are checked to implement it.                               *)
(***************************************************************************)
EXTENDS Words, Instructions, Sequences

CONSTANTS
  CodeOffset,      \* the address of the first instruction
  Opcodes          \* the opcodes the machine implements

VARIABLES
  instMemory,      \* the program: a sequence of instruction words
  regs,            \* register number -> WORD
  dataMemory,      \* index -> WORD
  pc,              \* address of the next instruction
  console,         \* what the system calls have printed, in order
  status           \* "running", or why the machine has stopped

vars == <<instMemory, regs, dataMemory, pc, console, status>>

RFuncts == {0} \cup 32 .. 39 \cup {42}

Init ==
  /\ instMemory \in Seq(Int)
  /\ regs \in [0 .. 33 -> WORD]
  /\ dataMemory \in [DOMAIN dataMemory -> WORD]
  /\ pc = CodeOffset
  /\ console = <<>>
  /\ status = "running"

-----------------------------------------------------------------------------
Index == ((pc - CodeOffset) \div 4) + 1
Instruction == extract_instructionFields(instMemory[Index])

OnInstruction ==
  /\ status = "running"
  /\ Index \in DOMAIN instMemory
  /\ instMemory[Index] # SYSCALL

Implemented(f) ==
  /\ f.opcode \in Opcodes
  /\ f.opcode = 0 => f.funct \in RFuncts

\* The result of a register-to-register instruction.
RResult(f, a, b) ==
  CASE f.funct \in {32, 33} -> Plus(a, b)
    [] f.funct \in {34, 35} -> Minus(a, b)
    [] f.funct = 36 -> BitAnd(a, b)
    [] f.funct = 37 -> BitOr(a, b)
    [] f.funct = 38 -> BitXor(a, b)
    [] f.funct = 39 -> BitNot(BitOr(a, b))
    [] f.funct = 42 -> IF SignedLess(a, b) THEN One ELSE Zero
    [] f.funct = 0 -> ShiftLeft(b, f.shamt)

\* The result of an instruction with an immediate operand.
IResult(f, a) ==
  CASE f.opcode \in {8, 9} -> Plus(a, ImmediateWord(f.imm32))
    [] f.opcode = 10 -> IF SignedLess(a, ImmediateWord(f.imm32)) THEN One ELSE Zero
    [] f.opcode = 12 -> BitAnd(a, ImmediateWord(f.imm16))
    [] f.opcode = 13 -> BitOr(a, ImmediateWord(f.imm16))
    [] f.opcode = 15 -> ShiftLeft(ImmediateWord(f.imm16), 16)

\* Register 0 reads as zero whatever is written to it.
Write(r, v) == regs' = IF r = 0 THEN regs ELSE [regs EXCEPT ![r] = v]

Address(f) == DivBy4(Value(Plus(regs[f.rs], ImmediateWord(f.imm32))))

Arithmetic ==
  LET f == Instruction
  IN  /\ OnInstruction /\ Implemented(f)
      /\ \/ /\ f.opcode = 0
            /\ Write(f.rd, RResult(f, regs[f.rs], regs[f.rt]))
         \/ /\ f.opcode \in {8, 9, 10, 12, 13, 15}
            /\ Write(f.rt, IResult(f, regs[f.rs]))
      /\ pc' = pc + 4
      /\ UNCHANGED <<instMemory, dataMemory, console, status>>

Load ==
  LET f == Instruction
  IN  /\ OnInstruction /\ Implemented(f)
      /\ f.opcode = 35
      /\ Address(f) \in DOMAIN dataMemory
      /\ Write(f.rt, dataMemory[Address(f)])
      /\ pc' = pc + 4
      /\ UNCHANGED <<instMemory, dataMemory, console, status>>

Store ==
  LET f == Instruction
  IN  /\ OnInstruction /\ Implemented(f)
      /\ f.opcode = 43
      /\ Address(f) \in DOMAIN dataMemory
      /\ dataMemory' = [dataMemory EXCEPT ![Address(f)] = regs[f.rt]]
      /\ pc' = pc + 4
      /\ UNCHANGED <<instMemory, regs, console, status>>

Branch ==
  LET f == Instruction
      taken == f.opcode = 4 <=> regs[f.rs] = regs[f.rt]
  IN  /\ OnInstruction /\ Implemented(f)
      /\ f.opcode \in {4, 5}
      /\ pc' = pc + 4 + IF taken THEN f.imm32 * 4 ELSE 0
      /\ UNCHANGED <<instMemory, regs, dataMemory, console, status>>

\* A jump replaces the low 28 bits of the address of the next instruction.
Jump ==
  LET f == Instruction
  IN  /\ OnInstruction /\ Implemented(f)
      /\ f.opcode = 2
      /\ pc' = ((pc + 4) - ((pc + 4) % 268435456)) + f.address * 4
      /\ UNCHANGED <<instMemory, regs, dataMemory, console, status>>

\* $v0 selects what a system call does: 10 stops the machine, 1, 11 and 4
\* print $a0 as a number, a character and the address of a string in the
\* data memory, and anything else prints a complaint.
V0 == 2
A0 == 4
Number(n) == ImmediateWord(n)

Printed ==
  CASE regs[V0] = Number(1) -> [call |-> "int", arg |-> regs[A0]]
    [] regs[V0] = Number(11) -> [call |-> "char", arg |-> regs[A0]]
    [] regs[V0] = Number(4) -> [call |-> "str", arg |-> <<regs[A0], dataMemory>>]
    [] OTHER -> [call |-> "unrecognized", arg |-> regs[V0]]

OnSystemCall ==
  /\ status = "running"
  /\ Index \in DOMAIN instMemory
  /\ instMemory[Index] = SYSCALL

WriteConsole ==
  /\ OnSystemCall
  /\ regs[V0] # Number(10)
  /\ console' = Append(console, Printed)
  /\ pc' = pc + 4
  /\ UNCHANGED <<instMemory, regs, dataMemory, status>>

-----------------------------------------------------------------------------
(* The four ways in which the machine stops. *)
Stop(cause) ==
  /\ status' = cause
  /\ UNCHANGED <<instMemory, regs, dataMemory, pc, console>>

Exit == OnSystemCall /\ regs[V0] = Number(10) /\ Stop("exit")

\* An instruction the machine does not implement.
Error == OnInstruction /\ ~ Implemented(Instruction) /\ Stop("error")

\* The program counter has left the program.
Wild == status = "running" /\ Index \notin DOMAIN instMemory /\ Stop("wild")

\* An access outside the data memory.
Fault ==
  /\ OnInstruction
  /\ Implemented(Instruction)
  /\ Instruction.opcode \in {35, 43}
  /\ Address(Instruction) \notin DOMAIN dataMemory
  /\ Stop("fault")

Next ==
  \/ Arithmetic \/ Load \/ Store \/ Branch \/ Jump \/ WriteConsole
  \/ Exit \/ Error \/ Wild \/ Fault

Spec == Init /\ [][Next]_vars
=============================================================================
