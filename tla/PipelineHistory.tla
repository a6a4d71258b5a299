--------------------------- MODULE PipelineHistory ---------------------------
(***************************************************************************)
(* PipelinedCPU with three auxiliary variables, the addresses of the       *)
(* instructions in the three latches, and the claim that the pipeline      *)
(* implements MipsISA.  An instruction takes effect, as the abstract       *)
(* machine sees it, when it leaves MEM: what MEM/WB holds is then written  *)
(* by WB whatever happens, and a store has reached the data memory.        *)
(***************************************************************************)
EXTENDS PipelinedCPU

CONSTANT NoInstruction   \* the tag of a latch that holds no instruction

ASSUME NoInstructionAssumption == NoInstruction \notin Int

VARIABLES
  idexPc,          \* address of the instruction in ID/EX, or NoInstruction
  exmemPc,         \* address of the instruction in EX/MEM, or NoInstruction
  memwbPc          \* address of the instruction in MEM/WB, or NoInstruction

tags == <<idexPc, exmemPc, memwbPc>>
hvars == <<vars, tags>>

HInit ==
  /\ Init
  /\ idexPc = NoInstruction
  /\ exmemPc = NoInstruction
  /\ memwbPc = NoInstruction

\* The tags move with the latches: only IssueClock puts an instruction in.
Enter(tag) == idexPc' = tag /\ exmemPc' = idexPc /\ memwbPc' = exmemPc

HIssue == IssueClock /\ Enter(pc)
HStall == StallClock /\ Enter(NoInstruction)
HError == ErrorClock /\ Enter(NoInstruction)
HEnd == EndClock /\ Enter(NoInstruction)
HDrain == DrainClock /\ Enter(NoInstruction)
HFault == MemoryFault /\ UNCHANGED tags
HTerminated == Terminated /\ UNCHANGED tags

HNext == HIssue \/ HStall \/ HError \/ HEnd \/ HDrain \/ HFault \/ HTerminated

HSpec == HInit /\ [][HNext]_hvars /\ WF_hvars(HNext)

-----------------------------------------------------------------------------
(* The machine the program sees. *)

\* The oldest instruction that has not left MEM is the next one to execute.
ArchPc ==
  IF exmemPc # NoInstruction THEN exmemPc
  ELSE IF idexPc # NoInstruction THEN idexPc
  ELSE pc

ArchRegs == RegsID

\* The machine stops when the instructions before the end have executed.
PipelineEmpty ==
  idexPc = NoInstruction /\ exmemPc = NoInstruction /\ memwbPc = NoInstruction
ArchStatus == IF status = "fault" \/ PipelineEmpty THEN status ELSE "running"

ISA == INSTANCE MipsISA WITH
         pc <- ArchPc, regs <- ArchRegs, status <- ArchStatus, console <- <<>>,
         Opcodes <- {0, 2, 4, 5, LoadWord, StoreWord} \cup Immediates

-----------------------------------------------------------------------------
(* Programs the pipeline executes correctly.  sim5.c resolves the hazards  *)
(* between most pairs of instructions; the ones below are left to the      *)
(* program.  Conditions are over the static successor relation.            *)

FieldsAt(program, i) == extract_instructionFields(program[i])

\* The positions that may follow position i.
Successors(program, i) ==
  LET f == FieldsAt(program, i)
      address == CodeOffset + 4 * (i - 1)
      next == IF f.opcode = 2 THEN {calc_jumpAddr(address + 4, f)}
              ELSE {address + 4} \cup
                   (IF f.opcode \in {4, 5} THEN {calc_branchAddr(address + 4, f)} ELSE {})
  IN  {Index(a) : a \in next} \cap DOMAIN program

\* The register an instruction writes, or 0.
Writes(f) ==
  IF f.opcode = 0 /\ f.funct \in RTypeFuncts THEN f.rd
  ELSE IF f.opcode \in {LoadWord} \cup Immediates THEN f.rt
  ELSE 0

\* Only NOP, the shift of register 0 by 0 into register 0, has 0 as its
\* destination: EX forwards what is written to register 0.
NoZeroWrites(program) ==
  \A i \in DOMAIN program :
    LET f == FieldsAt(program, i)
    IN  program[i] # NOP =>
          /\ f.opcode = 0 /\ f.funct \in RTypeFuncts => f.rd # 0
          /\ f.opcode \in {LoadWord} \cup Immediates => f.rt # 0

\* NOP is the only shift: EX does not shift by shamt.
NoShifts(program) ==
  \A i \in DOMAIN program :
    LET f == FieldsAt(program, i)
    IN  f.opcode = 0 /\ f.funct = 0 => program[i] = NOP

\* A store does not take its address from the load just before it: stores
\* are exempt from the load-use stall.
NoLoadedStoreBase(program) ==
  \A i \in DOMAIN program : \A j \in Successors(program, i) :
    FieldsAt(program, i).opcode = LoadWord /\ FieldsAt(program, j).opcode = StoreWord
      => FieldsAt(program, j).rs # FieldsAt(program, i).rt

\* A branch does not compare what one of the two instructions before it
\* computes, loads excepted: ID has no forwarding path, and only loads stall.
SettledBranches(program) ==
  LET Disturbs(i, k) ==
        LET f == FieldsAt(program, i)
            b == FieldsAt(program, k)
        IN  /\ b.opcode \in {4, 5}
            /\ f.opcode # LoadWord
            /\ Writes(f) \in {b.rs, b.rt} \ {0}
  IN  \A i \in DOMAIN program : \A j \in Successors(program, i) :
        /\ ~ Disturbs(i, j)
        /\ \A k \in Successors(program, j) : ~ Disturbs(i, k)

HazardFree(program) ==
  /\ NoZeroWrites(program)
  /\ NoShifts(program)
  /\ NoLoadedStoreBase(program)
  /\ SettledBranches(program)

-----------------------------------------------------------------------------
(* Properties *)

\* The pipeline executes the instructions of the program one after the
\* other, each exactly once, with the effect MipsISA gives it.
Implements == ISA!Spec

\* The controls of a latch are those of the instruction its tag names, and
\* a latch without an instruction changes nothing when it is clocked on.
LatchesMatchProgram ==
  /\ idexPc # NoInstruction =>
       /\ Index(idexPc) \in DOMAIN instMemory
       /\ idex = Decoded(FieldsAt(instMemory, Index(idexPc)), idex.rsVal, idex.rtVal)
  /\ exmemPc # NoInstruction =>
       /\ Index(exmemPc) \in DOMAIN instMemory
       /\ exmem = FillEX_MEM(Decoded(FieldsAt(instMemory, Index(exmemPc)),
                                     Zero, exmem.rtVal), exmem.aluResult)
  /\ idexPc = NoInstruction =>
       idex.regWrite = 0 /\ idex.memRead = 0 /\ idex.memWrite = 0
  /\ exmemPc = NoInstruction =>
       exmem.regWrite = 0 /\ exmem.memRead = 0 /\ exmem.memWrite = 0
  /\ memwbPc = NoInstruction => memwb.regWrite = 0

\* The registers as the program sees them once the instruction in MEM has
\* taken effect.
RegsAfterMEM == execute_WB(execute_MEM(exmem, dataMemory), RegsID)

\* Whether the ALU uses its two inputs: a shift and LUI do not use the first,
\* and an immediate replaces the second.
UsesInput1 == idexPc # NoInstruction /\ idex.op \in 0 .. 4 \cup {6}
UsesInput2 == UsesInput1 /\ idex.ALUsrc = 0
IsWriter == idex.regWrite = 1 \/ idex.memWrite = 1

\* The forwarding paths into EX deliver the values the program order asks
\* for, whichever of the register file and the two latches holds them.
OperandsCurrent ==
  AccessInMemory =>
    /\ UsesInput1 /\ IsWriter =>
         EX_getALUinput1(idex, exmem, memwb) = RegsAfterMEM[idex.rs]
    /\ UsesInput2 /\ IsWriter =>
         EX_getALUinput2(idex, exmem, memwb) = RegsAfterMEM[idex.rt]

\* A store writes the value its register has when it is its turn: the one
\* ID read, or the one the forwarding path into MEM brings.
StoreDataCurrent ==
  exmem.memWrite = 1 => WriteData(exmem, memwb) = RegsID[exmem.rt]

\* A branch that ID decides compares the values the program order asks for.
BranchOperandsCurrent ==
  LET after(out) == execute_WB(execute_MEM(out, dataMemory), RegsAfterMEM)
      deciding == /\ OnInstruction /\ ~ MustStall
                  /\ Fields.opcode \in {4, 5}
                  /\ AccessInMemory /\ idex.memRead = 0
  IN  deciding =>
        \A out \in execute_EX(idex, EX_getALUinput1(idex, exmem, memwb),
                                    EX_getALUinput2(idex, exmem, memwb)) :
          /\ RegsID[Fields.rs] = after(out)[Fields.rs]
          /\ RegsID[Fields.rt] = after(out)[Fields.rt]

\* "and the destination register is not 0" (EX_getALUinput1): an instruction
\* that reads register 0 computes with 0.
ZeroReadsZero ==
  UsesInput1 /\ IsWriter /\ idex.rs = 0 =>
    EX_getALUinput1(idex, exmem, memwb) = Zero

\* "Use shamt fromt the instruction" (execute_EX): SLL shifts the register by
\* the shamt field.
ShiftsByShamt ==
  idexPc # NoInstruction /\ idex.op = 5 =>
    \A out \in execute_EX(idex, Zero, Zero) :
      out.aluResult = ShiftLeft(RegsAfterMEM[idex.rt],
                                FieldsAt(instMemory, Index(idexPc)).shamt)
=============================================================================
