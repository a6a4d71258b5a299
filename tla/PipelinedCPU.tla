---------------------------- MODULE PipelinedCPU ----------------------------
(***************************************************************************)
(* The five-stage pipeline of sim5.c.  sim5.c holds the stages; the clock  *)
(* that calls them, the IF stage and the loop around them belong to the    *)
(* test harness (sim5_test_commonCode.h declares it, its .c file is not in *)
(* the repository) and are modelled from the functions' signatures and     *)
(* comments: every stage reads the latches as they were at the start of    *)
(* the clock, and WB goes first, so that ID reads what WB writes.          *)
(***************************************************************************)
EXTENDS Words, Instructions, Sequences

CONSTANTS
  Programs,        \* the instruction memories a test may load
  InitialRegs,     \* the register files a test may start with
  InitialMemory,   \* the data memories a test may start with
  CodeOffset       \* "the effective address of the instruction at element [0]"

\* regs[34]: "the last two are 'lo' and 'hi'".
Registers == 0 .. 33

ASSUME ProgramsAssumption == Programs \subseteq Seq(Int)
ASSUME RegsAssumption == InitialRegs \subseteq [Registers -> WORD]
ASSUME MemoryAssumption ==
  \A m \in InitialMemory : m \in [DOMAIN m -> WORD]
ASSUME OffsetAssumption == CodeOffset \in Int

VARIABLES
  instMemory,      \* instruction memory: a sequence of instruction words
  regs,            \* register number -> WORD
  dataMemory,      \* index -> WORD
  pc,              \* address of the instruction in ID (the IF/ID register)
  idex,            \* the ID/EX register
  exmem,           \* the EX/MEM register
  memwb,           \* the MEM/WB register
  status,          \* "running", or why no further instruction is issued
  clocksLeft       \* clocks the harness still gives the stages after ID

vars == <<instMemory, regs, dataMemory, pc, idex, exmem, memwb, status,
          clocksLeft>>

-----------------------------------------------------------------------------
(* The pipeline registers of sim5.h.  The C fields hold 0 or 1 for a flag. *)

ID_EX ==
  [rs : RegNumber, rt : RegNumber, rd : RegNumber,
   rsVal : WORD, rtVal : WORD, imm16 : Int, imm32 : Int,
   ALUsrc : 0 .. 2, op : 0 .. 7, bNegate : 0 .. 1,
   memRead : 0 .. 1, memWrite : 0 .. 1, memToReg : 0 .. 1,
   regDst : 0 .. 1, regWrite : 0 .. 1]

EX_MEM ==
  [rt : RegNumber, rtVal : WORD,
   memRead : 0 .. 1, memWrite : 0 .. 1, memToReg : 0 .. 1,
   writeReg : RegNumber, regWrite : 0 .. 1, aluResult : WORD]

MEM_WB ==
  [memToReg : 0 .. 1, aluResult : WORD, memResult : WORD,
   writeReg : RegNumber, regWrite : 0 .. 1]

\* What execute_ID() writes for a stall; the latches also start this way.
Bubble ==
  [rs |-> 0, rt |-> 0, rd |-> 0, rsVal |-> Zero, rtVal |-> Zero,
   imm16 |-> 0, imm32 |-> 0, ALUsrc |-> 0, op |-> 0, bNegate |-> 0,
   memRead |-> 0, memWrite |-> 0, memToReg |-> 0, regDst |-> 0, regWrite |-> 0]

EmptyEX_MEM ==
  [rt |-> 0, rtVal |-> Zero, memRead |-> 0, memWrite |-> 0, memToReg |-> 0,
   writeReg |-> 0, regWrite |-> 0, aluResult |-> Zero]

EmptyMEM_WB ==
  [memToReg |-> 0, aluResult |-> Zero, memResult |-> Zero,
   writeReg |-> 0, regWrite |-> 0]

-----------------------------------------------------------------------------
(* ID *)

RTypeFuncts == {0} \cup 32 .. 39 \cup {42}
Immediates == {8, 9, 10, 12, 13, 15}
LoadWord == 35
StoreWord == 43

\* The instructions for which execute_ID() returns 1.
Recognized(f) ==
  \/ f.opcode = 0 /\ f.funct \in RTypeFuncts
  \/ f.opcode \in {2, 4, 5, LoadWord, StoreWord} \cup Immediates

\* The registers IDtoIF_get_stall() takes an instruction to read.
ReadsRs(f) == f.opcode \in {0, 4, 5, 8, 9, 10, 12, 13, LoadWord, StoreWord}
ReadsRt(f) == f.opcode \in {0, 4, 5, StoreWord}
Reads(f, r) == (ReadsRs(f) /\ f.rs = r) \/ (ReadsRt(f) /\ f.rt = r)

\* Seeded fault: rd is taken from the immediate by the shift of shamt.
DestinationFromImmediate(latch) ==
  IF latch.regDst = 0 THEN latch.rt ELSE latch.imm16 \div 64

Destination(latch) == IF latch.regDst = 0 THEN latch.rt ELSE latch.rd

\* A load one instruction ahead.
LoadUseStall(f, oldIdex) ==
  /\ oldIdex.memRead = 1
  /\ oldIdex.regWrite = 1
  /\ f.opcode # StoreWord
  /\ Reads(f, Destination(oldIdex))

\* Seeded faults: the stall for loads, or the one for stores, is forgotten.
ExMemStallForStores(f, oldIdex, oldMem) ==
  /\ oldMem.regWrite = 1
  /\ f.opcode = StoreWord
  /\ f.rt = oldMem.writeReg
  /\ ~ (oldIdex.regWrite = 1 /\ Destination(oldIdex) = oldMem.writeReg)

ExMemStallForLoads(f, oldIdex, oldMem) ==
  /\ oldMem.regWrite = 1
  /\ oldMem.memRead = 1
  /\ f.opcode # StoreWord
  /\ Reads(f, oldMem.writeReg)

\* A load two instructions ahead, or, for the data of a store, any writer
\* two ahead that the instruction between them does not overwrite.
ExMemStall(f, oldIdex, oldMem) ==
  /\ oldMem.regWrite = 1
  /\ oldMem.writeReg # 0
  /\ IF oldMem.memRead = 1 /\ f.opcode # StoreWord
     THEN Reads(f, oldMem.writeReg)
     ELSE /\ f.opcode = StoreWord
          /\ f.rt = oldMem.writeReg
          /\ ~ (oldIdex.regWrite = 1 /\ Destination(oldIdex) = oldMem.writeReg)

IDtoIF_get_stall(f, oldIdex, oldMem) ==
  LoadUseStall(f, oldIdex) \/ ExMemStall(f, oldIdex, oldMem)

IDtoIF_get_branchControl(f, rsVal, rtVal) ==
  CASE f.opcode = 2 -> 2
    [] f.opcode = 4 /\ rsVal = rtVal -> 1
    [] f.opcode = 5 /\ rsVal # rtVal -> 1
    [] OTHER -> 0

\* Seeded fault: the offset counts from the branch itself.
branchAddrFromPC(pcAddFour, f) == pcAddFour - 4 + f.imm32 * 4

calc_branchAddr(pcAddFour, f) == pcAddFour + f.imm32 * 4

\* The low 28 bits come from the instruction, the others from pcAddFour.
calc_jumpAddr(pcAddFour, f) ==
  (pcAddFour - (pcAddFour % 268435456)) + f.address * 4

ALUop(f) ==
  IF f.opcode = 0
  THEN CASE f.funct = 0 -> 5
         [] f.funct \in 32 .. 35 -> 2
         [] f.funct = 36 -> 0
         [] f.funct = 37 -> 1
         [] f.funct = 38 -> 4
         [] f.funct = 39 -> 6
         [] f.funct = 42 -> 3
         [] OTHER -> 0
  ELSE CASE f.opcode \in {8, 9, LoadWord, StoreWord} -> 2
         [] f.opcode = 10 -> 3
         [] f.opcode = 13 -> 1
         [] f.opcode = 15 -> 7
         [] OTHER -> 0

Flag(condition) == IF condition THEN 1 ELSE 0

\* The latch execute_ID() fills when it does not stall.  An instruction it
\* does not recognize leaves every control bit 0; J, BEQ and BNE, finished
\* in ID, leave the register fields 0 as well.
Decoded(f, rsVal, rtVal) ==
  LET rType == f.opcode = 0 /\ f.funct \in RTypeFuncts
  IN  IF f.opcode \in {2, 4, 5}
      THEN [Bubble EXCEPT !.imm16 = f.imm16, !.imm32 = f.imm32]
      ELSE [rs |-> f.rs, rt |-> f.rt, rd |-> f.rd,
            rsVal |-> rsVal, rtVal |-> rtVal,
            imm16 |-> f.imm16, imm32 |-> f.imm32,
            ALUsrc |-> IF f.opcode \in {8, 9, 10, LoadWord, StoreWord} THEN 1
                       ELSE IF f.opcode \in {12, 13, 15} THEN 2 ELSE 0,
            op |-> ALUop(f),
            bNegate |-> Flag((rType /\ f.funct \in {34, 35, 42}) \/ f.opcode = 10),
            memRead |-> Flag(f.opcode = LoadWord),
            memWrite |-> Flag(f.opcode = StoreWord),
            memToReg |-> Flag(f.opcode = LoadWord),
            regDst |-> Flag(rType),
            regWrite |-> Flag(rType \/ f.opcode \in {LoadWord} \cup Immediates)]

\* Seeded fault: a stall does not clear the latch.
execute_IDWithoutBubble(IDstall, f, rsVal, rtVal) == Decoded(f, rsVal, rtVal)

execute_ID(IDstall, f, rsVal, rtVal) ==
  IF IDstall THEN Bubble ELSE Decoded(f, rsVal, rtVal)

\* The int execute_ID() returns.
IDReturn(IDstall, f) == Flag(IDstall \/ Recognized(f))

-----------------------------------------------------------------------------
(* EX *)

\* What a MEM/WB register is about to write: the value WB writes and the
\* value the forwarding paths take.
WBValue(wb) == IF wb.memToReg = 1 THEN wb.memResult ELSE wb.aluResult

\* Seeded fault: the older of two results wins.
ForwardedOldestFirst(r, val, exMem, memWb) ==
  IF memWb.regWrite = 1 /\ memWb.writeReg = r THEN WBValue(memWb)
  ELSE IF exMem.regWrite = 1 /\ exMem.writeReg = r THEN exMem.aluResult
  ELSE val

\* The forwarding unit: the value of register r as EX sees it.
Forwarded(r, val, exMem, memWb) ==
  IF exMem.regWrite = 1 /\ exMem.writeReg = r THEN exMem.aluResult
  ELSE IF memWb.regWrite = 1 /\ memWb.writeReg = r THEN WBValue(memWb)
  ELSE val

EX_getALUinput1(idEx, exMem, memWb) ==
  Forwarded(idEx.rs, idEx.rsVal, exMem, memWb)

\* Seeded fault: ANDI, ORI and LUI get the sign-extended immediate.
ALUinput2SignExtended(idEx, exMem, memWb) ==
  IF idEx.ALUsrc = 0 THEN Forwarded(idEx.rt, idEx.rtVal, exMem, memWb)
  ELSE ImmediateWord(idEx.imm32)

EX_getALUinput2(idEx, exMem, memWb) ==
  CASE idEx.ALUsrc = 0 -> Forwarded(idEx.rt, idEx.rtVal, exMem, memWb)
    [] idEx.ALUsrc = 1 -> ImmediateWord(idEx.imm32)
    [] idEx.ALUsrc = 2 -> ImmediateWord(idEx.imm16)
    [] OTHER -> Zero

\* rtVal << n: C does not define it for n >= 32, where the targets of the
\* compilers use the low five bits of n or shift everything out.
Shifted(rtVal, n) ==
  IF n < 32 THEN {ShiftLeft(rtVal, n)} ELSE {ShiftLeft(rtVal, n % 32), Zero}

\* Case 5 shifts by the whole imm16 field.
ALUresults(idEx, input1, input2) ==
  CASE idEx.op = 0 -> {BitAnd(input1, input2)}
    [] idEx.op = 1 -> {BitOr(input1, input2)}
    [] idEx.op = 2 -> {IF idEx.bNegate = 0 THEN Plus(input1, input2)
                                           ELSE Minus(input1, input2)}
    [] idEx.op = 3 -> {IF SignedLess(input1, input2) THEN One ELSE Zero}
    [] idEx.op = 4 -> {BitXor(input1, input2)}
    [] idEx.op = 5 -> Shifted(idEx.rtVal, idEx.imm16)
    [] idEx.op = 6 -> {BitNot(BitOr(input1, input2))}
    [] idEx.op = 7 -> {ShiftLeft(input2, 16)}
    [] OTHER -> {Zero}

\* The EX/MEM register for a result of the ALU ...
FillEX_MEM(idEx, aluResult) ==
  [rt |-> idEx.rt, rtVal |-> idEx.rtVal,
   memRead |-> idEx.memRead, memWrite |-> idEx.memWrite,
   memToReg |-> idEx.memToReg,
   writeReg |-> Destination(idEx), regWrite |-> idEx.regWrite,
   aluResult |-> aluResult]

\* ... and those that execute_EX() may leave.
execute_EX(idEx, input1, input2) ==
  {FillEX_MEM(idEx, result) : result \in ALUresults(idEx, input1, input2)}

-----------------------------------------------------------------------------
(* MEM and WB *)

\* "mem + memAddress / 4"
MemIndex(address) == DivBy4(Value(address))

\* The data of a store, with the forwarding path into MEM.
WriteData(in, originalWb) ==
  IF /\ originalWb.regWrite = 1
     /\ originalWb.writeReg # 0
     /\ originalWb.writeReg = in.rt
  THEN WBValue(originalWb)
  ELSE in.rtVal

\* The data memory after execute_MEM() ...
MemoryAfter(in, originalWb, mem) ==
  IF in.memWrite = 1
  THEN [mem EXCEPT ![MemIndex(in.aluResult)] = WriteData(in, originalWb)]
  ELSE mem

\* ... and the MEM/WB register it fills.
execute_MEM(in, mem) ==
  [memToReg |-> in.memToReg, aluResult |-> in.aluResult,
   memResult |-> IF in.memRead = 1 THEN mem[MemIndex(in.aluResult)] ELSE Zero,
   writeReg |-> in.writeReg, regWrite |-> in.regWrite]

\* The register file after execute_WB().
execute_WB(in, registers) ==
  IF in.regWrite = 0 \/ in.writeReg = 0 THEN registers
  ELSE [registers EXCEPT ![in.writeReg] = WBValue(in)]

-----------------------------------------------------------------------------
(* The clock *)

Index(address) == ((address - CodeOffset) \div 4) + 1
InProgram == Index(pc) \in DOMAIN instMemory
Instruction == instMemory[Index(pc)]
Fields == extract_instructionFields(Instruction)

\* The register file ID reads.
RegsID == execute_WB(memwb, regs)

\* MEM is about to access a word of the data memory, if any.
AccessInMemory ==
  exmem.memRead = 1 \/ exmem.memWrite = 1 =>
    MemIndex(exmem.aluResult) \in DOMAIN dataMemory

\* WB, MEM and EX of one clock.
BackEnd ==
  /\ AccessInMemory
  /\ regs' = RegsID
  /\ dataMemory' = MemoryAfter(exmem, memwb, dataMemory)
  /\ memwb' = execute_MEM(exmem, dataMemory)
  /\ exmem' \in execute_EX(idex, EX_getALUinput1(idex, exmem, memwb),
                                 EX_getALUinput2(idex, exmem, memwb))
  /\ UNCHANGED instMemory

OnInstruction == status = "running" /\ InProgram /\ Instruction # SYSCALL
MustStall == IDtoIF_get_stall(Fields, idex, exmem)

\* The instruction in ID waits, and EX gets a bubble.
StallClock ==
  /\ OnInstruction
  /\ MustStall
  /\ BackEnd
  /\ idex' = execute_ID(TRUE, Fields, Zero, Zero)
  /\ UNCHANGED <<pc, status, clocksLeft>>

\* ID passes an instruction on and tells IF where to fetch the next one.
IssueClock ==
  LET rsVal == RegsID[Fields.rs]
      rtVal == RegsID[Fields.rt]
  IN  /\ OnInstruction
      /\ ~ MustStall
      /\ IDReturn(FALSE, Fields) = 1
      /\ BackEnd
      /\ idex' = execute_ID(FALSE, Fields, rsVal, rtVal)
      /\ LET control == IDtoIF_get_branchControl(Fields, rsVal, rtVal)
         IN  pc' = CASE control = 0 -> pc + 4
                     [] control = 1 -> calc_branchAddr(pc + 4, Fields)
                     [] control = 2 -> calc_jumpAddr(pc + 4, Fields)
      /\ UNCHANGED <<status, clocksLeft>>

\* "This terminates on an 'error' (from execute_ID())" ...
ErrorClock ==
  /\ OnInstruction
  /\ ~ MustStall
  /\ IDReturn(FALSE, Fields) = 0
  /\ BackEnd
  /\ idex' = execute_ID(FALSE, Fields, RegsID[Fields.rs], RegsID[Fields.rt])
  /\ status' = "error"
  /\ UNCHANGED <<pc, clocksLeft>>

\* ... "or on syscall 10"; leaving the program is undefined.
EndClock ==
  /\ status = "running"
  /\ InProgram => Instruction = SYSCALL
  /\ BackEnd
  /\ idex' = Bubble
  /\ status' = IF InProgram THEN "exit" ELSE "wild"
  /\ UNCHANGED <<pc, clocksLeft>>

\* The older instructions leave the pipeline: EX, MEM and WB of the last one.
DrainClock ==
  /\ status \in {"exit", "error", "wild"}
  /\ clocksLeft > 0
  /\ BackEnd
  /\ idex' = Bubble
  /\ clocksLeft' = clocksLeft - 1
  /\ UNCHANGED <<pc, status>>

\* An access outside the data memory is undefined: the model stops.
MemoryFault ==
  /\ status # "fault"
  /\ clocksLeft > 0
  /\ ~ AccessInMemory
  /\ status' = "fault"
  /\ UNCHANGED <<instMemory, regs, dataMemory, pc, idex, exmem, memwb, clocksLeft>>

Terminated ==
  /\ status = "fault" \/ (status # "running" /\ clocksLeft = 0)
  /\ UNCHANGED vars

Init ==
  /\ instMemory \in Programs
  /\ regs \in InitialRegs
  /\ dataMemory \in InitialMemory
  /\ pc = CodeOffset
  /\ idex = Bubble
  /\ exmem = EmptyEX_MEM
  /\ memwb = EmptyMEM_WB
  /\ status = "running"
  /\ clocksLeft = 3

Next ==
  \/ StallClock \/ IssueClock \/ ErrorClock \/ EndClock \/ DrainClock
  \/ MemoryFault \/ Terminated

\* The harness clocks the pipeline until the program ends.
Fairness == WF_vars(Next)

Spec == Init /\ [][Next]_vars /\ Fairness

-----------------------------------------------------------------------------
(* Properties *)

\* The latches hold what their C structs can hold, with register numbers of
\* five bits and flags of one bit, and every value is a WORD.
TypeOK ==
  /\ instMemory \in Seq(Int)
  /\ regs \in [Registers -> WORD]
  /\ dataMemory \in [DOMAIN dataMemory -> WORD]
  /\ pc \in Int
  /\ idex \in ID_EX
  /\ exmem \in EX_MEM
  /\ memwb \in MEM_WB
  /\ status \in {"running", "exit", "error", "wild", "fault"}
  /\ clocksLeft \in 0 .. 3

\* A stall of IDtoIF_get_stall() ends: the bubbles it makes execute_ID() send
\* down the pipeline drive the load or the writer it waits for to WB.
StallEnds == []<>(~ (OnInstruction /\ MustStall))

\* A program without backward branches comes to its end.
Terminates == <>(status # "running")
=============================================================================
