----------------------- MODULE PipelineHistoryProofs -----------------------
(***************************************************************************)
(* The pipeline for every word width, program, register file and data      *)
(* memory: its types, what the latches hold, and that stores get current   *)
(* data.  For hazard-free programs, the stalls and the forwarding paths of *)
(* sim5.c together give EX and the branches in ID the operands of program  *)
(* order.                                                                  *)
(***************************************************************************)
EXTENDS PipelineHistory, DataTheorems

-----------------------------------------------------------------------------
(* The stages map latches to latches. *)

LEMMA BubbleType == Bubble \in ID_EX
BY ConstantType DEF Bubble, ID_EX, RegNumber

LEMMA DecodedType ==
  ASSUME NEW f \in InstructionFields, NEW rsVal \in WORD, NEW rtVal \in WORD
  PROVE  Decoded(f, rsVal, rtVal) \in ID_EX
<1>1. ALUop(f) \in 0 .. 7
  BY SMT DEF ALUop
<1>2. \A p : Flag(p) \in 0 .. 1
  BY SMT DEF Flag
<1>3. /\ f.rs \in RegNumber /\ f.rt \in RegNumber /\ f.rd \in RegNumber
      /\ f.imm16 \in Int /\ f.imm32 \in Int
  BY SMT DEF InstructionFields
<1>4. CASE f.opcode \in {2, 4, 5}
  <2>1. \A n \in Int : [Bubble EXCEPT !.imm16 = n] \in ID_EX
    BY BubbleType, SMT DEF ID_EX
  <2>2. \A latch \in ID_EX : \A n \in Int : [latch EXCEPT !.imm32 = n] \in ID_EX
    BY SMT DEF ID_EX
  <2> QED
    BY <1>3, <1>4, <2>1, <2>2 DEF Decoded
<1>5. CASE f.opcode \notin {2, 4, 5}
  BY <1>1, <1>2, <1>3, <1>5, SMT DEF Decoded, ID_EX
<1> QED
  BY <1>4, <1>5

LEMMA ForwardedType ==
  ASSUME NEW r \in RegNumber, NEW val \in WORD,
         NEW ex \in EX_MEM, NEW wb \in MEM_WB
  PROVE  Forwarded(r, val, ex, wb) \in WORD
BY SMT DEF Forwarded, WBValue, EX_MEM, MEM_WB

LEMMA ALUresultsType ==
  ASSUME NEW latch \in ID_EX, NEW a \in WORD, NEW b \in WORD
  PROVE  ALUresults(latch, a, b) \subseteq WORD
BY BitwiseType, ShiftType, ArithmeticType, ConstantType DEF ALUresults, Shifted

LEMMA ExecuteEXType ==
  ASSUME NEW latch \in ID_EX, NEW a \in WORD, NEW b \in WORD
  PROVE  execute_EX(latch, a, b) \subseteq EX_MEM
<1>1. \A result \in WORD : FillEX_MEM(latch, result) \in EX_MEM
  BY SMT DEF FillEX_MEM, Destination, ID_EX, EX_MEM
<1> QED
  BY <1>1, ALUresultsType DEF execute_EX

LEMMA InputType ==
  ASSUME NEW latch \in ID_EX, NEW ex \in EX_MEM, NEW wb \in MEM_WB
  PROVE  /\ EX_getALUinput1(latch, ex, wb) \in WORD
         /\ EX_getALUinput2(latch, ex, wb) \in WORD
<1>1. /\ latch.rs \in RegNumber /\ latch.rt \in RegNumber
      /\ latch.rsVal \in WORD /\ latch.rtVal \in WORD
  BY SMT DEF ID_EX
<1> QED
  BY <1>1, ForwardedType, ImmediateType, ConstantType, SMT
     DEF EX_getALUinput1, EX_getALUinput2

LEMMA ExecuteWBType ==
  ASSUME NEW wb \in MEM_WB, NEW r \in [Registers -> WORD]
  PROVE  execute_WB(wb, r) \in [Registers -> WORD]
<1>1. WBValue(wb) \in WORD /\ wb.writeReg \in RegNumber
  BY SMT DEF WBValue, MEM_WB
<1>2. RegNumber \subseteq Registers
  BY SMT DEF RegNumber, Registers
<1> QED
  BY <1>1, <1>2, SMT DEF execute_WB
-----------------------------------------------------------------------------
(* The initial state, one clock, and the theorem. *)

LEMMA InitType == Init => TypeOK
<1> SUFFICES ASSUME Init PROVE TypeOK
  OBVIOUS
<1>1. instMemory \in Seq(Int) /\ regs \in [Registers -> WORD] /\ pc \in Int
  BY ProgramsAssumption, RegsAssumption, OffsetAssumption DEF Init
<1>2. dataMemory \in [DOMAIN dataMemory -> WORD]
  BY MemoryAssumption DEF Init
<1>3. exmem \in EX_MEM /\ memwb \in MEM_WB
  BY ConstantType, SMT DEF Init, EX_MEM, MEM_WB, EmptyEX_MEM, EmptyMEM_WB, RegNumber
<1>4. status \in {"running", "exit", "error", "wild", "fault"} /\ clocksLeft \in 0 .. 3
  BY SMT DEF Init
<1> QED
  BY <1>1, <1>2, <1>3, <1>4, BubbleType DEF Init, TypeOK

\* WB, MEM and EX keep the types of what they write.
LEMMA BackEndType ==
  ASSUME TypeOK, BackEnd
  PROVE  /\ instMemory' \in Seq(Int)
         /\ regs' \in [Registers -> WORD]
         /\ dataMemory' \in [DOMAIN dataMemory' -> WORD]
         /\ exmem' \in EX_MEM
         /\ memwb' \in MEM_WB
<1>1. /\ instMemory \in Seq(Int)
      /\ regs \in [Registers -> WORD]
      /\ dataMemory \in [DOMAIN dataMemory -> WORD]
      /\ idex \in ID_EX /\ exmem \in EX_MEM /\ memwb \in MEM_WB
  BY DEF TypeOK
<1>2. instMemory' \in Seq(Int)
  BY <1>1 DEF BackEnd
<1>3. regs' \in [Registers -> WORD]
  BY <1>1, ExecuteWBType DEF BackEnd, RegsID
<1>4. exmem' \in EX_MEM
  BY <1>1, InputType, ExecuteEXType DEF BackEnd
<1>5. dataMemory' \in [DOMAIN dataMemory' -> WORD]
  <2>1. WriteData(exmem, memwb) \in WORD
    BY <1>1, SMT DEF WriteData, WBValue, EX_MEM, MEM_WB
  <2> QED
    BY <1>1, <2>1 DEF BackEnd, MemoryAfter
<1>6. memwb' \in MEM_WB
  <2>1. exmem.memRead = 1 => dataMemory[MemIndex(exmem.aluResult)] \in WORD
    BY <1>1 DEF BackEnd, AccessInMemory
  <2>2. memwb' = execute_MEM(exmem, dataMemory)
    BY DEF BackEnd
  <2> QED
    BY <1>1, <2>1, <2>2, ConstantType, SMT DEF execute_MEM, EX_MEM, MEM_WB
<1> QED
  BY <1>2, <1>3, <1>4, <1>5, <1>6

LEMMA OnInstructionType ==
  ASSUME TypeOK, OnInstruction
  PROVE  /\ Fields \in InstructionFields
         /\ RegsID[Fields.rs] \in WORD
         /\ RegsID[Fields.rt] \in WORD
<1>1. Instruction \in Int
  BY DEF TypeOK, OnInstruction, InProgram, Instruction
<1>2. Fields \in InstructionFields
  BY <1>1, FieldsType DEF Fields
<1>3. RegsID \in [Registers -> WORD]
  BY ExecuteWBType DEF TypeOK, RegsID
<1>4. Fields.rs \in Registers /\ Fields.rt \in Registers
  BY <1>2, SMT DEF InstructionFields, RegNumber, Registers
<1> QED
  BY <1>2, <1>3, <1>4

LEMMA NextPCType ==
  ASSUME TypeOK, IssueClock
  PROVE  pc' \in Int
<1>1. pc \in Int /\ Fields.imm32 \in Int /\ Fields.address \in Int
  BY OnInstructionType DEF IssueClock, InstructionFields, TypeOK
<1>2. calc_branchAddr(pc + 4, Fields) \in Int
  BY <1>1, SMT DEF calc_branchAddr
<1>3. calc_jumpAddr(pc + 4, Fields) \in Int
  BY <1>1, SMT DEF calc_jumpAddr
<1>4. IDtoIF_get_branchControl(Fields, RegsID[Fields.rs], RegsID[Fields.rt]) \in {0, 1, 2}
  BY SMT DEF IDtoIF_get_branchControl
<1> QED
  BY <1>1, <1>2, <1>3, <1>4, SMT DEF IssueClock

LEMMA StepType == TypeOK /\ [Next]_vars => TypeOK'
<1> SUFFICES ASSUME TypeOK, [Next]_vars
             PROVE  TypeOK'
  OBVIOUS
<1>1. CASE StallClock
  <2>1. BackEnd /\ idex' \in ID_EX
    BY <1>1, BubbleType DEF StallClock, execute_ID
  <2> QED
    BY <1>1, <2>1, BackEndType DEF StallClock, TypeOK
<1>2. CASE IssueClock
  <2>1. BackEnd /\ idex' \in ID_EX
    BY <1>2, OnInstructionType, DecodedType DEF IssueClock, execute_ID
  <2>2. pc' \in Int
    BY <1>2, NextPCType
  <2> QED
    BY <1>2, <2>1, <2>2, BackEndType DEF IssueClock, TypeOK
<1>3. CASE ErrorClock
  <2>1. BackEnd /\ idex' \in ID_EX
    BY <1>3, OnInstructionType, DecodedType DEF ErrorClock, execute_ID
  <2> QED
    BY <1>3, <2>1, BackEndType DEF ErrorClock, TypeOK
<1>4. CASE EndClock
  BY <1>4, BackEndType, BubbleType DEF EndClock, TypeOK
<1>5. CASE DrainClock
  BY <1>5, BackEndType, BubbleType, SMT DEF DrainClock, TypeOK
<1>6. CASE MemoryFault
  BY <1>6 DEF MemoryFault, TypeOK
<1>7. CASE Terminated
  BY <1>7 DEF Terminated, vars, TypeOK
<1>8. CASE UNCHANGED vars
  BY <1>8 DEF vars, TypeOK
<1> QED
  BY <1>1, <1>2, <1>3, <1>4, <1>5, <1>6, <1>7, <1>8 DEF Next

\* Type correctness: whatever the program does, every latch of sim5.h holds
\* register numbers of five bits, flags of one bit and words, and the register
\* file and the data memory hold words.
THEOREM TypeCorrect == Spec => []TypeOK
<1>1. Init => TypeOK
  BY InitType
<1>2. TypeOK /\ [Next]_vars => TypeOK'
  BY StepType
<1> QED
  BY <1>1, <1>2, PTL DEF Spec


-----------------------------------------------------------------------------
(* The history variables do not change what the pipeline does. *)

LEMMA HStepIsStep == [HNext]_hvars => [Next]_vars
<1> SUFFICES ASSUME [HNext]_hvars PROVE [Next]_vars
  OBVIOUS
<1>1. CASE HNext
  BY <1>1 DEF HNext, HIssue, HStall, HError, HEnd, HDrain, HFault, HTerminated, Next
<1>2. CASE UNCHANGED hvars
  BY <1>2 DEF hvars
<1> QED
  BY <1>1, <1>2

\* The type invariant of PipelinedCPU holds of the pipeline with history.
THEOREM HistoryTypeCorrect == HSpec => []TypeOK
<1>1. HInit => TypeOK
  BY InitType DEF HInit
<1>2. TypeOK /\ [HNext]_hvars => TypeOK'
  BY StepType, HStepIsStep
<1> QED
  BY <1>1, <1>2, PTL DEF HSpec

-----------------------------------------------------------------------------
(* Decoding and executing, field by field. *)

\* The operands a latch holds do not influence its controls.
LEMMA DecodedAgain ==
  ASSUME NEW f, NEW a, NEW b,
         NEW latch, latch = Decoded(f, a, b)
  PROVE  latch = Decoded(f, latch.rsVal, latch.rtVal)
<1>1. CASE f.opcode \in {2, 4, 5}
  BY <1>1, Zenon DEF Decoded
<1>2. CASE f.opcode \notin {2, 4, 5}
  <2>1. latch.rsVal = a /\ latch.rtVal = b
    BY <1>2, SMT DEF Decoded
  <2> QED
    BY <2>1
<1> QED
  BY <1>1, <1>2

\* Everything in EX/MEM but the result follows from the decoded fields and
\* the value of rt.
LEMMA ExecuteDecoded ==
  ASSUME NEW f, NEW a, NEW b, NEW c, NEW d,
         NEW latch, latch = Decoded(f, a, b),
         NEW out \in execute_EX(latch, c, d)
  PROVE  out = FillEX_MEM(Decoded(f, Zero, out.rtVal), out.aluResult)
<1>1. PICK result : out = FillEX_MEM(latch, result)
  BY DEF execute_EX
<1>2. out.rtVal = latch.rtVal /\ out.aluResult = result
  BY <1>1, SMT DEF FillEX_MEM
<1>3. CASE f.opcode \in {2, 4, 5}
  <2>1. Decoded(f, Zero, out.rtVal) = latch
    BY <1>3, Zenon DEF Decoded
  <2> QED
    BY <1>1, <1>2, <2>1
<1>4. CASE f.opcode \notin {2, 4, 5}
  <2>1. latch.rtVal = b
    BY <1>4, SMT DEF Decoded
  <2> DEFINE e == Decoded(f, Zero, b)
  <2>2. /\ e.rt = latch.rt /\ e.rd = latch.rd /\ e.rtVal = latch.rtVal
        /\ e.memRead = latch.memRead /\ e.memWrite = latch.memWrite
        /\ e.memToReg = latch.memToReg
        /\ e.regDst = latch.regDst /\ e.regWrite = latch.regWrite
    BY <1>4, SMT DEF Decoded
  <2> HIDE DEF e
  <2>3. FillEX_MEM(e, result) = FillEX_MEM(latch, result)
    BY <2>2, SMT DEF FillEX_MEM, Destination
  <2> QED
    BY <1>1, <1>2, <2>1, <2>3 DEF e
<1> QED
  BY <1>3, <1>4

\* A latch for which ALU controls, memory and register writes are off.
Idle(latch) == latch.regWrite = 0 /\ latch.memRead = 0 /\ latch.memWrite = 0

LEMMA UnrecognizedIsIdle ==
  ASSUME NEW f, NEW a, NEW b, ~ Recognized(f)
  PROVE  Idle(Decoded(f, a, b))
<1>1. f.opcode \notin {2, 4, 5}
  BY DEF Recognized
<1>2. /\ f.opcode # LoadWord /\ f.opcode # StoreWord
      /\ ~ (f.opcode = 0 /\ f.funct \in RTypeFuncts)
      /\ f.opcode \notin {LoadWord} \cup Immediates
  BY DEF Recognized
<1> QED
  BY <1>1, <1>2, SMT DEF Decoded, Idle, Flag

LEMMA BubbleIsIdle == Idle(Bubble)
BY SMT DEF Idle, Bubble

-----------------------------------------------------------------------------
(* The four parts of LatchesMatchProgram. *)

IdexMatches ==
  idexPc # NoInstruction =>
    /\ Index(idexPc) \in DOMAIN instMemory
    /\ idex = Decoded(FieldsAt(instMemory, Index(idexPc)), idex.rsVal, idex.rtVal)

ExmemMatches ==
  exmemPc # NoInstruction =>
    /\ Index(exmemPc) \in DOMAIN instMemory
    /\ exmem = FillEX_MEM(Decoded(FieldsAt(instMemory, Index(exmemPc)),
                                  Zero, exmem.rtVal), exmem.aluResult)

EmptyIsIdle ==
  /\ idexPc = NoInstruction => Idle(idex)
  /\ exmemPc = NoInstruction => Idle(exmem)
  /\ memwbPc = NoInstruction => memwb.regWrite = 0

LEMMA Parts == LatchesMatchProgram <=> IdexMatches /\ ExmemMatches /\ EmptyIsIdle
BY DEF LatchesMatchProgram, IdexMatches, ExmemMatches, EmptyIsIdle, Idle

\* One clock moves the contents of ID/EX and of EX/MEM on with their tags.
LEMMA BackEndMatches ==
  ASSUME IdexMatches, ExmemMatches, EmptyIsIdle, BackEnd,
         exmemPc' = idexPc, memwbPc' = exmemPc
  PROVE  /\ ExmemMatches'
         /\ exmemPc' = NoInstruction => Idle(exmem')
         /\ memwbPc' = NoInstruction => memwb'.regWrite = 0
<1> DEFINE a == EX_getALUinput1(idex, exmem, memwb)
           b == EX_getALUinput2(idex, exmem, memwb)
<1>1. exmem' \in execute_EX(idex, a, b) /\ instMemory' = instMemory
  BY DEF BackEnd
<1> HIDE DEF a, b
<1>2. ExmemMatches'
  <2> SUFFICES ASSUME idexPc # NoInstruction
               PROVE  /\ Index(idexPc) \in DOMAIN instMemory
                      /\ exmem' = FillEX_MEM(Decoded(FieldsAt(instMemory, Index(idexPc)),
                                                    Zero, exmem'.rtVal), exmem'.aluResult)
    BY <1>1 DEF ExmemMatches, FieldsAt, Index
  <2>1. /\ Index(idexPc) \in DOMAIN instMemory
        /\ idex = Decoded(FieldsAt(instMemory, Index(idexPc)), idex.rsVal, idex.rtVal)
    BY DEF IdexMatches
  <2> QED
    BY <2>1, <1>1, ExecuteDecoded
<1>3. exmemPc' = NoInstruction => Idle(exmem')
  BY <1>1, SMT DEF EmptyIsIdle, Idle, execute_EX, FillEX_MEM
<1>4. memwbPc' = NoInstruction => memwb'.regWrite = 0
  BY SMT DEF EmptyIsIdle, Idle, BackEnd, execute_MEM
<1> QED
  BY <1>2, <1>3, <1>4

LEMMA EmptyIdexMatches ==
  ASSUME IdexMatches, ExmemMatches, EmptyIsIdle, BackEnd,
         Enter(NoInstruction), Idle(idex')
  PROVE  LatchesMatchProgram'
<1>1. IdexMatches'
  BY DEF IdexMatches, Enter
<1>2. ExmemMatches' /\ EmptyIsIdle'
  BY BackEndMatches DEF Enter, EmptyIsIdle
<1> QED
  BY <1>1, <1>2 DEF LatchesMatchProgram, IdexMatches, ExmemMatches, EmptyIsIdle, Idle

LEMMA StepMatches ==
  TypeOK /\ LatchesMatchProgram /\ [HNext]_hvars => LatchesMatchProgram'
<1> SUFFICES ASSUME TypeOK, LatchesMatchProgram, [HNext]_hvars
             PROVE  LatchesMatchProgram'
  OBVIOUS
<1> USE Parts
<1>1. CASE HIssue
  <2>1. IdexMatches'
    <3> SUFFICES /\ Index(pc) \in DOMAIN instMemory
                 /\ idex' = Decoded(Fields, idex'.rsVal, idex'.rtVal)
                 /\ instMemory' = instMemory /\ idexPc' = pc
      BY DEF IdexMatches, Fields, FieldsAt, Instruction, Index
    <3>1. /\ Index(pc) \in DOMAIN instMemory
          /\ instMemory' = instMemory /\ idexPc' = pc
      BY <1>1 DEF HIssue, IssueClock, OnInstruction, InProgram, BackEnd, Enter
    <3>2. idex' = Decoded(Fields, RegsID[Fields.rs], RegsID[Fields.rt])
      BY <1>1 DEF HIssue, IssueClock, execute_ID
    <3> QED
      BY <3>1, <3>2, DecodedAgain
  <2>2. idexPc' # NoInstruction
    BY <1>1, NoInstructionAssumption DEF HIssue, Enter, TypeOK
  <2>3. ExmemMatches' /\ EmptyIsIdle'
    BY <1>1, <2>2, BackEndMatches DEF HIssue, IssueClock, Enter, EmptyIsIdle
  <2> QED
    BY <2>1, <2>3
       DEF LatchesMatchProgram, IdexMatches, ExmemMatches, EmptyIsIdle, Idle
<1>2. CASE HStall
  BY <1>2, EmptyIdexMatches, BubbleIsIdle DEF HStall, StallClock, execute_ID
<1>3. CASE HError
  BY <1>3, EmptyIdexMatches, UnrecognizedIsIdle
     DEF HError, ErrorClock, execute_ID, IDReturn, Flag
<1>4. CASE HEnd
  BY <1>4, EmptyIdexMatches, BubbleIsIdle DEF HEnd, EndClock
<1>5. CASE HDrain
  BY <1>5, EmptyIdexMatches, BubbleIsIdle DEF HDrain, DrainClock
<1>6. CASE HFault \/ HTerminated \/ UNCHANGED hvars
  BY <1>6 DEF HFault, HTerminated, MemoryFault, Terminated, hvars, vars, tags,
              LatchesMatchProgram, FieldsAt, Index
<1> QED
  BY <1>1, <1>2, <1>3, <1>4, <1>5, <1>6 DEF HNext

\* Whatever stalls, branches and bubbles there have been, each latch holds
\* what execute_ID() and execute_EX() make of the one instruction its tag
\* names, and a latch without an instruction writes nothing.
THEOREM LatchesCorrect == HSpec => []LatchesMatchProgram
<1>1. HInit => LatchesMatchProgram
  BY DEF HInit, Init, LatchesMatchProgram, Bubble, EmptyEX_MEM, EmptyMEM_WB
<1>2. TypeOK /\ LatchesMatchProgram /\ [HNext]_hvars => LatchesMatchProgram'
  BY StepMatches
<1> QED
  BY <1>1, <1>2, HistoryTypeCorrect, PTL DEF HSpec
-----------------------------------------------------------------------------
(* The data of a store.  StoreDataCurrent is not inductive: it follows,    *)
(* one clock later, from what holds of a store in EX, and that from the    *)
(* stall in IDtoIF_get_stall().                                            *)

\* A store in EX holds the value of its register, or the instruction ahead
\* of it is about to write that register and will be forwarded to MEM.
StoreInEX ==
  idex.memWrite = 1 =>
    \/ exmem.regWrite = 1 /\ exmem.writeReg = idex.rt /\ idex.rt # 0
    \/ /\ exmem.regWrite = 0 \/ exmem.writeReg # idex.rt \/ idex.rt = 0
       /\ idex.rtVal = RegsID[idex.rt]

LEMMA WBWrites ==
  ASSUME NEW wb \in MEM_WB, NEW r \in [Registers -> WORD], NEW n \in RegNumber
  PROVE  execute_WB(wb, r)[n] = IF wb.regWrite = 1 /\ wb.writeReg = n /\ n # 0
                                THEN WBValue(wb) ELSE r[n]
<1>1. wb.writeReg \in RegNumber /\ wb.regWrite \in {0, 1}
  BY SMT DEF MEM_WB
<1>2. RegNumber \subseteq Registers
  BY SMT DEF RegNumber, Registers
<1> QED
  BY <1>1, <1>2, SMT DEF execute_WB

\* The store that reaches MEM.
LEMMA StoreReachesMEM ==
  ASSUME TypeOK, TypeOK', StoreInEX, BackEnd
  PROVE  StoreDataCurrent'
<1> SUFFICES ASSUME exmem'.memWrite = 1
             PROVE  WriteData(exmem', memwb') = RegsID'[exmem'.rt]
  BY DEF StoreDataCurrent
<1>1. /\ exmem'.memWrite = idex.memWrite
      /\ exmem'.rt = idex.rt /\ exmem'.rtVal = idex.rtVal
      /\ memwb'.regWrite = exmem.regWrite /\ memwb'.writeReg = exmem.writeReg
      /\ regs' = RegsID
  BY SMT DEF BackEnd, execute_EX, FillEX_MEM, execute_MEM
<1>2. idex.rt \in RegNumber /\ exmem.regWrite \in {0, 1}
  BY SMT DEF TypeOK, ID_EX, EX_MEM
<1>3. RegsID'[idex.rt] =
        IF memwb'.regWrite = 1 /\ memwb'.writeReg = idex.rt /\ idex.rt # 0
        THEN WBValue(memwb') ELSE regs'[idex.rt]
  BY <1>2, WBWrites DEF TypeOK, RegsID
<1> QED
  BY <1>1, <1>2, <1>3, SMT DEF StoreInEX, WriteData

\* The store that leaves ID: IDtoIF_get_stall() did not hold it back.
LEMMA StoreLeavesID ==
  ASSUME TypeOK, TypeOK', IssueClock
  PROVE  StoreInEX'
<1> SUFFICES ASSUME idex'.memWrite = 1
             PROVE  \/ exmem'.regWrite = 1 /\ exmem'.writeReg = idex'.rt /\ idex'.rt # 0
                    \/ /\ exmem'.regWrite = 0 \/ exmem'.writeReg # idex'.rt \/ idex'.rt = 0
                       /\ idex'.rtVal = RegsID'[idex'.rt]
  BY DEF StoreInEX
<1>1. idex' = Decoded(Fields, RegsID[Fields.rs], RegsID[Fields.rt])
  BY DEF IssueClock, execute_ID
<1>2. Fields.opcode = StoreWord
  <2>1. CASE Fields.opcode \in {2, 4, 5}
    <3>1. idex' = [Bubble EXCEPT !.imm16 = Fields.imm16, !.imm32 = Fields.imm32]
      BY <1>1, <2>1, Zenon DEF Decoded
    <3> QED
      BY <3>1, SMT DEF Bubble
  <2>2. CASE Fields.opcode \notin {2, 4, 5}
    BY <1>1, <2>2, SMT DEF Decoded, Flag
  <2> QED
    BY <2>1, <2>2
<1>3. idex'.rt = Fields.rt /\ idex'.rtVal = RegsID[Fields.rt]
  BY <1>1, <1>2, SMT DEF Decoded, StoreWord
<1>4. /\ exmem'.regWrite = idex.regWrite /\ exmem'.writeReg = Destination(idex)
      /\ memwb'.regWrite = exmem.regWrite /\ memwb'.writeReg = exmem.writeReg
      /\ regs' = RegsID
  BY SMT DEF IssueClock, BackEnd, execute_EX, FillEX_MEM, execute_MEM
<1>5. exmem.regWrite = 1 /\ exmem.writeReg # 0 /\ Fields.rt = exmem.writeReg
        => idex.regWrite = 1 /\ Destination(idex) = exmem.writeReg
  BY <1>2, SMT DEF IssueClock, MustStall, IDtoIF_get_stall, ExMemStall
<1>6. Fields.rt \in RegNumber /\ idex.regWrite \in {0, 1} /\ exmem.regWrite \in {0, 1}
  BY OnInstructionType, SMT DEF IssueClock, InstructionFields, TypeOK, ID_EX, EX_MEM
<1>7. RegsID'[Fields.rt] =
        IF memwb'.regWrite = 1 /\ memwb'.writeReg = Fields.rt /\ Fields.rt # 0
        THEN WBValue(memwb') ELSE regs'[Fields.rt]
  BY <1>6, WBWrites DEF TypeOK, RegsID
<1> QED
  BY <1>3, <1>4, <1>5, <1>6, <1>7, SMT

LEMMA StepStores ==
  TypeOK /\ TypeOK' /\ StoreInEX /\ StoreDataCurrent /\ [Next]_vars
    => StoreInEX' /\ StoreDataCurrent'
<1> SUFFICES ASSUME TypeOK, TypeOK', StoreInEX, StoreDataCurrent, [Next]_vars
             PROVE  StoreInEX' /\ StoreDataCurrent'
  OBVIOUS
<1>1. CASE IssueClock
  BY <1>1, StoreLeavesID, StoreReachesMEM DEF IssueClock
<1>2. CASE StallClock \/ EndClock \/ DrainClock
  <2>1. BackEnd /\ idex' = Bubble
    BY <1>2 DEF StallClock, EndClock, DrainClock, execute_ID
  <2>2. idex'.memWrite = 0
    BY <2>1, SMT DEF Bubble
  <2> QED
    BY <2>1, <2>2, StoreReachesMEM DEF StoreInEX
<1>3. CASE ErrorClock
  <2>1. BackEnd /\ Idle(idex')
    BY <1>3, UnrecognizedIsIdle DEF ErrorClock, execute_ID, IDReturn, Flag
  <2> QED
    BY <2>1, StoreReachesMEM DEF StoreInEX, Idle
<1>4. CASE MemoryFault \/ Terminated \/ UNCHANGED vars
  BY <1>4 DEF MemoryFault, Terminated, vars, StoreInEX, StoreDataCurrent, RegsID
<1> QED
  BY <1>1, <1>2, <1>3, <1>4 DEF Next

\* Every store writes the value its register has in program order, for every
\* program: the stall for stores holds back exactly those whose data the
\* forwarding path into MEM cannot deliver.
THEOREM StoreDataCorrect == HSpec => []StoreDataCurrent
<1>1. HInit => StoreInEX /\ StoreDataCurrent
  BY SMT DEF HInit, Init, StoreInEX, StoreDataCurrent, Bubble, EmptyEX_MEM
<1>2. /\ TypeOK /\ TypeOK' /\ StoreInEX /\ StoreDataCurrent /\ [HNext]_hvars
      => StoreInEX' /\ StoreDataCurrent'
  BY StepStores, HStepIsStep
<1> QED
  BY <1>1, <1>2, HistoryTypeCorrect, PTL DEF HSpec

-----------------------------------------------------------------------------
(* Operands: the inductive invariant. *)

\* The fields of the instruction a tag names.
At(tag) == FieldsAt(instMemory, Index(tag))

\* An address of an instruction word.
Aligned(address) == address \in Int /\ (address - CodeOffset) % 4 = 0

Tagged(tag) ==
  /\ Aligned(tag)
  /\ Index(tag) \in DOMAIN instMemory
  /\ instMemory[Index(tag)] # SYSCALL
  /\ Recognized(At(tag))

\* Tags name recognized instructions of the program.
TagsValid ==
  /\ Aligned(pc)
  /\ idexPc # NoInstruction => Tagged(idexPc)
  /\ exmemPc # NoInstruction => Tagged(exmemPc)

\* The instructions in ID, EX and MEM follow each other in the program.
InProgramOrder ==
  /\ idexPc # NoInstruction /\ status = "running" /\ InProgram =>
       Index(pc) \in Successors(instMemory, Index(idexPc))
  /\ exmemPc # NoInstruction /\ idexPc # NoInstruction =>
       Index(idexPc) \in Successors(instMemory, Index(exmemPc))
  /\ exmemPc # NoInstruction /\ idexPc = NoInstruction
       /\ status = "running" /\ InProgram =>
       Index(pc) \in Successors(instMemory, Index(exmemPc))

\* ID read the registers as the instructions left of WB leave them.
ReadInID ==
  IsWriter => idex.rsVal = regs[idex.rs] /\ idex.rtVal = regs[idex.rt]

\* What is on its way to register 0 is what the register holds.
ZeroWritesHarmless ==
  /\ exmem.regWrite = 1 /\ exmem.writeReg = 0 =>
       exmem.aluResult = regs[0] /\ exmem.memToReg = 0
  /\ memwb.regWrite = 1 /\ memwb.writeReg = 0 => WBValue(memwb) = regs[0]

\* EX does not need the word that MEM is loading.
LoadsSettled ==
  exmem.memRead = 1 /\ IsWriter =>
    /\ UsesInput1 => idex.rs # exmem.writeReg
    /\ UsesInput2 => idex.rt # exmem.writeReg

OperandsInv ==
  /\ TypeOK
  /\ LatchesMatchProgram
  /\ HazardFree(instMemory)
  /\ TagsValid
  /\ InProgramOrder
  /\ ReadInID
  /\ ZeroWritesHarmless
  /\ LoadsSettled

-----------------------------------------------------------------------------
(* What the latches hold, in terms of the instructions in them. *)

\* The writers of a register.
RWriter(f) == f.opcode = 0 /\ f.funct \in RTypeFuncts
IWriter(f) == f.opcode \in {LoadWord} \cup Immediates

LEMMA DecodedFields ==
  ASSUME NEW f, NEW a, NEW b, NEW d, d = Decoded(f, a, b)
  PROVE  /\ f.opcode \in {2, 4, 5} =>
              d.regWrite = 0 /\ d.memRead = 0 /\ d.memWrite = 0 /\ d.memToReg = 0
         /\ f.opcode \notin {2, 4, 5} =>
              /\ d.rs = f.rs /\ d.rt = f.rt /\ d.rd = f.rd
              /\ d.rsVal = a /\ d.rtVal = b
              /\ d.imm16 = f.imm16 /\ d.imm32 = f.imm32
              /\ d.op = ALUop(f)
              /\ d.ALUsrc = IF f.opcode \in {8, 9, 10, LoadWord, StoreWord} THEN 1
                            ELSE IF f.opcode \in {12, 13, 15} THEN 2 ELSE 0
              /\ d.bNegate = IF (RWriter(f) /\ f.funct \in {34, 35, 42}) \/ f.opcode = 10
                             THEN 1 ELSE 0
              /\ d.memRead = IF f.opcode = LoadWord THEN 1 ELSE 0
              /\ d.memWrite = IF f.opcode = StoreWord THEN 1 ELSE 0
              /\ d.memToReg = IF f.opcode = LoadWord THEN 1 ELSE 0
              /\ d.regDst = IF RWriter(f) THEN 1 ELSE 0
              /\ d.regWrite = IF RWriter(f) \/ IWriter(f) THEN 1 ELSE 0
<1>1. CASE f.opcode \in {2, 4, 5}
  <2>1. d = [Bubble EXCEPT !.imm16 = f.imm16, !.imm32 = f.imm32]
    BY <1>1, Zenon DEF Decoded
  <2>2. d.regWrite = 0 /\ d.memRead = 0 /\ d.memWrite = 0 /\ d.memToReg = 0
    BY <2>1, SMT DEF Bubble
  <2> QED
    BY <1>1, <2>2
<1>2. CASE f.opcode \notin {2, 4, 5}
  BY <1>2, SMT DEF Decoded, Flag, RWriter, IWriter
<1> QED
  BY <1>1, <1>2

\* A decoded instruction that writes is no branch and no jump, and its
\* destination is the register it writes in the program.
LEMMA DecodedWriter ==
  ASSUME NEW f, NEW a, NEW b, NEW d, d = Decoded(f, a, b)
  PROVE  /\ d.memWrite = 1 => f.opcode = StoreWord
         /\ d.memRead = 1 \/ d.memToReg = 1 => f.opcode = LoadWord
         /\ f.opcode = LoadWord =>
              d.memRead = 1 /\ d.memToReg = 1 /\ d.regWrite = 1 /\ Destination(d) = f.rt
         /\ d.regWrite = 1 => (RWriter(f) \/ IWriter(f)) /\ Destination(d) = Writes(f)
<1>1. CASE f.opcode \in {2, 4, 5}
  <2>1. d.regWrite = 0 /\ d.memRead = 0 /\ d.memWrite = 0 /\ d.memToReg = 0
    BY <1>1, DecodedFields
  <2> QED
    BY <1>1, <2>1, SMT DEF LoadWord
<1>2. CASE f.opcode \notin {2, 4, 5}
  <2>1. /\ d.memRead = IF f.opcode = LoadWord THEN 1 ELSE 0
        /\ d.memWrite = IF f.opcode = StoreWord THEN 1 ELSE 0
        /\ d.memToReg = IF f.opcode = LoadWord THEN 1 ELSE 0
        /\ d.regDst = IF RWriter(f) THEN 1 ELSE 0
        /\ d.regWrite = IF RWriter(f) \/ IWriter(f) THEN 1 ELSE 0
        /\ d.rt = f.rt /\ d.rd = f.rd
    BY <1>2, DecodedFields
  <2>2. IWriter(f) => ~ RWriter(f)
    BY SMT DEF IWriter, RWriter, LoadWord, Immediates
  <2>3. f.opcode = LoadWord => IWriter(f)
    BY DEF IWriter
  <2>4. Destination(d) = IF RWriter(f) THEN f.rd ELSE f.rt
    BY <2>1, SMT DEF Destination
  <2>5. Writes(f) = IF RWriter(f) THEN f.rd ELSE IF IWriter(f) THEN f.rt ELSE 0
    BY DEF Writes, RWriter, IWriter
  <2> QED
    BY <2>1, <2>2, <2>3, <2>4, <2>5
<1> QED
  BY <1>1, <1>2

\* The latch ID/EX: what it writes is written by the instruction it holds.
LEMMA InEX ==
  ASSUME LatchesMatchProgram
  PROVE  /\ idex.regWrite = 1 \/ idex.memRead = 1 \/ idex.memWrite = 1
              => idexPc # NoInstruction
         /\ idexPc # NoInstruction =>
              /\ Index(idexPc) \in DOMAIN instMemory
              /\ idex = Decoded(At(idexPc), idex.rsVal, idex.rtVal)
BY SMT DEF LatchesMatchProgram, At

\* The latch EX/MEM.
LEMMA InMEM ==
  ASSUME LatchesMatchProgram
  PROVE  /\ exmem.regWrite = 1 \/ exmem.memRead = 1 \/ exmem.memWrite = 1
              => exmemPc # NoInstruction
         /\ exmemPc # NoInstruction =>
              /\ Index(exmemPc) \in DOMAIN instMemory
              /\ \E d : /\ d = Decoded(At(exmemPc), Zero, exmem.rtVal)
                        /\ exmem = FillEX_MEM(d, exmem.aluResult)
                        /\ exmem.regWrite = d.regWrite /\ exmem.writeReg = Destination(d)
                        /\ exmem.memRead = d.memRead /\ exmem.memWrite = d.memWrite
                        /\ exmem.memToReg = d.memToReg /\ exmem.rt = d.rt
<1>1. exmem.regWrite = 1 \/ exmem.memRead = 1 \/ exmem.memWrite = 1
        => exmemPc # NoInstruction
  BY SMT DEF LatchesMatchProgram
<1>2. ASSUME exmemPc # NoInstruction
      PROVE  /\ Index(exmemPc) \in DOMAIN instMemory
             /\ exmem = FillEX_MEM(Decoded(At(exmemPc), Zero, exmem.rtVal), exmem.aluResult)
  BY <1>2 DEF LatchesMatchProgram, At
<1>3. ASSUME NEW d, NEW v, exmem = FillEX_MEM(d, v)
      PROVE  /\ exmem.regWrite = d.regWrite /\ exmem.writeReg = Destination(d)
             /\ exmem.memRead = d.memRead /\ exmem.memWrite = d.memWrite
             /\ exmem.memToReg = d.memToReg /\ exmem.rt = d.rt
  BY <1>3, SMT DEF FillEX_MEM
<1> QED
  BY <1>1, <1>2, <1>3

-----------------------------------------------------------------------------
(* Where a program goes. *)

\* Where the program goes from an instruction when the registers are r.
NextAddress(address, f, r) ==
  IF f.opcode = 2 THEN calc_jumpAddr(address + 4, f)
  ELSE IF f.opcode \in {4, 5} /\ (f.opcode = 4 <=> r[f.rs] = r[f.rt])
  THEN calc_branchAddr(address + 4, f)
  ELSE address + 4

LEMMA NextAddressAligned ==
  ASSUME CodeOffset % 4 = 0, NEW a, Aligned(a), NEW f \in InstructionFields, NEW r
  PROVE  Aligned(NextAddress(a, f, r))
<1>1. a \in Int /\ (a - CodeOffset) % 4 = 0 /\ CodeOffset \in Int
  BY OffsetAssumption DEF Aligned
<1>2. f.imm32 \in Int /\ f.address \in Int
  BY SMT DEF InstructionFields
<1>3. Aligned(a + 4)
  BY <1>1, SMT DEF Aligned
<1>4. Aligned(calc_branchAddr(a + 4, f))
  <2>1. \A m, k \in Int : m % 4 = 0 => (m + 4 * k) % 4 = 0
    BY SMT
  <2>2. ((a - CodeOffset) + 4 * (1 + f.imm32)) % 4 = 0
    BY <1>1, <1>2, <2>1
  <2>3. calc_branchAddr(a + 4, f) - CodeOffset = (a - CodeOffset) + 4 * (1 + f.imm32)
    BY <1>1, <1>2, SMT DEF calc_branchAddr
  <2>4. calc_branchAddr(a + 4, f) \in Int
    BY <1>1, <1>2, SMT DEF calc_branchAddr
  <2> QED
    BY <2>2, <2>3, <2>4 DEF Aligned
<1>5. Aligned(calc_jumpAddr(a + 4, f))
  <2> DEFINE upper == (a + 4) - ((a + 4) % 268435456)
  <2>1. upper \in Int /\ upper % 4 = 0
    BY <1>1, SMT
  <2>2. calc_jumpAddr(a + 4, f) = upper + f.address * 4
    BY DEF calc_jumpAddr
  <2> HIDE DEF upper
  <2> QED
    BY <1>1, <1>2, <2>1, <2>2, SMT DEF Aligned
<1> QED
  BY <1>3, <1>4, <1>5 DEF NextAddress

\* The address IF fetches next is a static successor.
LEMMA NextIsSuccessor ==
  ASSUME NEW a, Aligned(a), Index(a) \in DOMAIN instMemory, NEW r,
         Index(NextAddress(a, At(a), r)) \in DOMAIN instMemory
  PROVE  Index(NextAddress(a, At(a), r)) \in Successors(instMemory, Index(a))
<1> DEFINE f == At(a)
           b == NextAddress(a, f, r)
           next == IF f.opcode = 2 THEN {calc_jumpAddr(a + 4, f)}
                   ELSE {a + 4} \cup
                        (IF f.opcode \in {4, 5} THEN {calc_branchAddr(a + 4, f)} ELSE {})
<1>1. CodeOffset + 4 * (Index(a) - 1) = a
  BY OffsetAssumption, SMT DEF Aligned, Index
<1>2. Successors(instMemory, Index(a)) = {Index(c) : c \in next} \cap DOMAIN instMemory
  BY <1>1, Zenon DEF Successors, At
<1>3. b \in next
  BY Zenon DEF NextAddress
<1> HIDE DEF f, next, b
<1>4. Index(b) \in DOMAIN instMemory
  BY DEF b, f
<1> QED
  BY <1>2, <1>3, <1>4 DEF b, f

\* What ID tells IF: execute_ID() has the instruction at pc.
LEMMA FetchesNext ==
  ASSUME TypeOK, IssueClock
  PROVE  /\ pc' = NextAddress(pc, Fields, RegsID)
         /\ Fields = At(pc) /\ Fields \in InstructionFields
         /\ Index(pc) \in DOMAIN instMemory /\ instMemory[Index(pc)] # SYSCALL
         /\ Recognized(Fields) /\ status = "running"
<1>1. /\ Fields = At(pc) /\ Index(pc) \in DOMAIN instMemory
      /\ instMemory[Index(pc)] # SYSCALL /\ status = "running"
  BY DEF IssueClock, OnInstruction, InProgram, Instruction, Fields, At, FieldsAt
<1>2. Fields \in InstructionFields
  BY OnInstructionType DEF IssueClock
<1>3. Recognized(Fields)
  BY SMT DEF IssueClock, IDReturn, Flag
<1>4. pc' = NextAddress(pc, Fields, RegsID)
  <2> DEFINE a == RegsID[Fields.rs]
             b == RegsID[Fields.rt]
             control == IDtoIF_get_branchControl(Fields, a, b)
  <2>1. pc' = CASE control = 0 -> pc + 4
                [] control = 1 -> calc_branchAddr(pc + 4, Fields)
                [] control = 2 -> calc_jumpAddr(pc + 4, Fields)
    BY DEF IssueClock
  <2>2. /\ Fields.opcode = 2 => control = 2
        /\ Fields.opcode = 4 => control = IF a = b THEN 1 ELSE 0
        /\ Fields.opcode = 5 => control = IF a # b THEN 1 ELSE 0
        /\ Fields.opcode \notin {2, 4, 5} => control = 0
    BY SMT DEF IDtoIF_get_branchControl
  <2>3. NextAddress(pc, Fields, RegsID) =
          IF Fields.opcode = 2 THEN calc_jumpAddr(pc + 4, Fields)
          ELSE IF Fields.opcode \in {4, 5} /\ (Fields.opcode = 4 <=> a = b)
          THEN calc_branchAddr(pc + 4, Fields)
          ELSE pc + 4
    BY DEF NextAddress
  <2> HIDE DEF a, b, control
  <2> QED
    BY <2>1, <2>2, <2>3, SMT
<1> QED
  BY <1>1, <1>2, <1>3, <1>4

-----------------------------------------------------------------------------
(* The steps of the pipeline with history. *)

\* What every clock does.
LEMMA ClockMoves ==
  ASSUME BackEnd
  PROVE  /\ regs' = RegsID /\ instMemory' = instMemory /\ AccessInMemory
         /\ exmem'.regWrite = idex.regWrite /\ exmem'.writeReg = Destination(idex)
         /\ exmem'.memToReg = idex.memToReg /\ exmem'.memRead = idex.memRead
         /\ memwb' = execute_MEM(exmem, dataMemory)
         /\ memwb'.regWrite = exmem.regWrite /\ memwb'.writeReg = exmem.writeReg
         /\ memwb'.memToReg = exmem.memToReg /\ memwb'.aluResult = exmem.aluResult
BY SMT DEF BackEnd, execute_EX, FillEX_MEM, execute_MEM

Unclocked == /\ UNCHANGED <<instMemory, regs, dataMemory, pc, idex, exmem, memwb, tags>>
             /\ status' = status \/ status' = "fault"

\* A clock issues an instruction, or makes a bubble and issues none, and
\* then goes on or has stopped.
BubbleClock ==
  /\ BackEnd /\ Enter(NoInstruction) /\ Idle(idex') /\ pc' = pc
  /\ status \in {"running", status'}
  /\ status' \in {"running", "exit", "error", "wild"}

LEMMA ClockCases ==
  ASSUME HIssue \/ HStall \/ HError \/ HEnd \/ HDrain
  PROVE  (IssueClock /\ Enter(pc)) \/ BubbleClock
<1>1. CASE HIssue
  BY <1>1 DEF HIssue
<1>2. CASE HStall
  BY <1>2, BubbleIsIdle DEF HStall, StallClock, execute_ID, OnInstruction, BubbleClock
<1>3. CASE HError
  BY <1>3, UnrecognizedIsIdle
     DEF HError, ErrorClock, execute_ID, IDReturn, Flag, OnInstruction, BubbleClock
<1>4. CASE HEnd
  BY <1>4, BubbleIsIdle DEF HEnd, EndClock, BubbleClock
<1>5. CASE HDrain
  BY <1>5, BubbleIsIdle DEF HDrain, DrainClock, BubbleClock
<1> QED
  BY <1>1, <1>2, <1>3, <1>4, <1>5

LEMMA StepCases ==
  ASSUME [HNext]_hvars
  PROVE  (IssueClock /\ Enter(pc)) \/ BubbleClock \/ Unclocked
<1>1. CASE HFault \/ HTerminated \/ UNCHANGED hvars
  BY <1>1 DEF HFault, HTerminated, MemoryFault, Terminated, hvars, vars, tags, Unclocked
<1> QED
  BY <1>1, ClockCases DEF HNext

LEMMA StepProgram == [HNext]_hvars => instMemory' = instMemory
BY StepCases, ClockMoves DEF IssueClock, BubbleClock, Unclocked

LEMMA StepTags ==
  ASSUME CodeOffset % 4 = 0, TypeOK, TagsValid, [HNext]_hvars
  PROVE  TagsValid'
<1>0. instMemory' = instMemory
  BY StepProgram
<1>1. \A tag, old : tag' = old /\ Tagged(old) => Tagged(tag)'
  BY <1>0 DEF Tagged, Aligned, At, FieldsAt, Index
<1>2. CASE IssueClock /\ Enter(pc)
  <2>1. Tagged(pc)
    BY <1>2, FetchesNext DEF Tagged, TagsValid
  <2>2. Aligned(pc')
    BY <1>2, FetchesNext, NextAddressAligned DEF TagsValid
  <2> QED
    BY <1>0, <1>2, <2>1, <2>2 DEF Enter, TagsValid, Tagged, Aligned, At, FieldsAt, Index
<1>3. CASE BubbleClock
  BY <1>0, <1>3 DEF BubbleClock, Enter, TagsValid, Tagged, Aligned, At, FieldsAt, Index
<1>4. CASE Unclocked
  BY <1>0, <1>4 DEF Unclocked, tags, TagsValid, Tagged, Aligned, At, FieldsAt, Index
<1> QED
  BY <1>2, <1>3, <1>4, StepCases

LEMMA StepOrder ==
  ASSUME CodeOffset % 4 = 0, TypeOK, TagsValid, InProgramOrder, [HNext]_hvars
  PROVE  InProgramOrder'
<1>0. instMemory' = instMemory
  BY StepProgram
<1>2. CASE IssueClock /\ Enter(pc)
  <2>1. Index(pc)' \in DOMAIN instMemory =>
          Index(pc)' \in Successors(instMemory, Index(pc))
    <3>1. pc' = NextAddress(pc, At(pc), RegsID) /\ Index(pc) \in DOMAIN instMemory
      BY <1>2, FetchesNext
    <3>2. Index(pc)' = Index(pc')
      BY DEF Index
    <3> QED
      BY <3>1, <3>2, NextIsSuccessor DEF TagsValid
  <2>2. idexPc' = pc /\ exmemPc' = idexPc /\ status = "running" /\ InProgram /\ idexPc' # NoInstruction
    BY <1>2, NoInstructionAssumption DEF Enter, IssueClock, OnInstruction, TypeOK
  <2> QED
    BY <1>0, <2>1, <2>2 DEF InProgramOrder, InProgram, Index, Successors, FieldsAt
<1>3. CASE BubbleClock
  BY <1>0, <1>3 DEF BubbleClock, Enter, InProgramOrder, InProgram, Index, Successors, FieldsAt
<1>4. CASE Unclocked
  BY <1>0, <1>4 DEF Unclocked, tags, InProgramOrder, InProgram, Index, Successors, FieldsAt
<1> QED
  BY <1>2, <1>3, <1>4, StepCases

LEMMA IssuesDecoded ==
  ASSUME IssueClock
  PROVE  /\ idex' = Decoded(Fields, RegsID[Fields.rs], RegsID[Fields.rt])
         /\ BackEnd
         /\ IsWriter' => /\ Fields.opcode \notin {2, 4, 5}
                         /\ Fields.opcode = StoreWord \/ RWriter(Fields) \/ IWriter(Fields)
<1>1. idex' = Decoded(Fields, RegsID[Fields.rs], RegsID[Fields.rt]) /\ BackEnd
  BY DEF IssueClock, execute_ID
<1>2. /\ idex'.regWrite = 1 => RWriter(Fields) \/ IWriter(Fields)
      /\ idex'.memWrite = 1 => Fields.opcode = StoreWord
  BY <1>1, DecodedWriter
<1>3. IsWriter' => Fields.opcode = StoreWord \/ RWriter(Fields) \/ IWriter(Fields)
  BY <1>2 DEF IsWriter
<1>4. Fields.opcode = StoreWord \/ RWriter(Fields) \/ IWriter(Fields) => Fields.opcode \notin {2, 4, 5}
  BY SMT DEF StoreWord, RWriter, IWriter, LoadWord, Immediates
<1> QED
  BY <1>1, <1>3, <1>4

LEMMA StepReadInID ==
  ASSUME ReadInID, [HNext]_hvars
  PROVE  ReadInID'
<1>1. CASE IssueClock /\ Enter(pc)
  <2> SUFFICES ASSUME IsWriter'
               PROVE  idex'.rsVal = regs'[idex'.rs] /\ idex'.rtVal = regs'[idex'.rt]
    BY DEF ReadInID
  <2>1. Fields.opcode \notin {2, 4, 5} /\ BackEnd
        /\ idex' = Decoded(Fields, RegsID[Fields.rs], RegsID[Fields.rt])
    BY <1>1, IssuesDecoded
  <2>2. /\ idex'.rs = Fields.rs /\ idex'.rt = Fields.rt
        /\ idex'.rsVal = RegsID[Fields.rs] /\ idex'.rtVal = RegsID[Fields.rt]
    BY <2>1, DecodedFields
  <2> QED
    BY <2>1, <2>2, ClockMoves
<1>2. CASE BubbleClock
  BY <1>2 DEF BubbleClock, Idle, ReadInID, IsWriter
<1>3. CASE Unclocked
  BY <1>3 DEF Unclocked, ReadInID, IsWriter
<1> QED
  BY <1>1, <1>2, <1>3, StepCases

\* What goes through EX on its way to register 0 is NOP: the shift of
\* register 0 by 0.
LEMMA ZeroThroughEX ==
  ASSUME TypeOK, LatchesMatchProgram, NoZeroWrites(instMemory), ReadInID,
         idex.regWrite = 1, Destination(idex) = 0,
         NEW a, NEW b, NEW out \in execute_EX(idex, a, b)
  PROVE  out.aluResult = regs[0] /\ idex.memToReg = 0
<1> DEFINE f == At(idexPc)
<1>1. /\ Index(idexPc) \in DOMAIN instMemory
      /\ idex = Decoded(f, idex.rsVal, idex.rtVal)
      /\ f = extract_instructionFields(instMemory[Index(idexPc)])
  BY InEX DEF At, FieldsAt
<1>2. /\ RWriter(f) \/ IWriter(f)
      /\ Destination(idex) = Writes(f)
  BY <1>1, DecodedWriter
<1>3. instMemory[Index(idexPc)] = NOP
  <2>1. instMemory[Index(idexPc)] # NOP =>
          /\ RWriter(f) => f.rd # 0
          /\ IWriter(f) => f.rt # 0
    BY <1>1 DEF NoZeroWrites, RWriter, IWriter, At
  <2>2. Writes(f) = IF RWriter(f) THEN f.rd ELSE IF IWriter(f) THEN f.rt ELSE 0
    BY DEF Writes, RWriter, IWriter
  <2> QED
    BY <1>2, <2>1, <2>2
<1>4. /\ f.opcode = (0 \div 67108864) % 64 /\ f.funct = 0 % 64
      /\ f.rt = (0 \div 65536) % 32 /\ f.imm16 = 0 % 65536
  BY <1>1, <1>3, SMT DEF extract_instructionFields, NOP
<1> HIDE DEF f
<1>5. f.opcode = 0 /\ f.funct = 0 /\ f.rt = 0 /\ f.imm16 = 0
  BY <1>4, SMT
<1>6. /\ idex.rt = f.rt /\ idex.op = ALUop(f) /\ idex.imm16 = f.imm16
      /\ idex.memToReg = IF f.opcode = LoadWord THEN 1 ELSE 0
  BY <1>1, <1>5, DecodedFields
<1>7. idex.rt = 0 /\ idex.op = 5 /\ idex.imm16 = 0 /\ idex.memToReg = 0
  BY <1>5, <1>6, SMT DEF ALUop, LoadWord
<1>8. idex.rtVal \in WORD
  BY SMT DEF TypeOK, ID_EX
<1>9. ALUresults(idex, a, b) = {idex.rtVal}
  BY <1>7, <1>8, ShiftByZero, SMT DEF ALUresults, Shifted
<1>10. out.aluResult \in ALUresults(idex, a, b)
  BY SMT DEF execute_EX, FillEX_MEM
<1>11. idex.rtVal = regs[0]
  BY <1>7 DEF ReadInID, IsWriter
<1> QED
  BY <1>7, <1>9, <1>10, <1>11

LEMMA WBLeavesZero ==
  ASSUME TypeOK
  PROVE  RegsID[0] = regs[0]
<1>1. 0 \in RegNumber
  BY SMT DEF RegNumber
<1> QED
  BY <1>1, WBWrites DEF TypeOK, RegsID

LEMMA StepZeroWrites ==
  ASSUME TypeOK, LatchesMatchProgram, NoZeroWrites(instMemory), ReadInID,
         ZeroWritesHarmless, [HNext]_hvars
  PROVE  ZeroWritesHarmless'
<1>1. CASE BackEnd
  <2>1. regs'[0] = regs[0]
    BY <1>1, ClockMoves, WBLeavesZero
  <2>2. exmem'.regWrite = 1 /\ exmem'.writeReg = 0 =>
          exmem'.aluResult = regs[0] /\ exmem'.memToReg = 0
    BY <1>1, ClockMoves, ZeroThroughEX DEF BackEnd
  <2>3. memwb'.regWrite = 1 /\ memwb'.writeReg = 0 => WBValue(memwb') = regs[0]
    BY <1>1, ClockMoves, SMT DEF ZeroWritesHarmless, WBValue
  <2> QED
    BY <2>1, <2>2, <2>3 DEF ZeroWritesHarmless, WBValue
<1>2. CASE Unclocked
  BY <1>2 DEF Unclocked, ZeroWritesHarmless, WBValue
<1> QED
  BY <1>1, <1>2, StepCases DEF IssueClock, BubbleClock

\* What IDtoIF_get_stall() has seen when it lets an instruction go on.
LEMMA NotStalled ==
  ASSUME TypeOK, LatchesMatchProgram, ~ MustStall
  PROVE  /\ idexPc # NoInstruction /\ At(idexPc).opcode = LoadWord /\ Fields.opcode # StoreWord =>
              ~ Reads(Fields, Destination(idex))
         /\ exmemPc # NoInstruction /\ At(exmemPc).opcode = LoadWord /\ Fields.opcode # StoreWord =>
              exmem.writeReg = 0 \/ ~ Reads(Fields, exmem.writeReg)
<1>1. ~ LoadUseStall(Fields, idex) /\ ~ ExMemStall(Fields, idex, exmem)
  BY DEF MustStall, IDtoIF_get_stall
<1>2. idexPc # NoInstruction /\ At(idexPc).opcode = LoadWord =>
        idex.memRead = 1 /\ idex.regWrite = 1
  BY InEX, DecodedWriter
<1>3. exmemPc # NoInstruction /\ At(exmemPc).opcode = LoadWord =>
        exmem.memRead = 1 /\ exmem.regWrite = 1
  BY InMEM, DecodedWriter
<1> QED
  BY <1>1, <1>2, <1>3 DEF LoadUseStall, ExMemStall

\* An instruction that uses an input of the ALU reads the register, and
\* IDtoIF_get_stall() knows.
LEMMA UsedIsRead ==
  ASSUME NEW f, NEW a, NEW b, NEW d, d = Decoded(f, a, b),
         f.opcode = StoreWord \/ RWriter(f) \/ IWriter(f), d.op \in 0 .. 4 \cup {6}
  PROVE  /\ f.opcode \notin {2, 4, 5} /\ d.rs = f.rs /\ d.rt = f.rt
         /\ ReadsRs(f)
         /\ d.ALUsrc = 0 => f.opcode # StoreWord /\ ReadsRt(f)
<1>1. f.opcode \notin {2, 4, 5}
  BY SMT DEF StoreWord, RWriter, IWriter, LoadWord, Immediates
<1>2. /\ d.rs = f.rs /\ d.rt = f.rt /\ d.op = ALUop(f)
      /\ d.ALUsrc = IF f.opcode \in {8, 9, 10, LoadWord, StoreWord} THEN 1
                    ELSE IF f.opcode \in {12, 13, 15} THEN 2 ELSE 0
  BY <1>1, DecodedFields
<1>3. f.opcode \in {0, 8, 9, 10, 12, 13, 15, 35, 43}
  BY SMT DEF StoreWord, RWriter, IWriter, LoadWord, Immediates
<1>4. f.opcode # 15
  BY <1>2, SMT DEF ALUop
<1>5. ReadsRs(f)
  BY <1>3, <1>4, SMT DEF ReadsRs, LoadWord, StoreWord
<1>6. d.ALUsrc = 0 => f.opcode = 0
  BY <1>2, <1>3, SMT DEF LoadWord, StoreWord
<1> QED
  BY <1>1, <1>2, <1>5, <1>6, SMT DEF ReadsRt, StoreWord

LEMMA StepLoads ==
  ASSUME TypeOK, LatchesMatchProgram, NoLoadedStoreBase(instMemory), InProgramOrder,
         LoadsSettled, [HNext]_hvars
  PROVE  LoadsSettled'
<1>1. CASE IssueClock /\ Enter(pc)
  <2> SUFFICES ASSUME exmem'.memRead = 1, IsWriter'
               PROVE  /\ UsesInput1' => idex'.rs # exmem'.writeReg
                      /\ UsesInput2' => idex'.rt # exmem'.writeReg
    BY DEF LoadsSettled
  <2> DEFINE f == At(idexPc)
  <2>1. idex.memRead = 1 /\ exmem'.writeReg = Destination(idex)
    BY <1>1, ClockMoves DEF IssueClock
  <2>2. /\ idex' = Decoded(Fields, RegsID[Fields.rs], RegsID[Fields.rt])
        /\ Fields.opcode = StoreWord \/ RWriter(Fields) \/ IWriter(Fields)
    BY <1>1, IssuesDecoded
  <2>3. idexPc # NoInstruction /\ f.opcode = LoadWord /\ Destination(idex) = f.rt
    BY <2>1, InEX, DecodedWriter
  <2>4. ASSUME UsesInput1'
        PROVE  idex'.rs # Destination(idex) /\ (UsesInput2' => idex'.rt # Destination(idex))
    <3>1. idex'.op \in 0 .. 4 \cup {6} /\ (UsesInput2' => idex'.ALUsrc = 0)
      BY <2>4 DEF UsesInput1, UsesInput2
    <3>2. /\ idex'.rs = Fields.rs /\ idex'.rt = Fields.rt
          /\ ReadsRs(Fields)
          /\ idex'.ALUsrc = 0 => Fields.opcode # StoreWord /\ ReadsRt(Fields)
      BY <2>2, <3>1, UsedIsRead
    <3>3. CASE Fields.opcode # StoreWord
      <4>1. ~ Reads(Fields, Destination(idex))
        BY <1>1, <2>3, <3>3, NotStalled DEF IssueClock
      <4> QED
        BY <3>1, <3>2, <4>1 DEF Reads
    <3>4. CASE Fields.opcode = StoreWord
      <4>1. Index(pc) \in Successors(instMemory, Index(idexPc)) /\ Fields = At(pc)
        BY <1>1, <2>3, FetchesNext DEF IssueClock, OnInstruction, InProgramOrder
      <4>2. Index(idexPc) \in DOMAIN instMemory
        BY <2>3, InEX
      <4>3. Fields.rs # f.rt
        BY <2>3, <3>4, <4>1, <4>2 DEF NoLoadedStoreBase, At
      <4> QED
        BY <2>3, <3>1, <3>2, <3>4, <4>3
    <3> QED
      BY <3>3, <3>4
  <2> QED
    BY <2>1, <2>4 DEF UsesInput2
<1>2. CASE BubbleClock
  BY <1>2 DEF BubbleClock, Idle, LoadsSettled, IsWriter
<1>3. CASE Unclocked
  BY <1>3 DEF Unclocked, tags, LoadsSettled, IsWriter, UsesInput1, UsesInput2
<1> QED
  BY <1>1, <1>2, <1>3, StepCases

LEMMA StepOperandsInv ==
  ASSUME CodeOffset % 4 = 0, OperandsInv, [HNext]_hvars
  PROVE  OperandsInv'
<1>1. TypeOK'
  BY StepType, HStepIsStep DEF OperandsInv
<1>2. LatchesMatchProgram'
  BY StepMatches DEF OperandsInv
<1>3. HazardFree(instMemory')
  BY StepProgram DEF OperandsInv
<1>4. TagsValid' /\ InProgramOrder'
  BY StepTags, StepOrder DEF OperandsInv
<1>5. ReadInID' /\ ZeroWritesHarmless' /\ LoadsSettled'
  BY StepReadInID, StepZeroWrites, StepLoads DEF OperandsInv, HazardFree
<1> QED
  BY <1>1, <1>2, <1>3, <1>4, <1>5 DEF OperandsInv

LEMMA InitOperandsInv ==
  ASSUME CodeOffset % 4 = 0, \A p \in Programs : HazardFree(p), HInit
  PROVE  OperandsInv
<1>1. TypeOK /\ HazardFree(instMemory)
  BY InitType DEF HInit, Init
<1>2. LatchesMatchProgram
  BY DEF HInit, Init, LatchesMatchProgram, Bubble, EmptyEX_MEM, EmptyMEM_WB
<1>3. (CodeOffset - CodeOffset) % 4 = 0
  BY OffsetAssumption, SMT
<1>4. TagsValid /\ InProgramOrder
  BY <1>3, OffsetAssumption DEF HInit, Init, TagsValid, InProgramOrder, Aligned
<1>5. exmem.regWrite = 0 /\ exmem.memRead = 0 /\ memwb.regWrite = 0 /\ Idle(idex)
  BY BubbleIsIdle, SMT DEF HInit, Init, EmptyEX_MEM, EmptyMEM_WB
<1>6. ReadInID /\ ZeroWritesHarmless /\ LoadsSettled
  BY <1>5, SMT DEF Idle, IsWriter, ReadInID, ZeroWritesHarmless, LoadsSettled
<1> QED
  BY <1>1, <1>2, <1>4, <1>6 DEF OperandsInv

-----------------------------------------------------------------------------
(* The operands of EX. *)

\* What MEM leaves in MEM/WB is a latch.
LEMMA MEMType ==
  ASSUME TypeOK, AccessInMemory
  PROVE  execute_MEM(exmem, dataMemory) \in MEM_WB /\ RegsID \in [Registers -> WORD]
<1>1. exmem.memRead = 1 => dataMemory[MemIndex(exmem.aluResult)] \in WORD
  BY DEF TypeOK, AccessInMemory
<1>2. execute_MEM(exmem, dataMemory) \in MEM_WB
  BY <1>1, ConstantType, SMT DEF TypeOK, execute_MEM, EX_MEM, MEM_WB
<1> QED
  BY <1>2, ExecuteWBType DEF TypeOK, RegsID

\* A register read in ID, and neither loaded by the instruction in MEM, is
\* forwarded right.
LEMMA OperandForwarded ==
  ASSUME TypeOK, LatchesMatchProgram, ZeroWritesHarmless, AccessInMemory,
         NEW n \in RegNumber, NEW val, val = regs[n],
         exmem.memRead = 1 => n # exmem.writeReg
  PROVE  Forwarded(n, val, exmem, memwb) = RegsAfterMEM[n]
<1> DEFINE out == execute_MEM(exmem, dataMemory)
<1>1. out \in MEM_WB /\ RegsID \in [Registers -> WORD]
  BY MEMType
<1>2. out.regWrite = exmem.regWrite /\ out.writeReg = exmem.writeReg
      /\ out.memToReg = exmem.memToReg /\ out.aluResult = exmem.aluResult
  BY SMT DEF execute_MEM
<1>3. RegsAfterMEM = execute_WB(out, RegsID)
  BY DEF RegsAfterMEM
<1> HIDE DEF out
<1>4. RegsAfterMEM[n] = IF out.regWrite = 1 /\ out.writeReg = n /\ n # 0
                        THEN WBValue(out) ELSE RegsID[n]
  BY <1>1, <1>3, WBWrites
<1>5. RegsID[n] = IF memwb.regWrite = 1 /\ memwb.writeReg = n /\ n # 0
                  THEN WBValue(memwb) ELSE regs[n]
  BY WBWrites DEF TypeOK, RegsID
<1>6. CASE exmem.regWrite = 1 /\ exmem.writeReg = n
  <2>1. exmem.memToReg # 1
    <3> SUFFICES ASSUME exmem.memToReg = 1 PROVE FALSE
      OBVIOUS
    <3>1. exmemPc # NoInstruction
      BY <1>6, InMEM
    <3>2. exmem.memRead = 1
      BY <3>1, InMEM, DecodedWriter
    <3> QED
      BY <1>6, <3>2
  <2>2. WBValue(out) = exmem.aluResult
    BY <1>2, <2>1 DEF WBValue
  <2>3. Forwarded(n, val, exmem, memwb) = exmem.aluResult
    BY <1>6 DEF Forwarded
  <2>4. n = 0 => exmem.aluResult = RegsID[n]
    BY <1>6, WBLeavesZero DEF ZeroWritesHarmless
  <2> QED
    BY <1>2, <1>4, <1>6, <2>2, <2>3, <2>4
<1>7. CASE ~ (exmem.regWrite = 1 /\ exmem.writeReg = n)
  BY <1>2, <1>4, <1>5, <1>7 DEF Forwarded, ZeroWritesHarmless
<1> QED
  BY <1>6, <1>7

LEMMA InvGivesOperands == OperandsInv => OperandsCurrent
<1> SUFFICES ASSUME OperandsInv, AccessInMemory, IsWriter, UsesInput1
             PROVE  /\ EX_getALUinput1(idex, exmem, memwb) = RegsAfterMEM[idex.rs]
                    /\ UsesInput2 => EX_getALUinput2(idex, exmem, memwb) = RegsAfterMEM[idex.rt]
  BY DEF OperandsCurrent, UsesInput2
<1>1. TypeOK /\ LatchesMatchProgram /\ ZeroWritesHarmless
  BY DEF OperandsInv
<1>2. idex.rs \in RegNumber /\ idex.rt \in RegNumber
  BY <1>1, SMT DEF TypeOK, ID_EX
<1>3. idex.rsVal = regs[idex.rs] /\ idex.rtVal = regs[idex.rt]
  BY DEF OperandsInv, ReadInID
<1>4. exmem.memRead = 1 => idex.rs # exmem.writeReg /\ (UsesInput2 => idex.rt # exmem.writeReg)
  BY DEF OperandsInv, LoadsSettled
<1>5. EX_getALUinput1(idex, exmem, memwb) = RegsAfterMEM[idex.rs]
  BY <1>1, <1>2, <1>3, <1>4, OperandForwarded DEF EX_getALUinput1
<1>6. UsesInput2 =>
        EX_getALUinput2(idex, exmem, memwb) = Forwarded(idex.rt, idex.rtVal, exmem, memwb)
  BY SMT DEF EX_getALUinput2, UsesInput2
<1> QED
  BY <1>1, <1>2, <1>3, <1>4, <1>5, <1>6, OperandForwarded

\* Whatever mixture of the register file, EX/MEM and MEM/WB holds them, EX
\* computes every result and every address with the values the instructions
\* before it leave: EX_getALUinput1() and EX_getALUinput2() forward the
\* youngest writer, and the load-use stall covers what they cannot forward.
THEOREM OperandsCorrect ==
  ASSUME CodeOffset % 4 = 0, \A p \in Programs : HazardFree(p)
  PROVE  HSpec => []OperandsCurrent
<1>1. HInit => OperandsInv
  BY InitOperandsInv
<1>2. OperandsInv /\ [HNext]_hvars => OperandsInv'
  BY StepOperandsInv
<1>3. OperandsInv => OperandsCurrent
  BY InvGivesOperands
<1> QED
  BY <1>1, <1>2, <1>3, PTL DEF HSpec

-----------------------------------------------------------------------------
(* The operands of a branch. *)

\* When a branch is decided in ID, neither EX nor MEM holds an instruction
\* that writes a register it compares.
LEMMA DecidingSettled ==
  ASSUME OperandsInv, OnInstruction, ~ MustStall, Fields.opcode \in {4, 5},
         NEW r \in {Fields.rs, Fields.rt} \ {0}
  PROVE  /\ ~ (idex.regWrite = 1 /\ Destination(idex) = r)
         /\ ~ (exmem.regWrite = 1 /\ exmem.writeReg = r)
<1>0. /\ TypeOK /\ LatchesMatchProgram /\ InProgramOrder /\ SettledBranches(instMemory)
      /\ status = "running" /\ InProgram
  BY DEF OperandsInv, HazardFree, OnInstruction
<1>1. Reads(Fields, r) /\ Fields.opcode # StoreWord
  BY SMT DEF Reads, ReadsRs, ReadsRt, StoreWord
<1>2. Fields = FieldsAt(instMemory, Index(pc))
  BY DEF Fields, FieldsAt, Instruction
<1> DEFINE Disturbs(i, k) ==
             LET f == FieldsAt(instMemory, i)
                 b == FieldsAt(instMemory, k)
             IN  /\ b.opcode \in {4, 5}
                 /\ f.opcode # LoadWord
                 /\ Writes(f) \in {b.rs, b.rt} \ {0}
<1>3. \A i \in DOMAIN instMemory : \A j \in Successors(instMemory, i) :
        ~ Disturbs(i, j) /\ \A k \in Successors(instMemory, j) : ~ Disturbs(i, k)
  BY <1>0, Zenon DEF SettledBranches
<1>4. ASSUME idex.regWrite = 1, Destination(idex) = r
      PROVE  FALSE
  <2>1. /\ idexPc # NoInstruction /\ Index(idexPc) \in DOMAIN instMemory
        /\ Writes(At(idexPc)) = r
    BY <1>0, <1>4, InEX, DecodedWriter
  <2>2. At(idexPc).opcode # LoadWord
    BY <1>0, <1>1, <1>4, <2>1, NotStalled
  <2>3. Index(pc) \in Successors(instMemory, Index(idexPc))
    BY <1>0, <2>1 DEF InProgramOrder
  <2> QED
    BY <1>2, <1>3, <2>1, <2>2, <2>3 DEF At
<1>5. ASSUME exmem.regWrite = 1, exmem.writeReg = r
      PROVE  FALSE
  <2>1. /\ exmemPc # NoInstruction /\ Index(exmemPc) \in DOMAIN instMemory
        /\ Writes(At(exmemPc)) = r
    BY <1>0, <1>5, InMEM, DecodedWriter
  <2>2. At(exmemPc).opcode # LoadWord
    BY <1>0, <1>1, <1>5, <2>1, NotStalled
  <2>3. \/ Index(pc) \in Successors(instMemory, Index(exmemPc))
        \/ \E j \in Successors(instMemory, Index(exmemPc)) :
             Index(pc) \in Successors(instMemory, j)
    BY <1>0, <2>1 DEF InProgramOrder
  <2> QED
    BY <1>2, <1>3, <2>1, <2>2, <2>3 DEF At
<1> QED
  BY <1>4, <1>5

LEMMA InvGivesBranchOperands == OperandsInv => BranchOperandsCurrent
<1> SUFFICES ASSUME OperandsInv, OnInstruction, ~ MustStall, Fields.opcode \in {4, 5},
                    AccessInMemory, idex.memRead = 0,
                    NEW out \in execute_EX(idex, EX_getALUinput1(idex, exmem, memwb),
                                                 EX_getALUinput2(idex, exmem, memwb)),
                    NEW r \in {Fields.rs, Fields.rt}
             PROVE  RegsID[r] = execute_WB(execute_MEM(out, dataMemory), RegsAfterMEM)[r]
  BY Zenon DEF BranchOperandsCurrent
<1> DEFINE last == execute_MEM(out, dataMemory)
           mid == execute_MEM(exmem, dataMemory)
<1>1. TypeOK
  BY DEF OperandsInv
<1>2. r \in RegNumber
  BY <1>1, OnInstructionType, SMT DEF InstructionFields
<1>3. mid \in MEM_WB /\ RegsID \in [Registers -> WORD] /\ RegsAfterMEM \in [Registers -> WORD]
  BY <1>1, MEMType, ExecuteWBType DEF RegsAfterMEM
<1>4. out \in EX_MEM /\ out.memRead = 0 /\ out.regWrite = idex.regWrite
      /\ out.writeReg = Destination(idex)
  <2>1. out \in EX_MEM
    BY <1>1, InputType, ExecuteEXType DEF TypeOK
  <2>2. out.memRead = 0 /\ out.regWrite = idex.regWrite /\ out.writeReg = Destination(idex)
    BY SMT DEF execute_EX, FillEX_MEM
  <2> QED
    BY <2>1, <2>2
<1>5. last \in MEM_WB /\ last.regWrite = idex.regWrite /\ last.writeReg = Destination(idex)
  BY <1>4, ConstantType, SMT DEF execute_MEM, EX_MEM, MEM_WB
<1>6. mid.regWrite = exmem.regWrite /\ mid.writeReg = exmem.writeReg
  BY SMT DEF execute_MEM
<1>7. RegsAfterMEM = execute_WB(mid, RegsID)
  BY DEF RegsAfterMEM
<1> HIDE DEF last, mid
<1>8. execute_WB(last, RegsAfterMEM)[r] =
        IF last.regWrite = 1 /\ last.writeReg = r /\ r # 0 THEN WBValue(last)
        ELSE RegsAfterMEM[r]
  BY <1>2, <1>3, <1>5, WBWrites
<1>9. RegsAfterMEM[r] = IF mid.regWrite = 1 /\ mid.writeReg = r /\ r # 0 THEN WBValue(mid)
                        ELSE RegsID[r]
  BY <1>2, <1>3, <1>7, WBWrites
<1>10. r # 0 => /\ ~ (idex.regWrite = 1 /\ Destination(idex) = r)
                /\ ~ (exmem.regWrite = 1 /\ exmem.writeReg = r)
  BY DecidingSettled
<1> QED
  BY <1>5, <1>6, <1>8, <1>9, <1>10 DEF last

\* A branch, decided in ID without a forwarding path, compares the values the
\* instructions before it leave: IDtoIF_get_stall() waits for the loads, and
\* the program keeps the other writers two instructions away.
THEOREM BranchOperandsCorrect ==
  ASSUME CodeOffset % 4 = 0, \A p \in Programs : HazardFree(p)
  PROVE  HSpec => []BranchOperandsCurrent
<1>1. HInit => OperandsInv
  BY InitOperandsInv
<1>2. OperandsInv /\ [HNext]_hvars => OperandsInv'
  BY StepOperandsInv
<1>3. OperandsInv => BranchOperandsCurrent
  BY InvGivesBranchOperands
<1> QED
  BY <1>1, <1>2, <1>3, PTL DEF HSpec

-----------------------------------------------------------------------------
(* The pipeline implements MipsISA on hazard-free programs: the instruction *)
(* in MEM takes effect as MipsISA says, and those behind it in EX and ID are *)
(* the ones MipsISA executes next. *)

\* "or on syscall 10": the harness ends on SYSCALL, and MipsISA ends on the
\* exit call, so the SYSCALL the program reaches is to be the exit call.
SystemCallsExit == ISA!OnSystemCall => RegsID[2] = ImmediateWord(10)

-----------------------------------------------------------------------------
(* The inductive invariant. *)

\* Nothing older writes what a branch has compared.
BranchesSettled ==
  idexPc # NoInstruction /\ At(idexPc).opcode \in {4, 5} =>
    \A r \in {At(idexPc).rs, At(idexPc).rt} \ {0} :
      /\ ~ (exmem.regWrite = 1 /\ exmem.writeReg = r)
      /\ ~ (memwb.regWrite = 1 /\ memwb.writeReg = r)

\* EX computed what MipsISA computes.
ResultCurrent ==
  exmemPc # NoInstruction =>
    LET f == At(exmemPc)
        a == RegsID[f.rs]
        b == RegsID[f.rt]
    IN  /\ f.opcode = 0 => exmem.aluResult = ISA!RResult(f, a, b)
        /\ f.opcode \in Immediates => exmem.aluResult = ISA!IResult(f, a)
        /\ f.opcode \in {LoadWord, StoreWord} =>
             exmem.aluResult = Plus(a, ImmediateWord(f.imm32))

\* Each instruction is followed by the one MipsISA goes to.
FollowedRight ==
  /\ idexPc # NoInstruction => pc = NextAddress(idexPc, At(idexPc), regs)
  /\ exmemPc # NoInstruction =>
       (IF idexPc # NoInstruction THEN idexPc ELSE pc)
         = NextAddress(exmemPc, At(exmemPc), RegsID)

\* Why ID has stopped.
StatusMeans ==
  /\ status = "error" => InProgram /\ Instruction # SYSCALL /\ ~ Recognized(Fields)
  /\ status = "exit" => InProgram /\ Instruction = SYSCALL
  /\ status = "wild" => ~ InProgram

RefinementInv ==
  /\ OperandsInv
  /\ StoreInEX
  /\ StoreDataCurrent
  /\ BranchesSettled
  /\ ResultCurrent
  /\ FollowedRight
  /\ StatusMeans

-----------------------------------------------------------------------------
(* MipsISA has its own copies of the operators of Words and Instructions.  *)

LEMMA SameWords ==
  /\ \A a, b : ISA!Plus(a, b) = Plus(a, b)
  /\ \A a, b : ISA!Minus(a, b) = Minus(a, b)
  /\ \A a, b : ISA!BitAnd(a, b) = BitAnd(a, b)
  /\ \A a, b : ISA!BitOr(a, b) = BitOr(a, b)
  /\ \A a, b : ISA!BitXor(a, b) = BitXor(a, b)
  /\ \A a : ISA!BitNot(a) = BitNot(a)
  /\ \A a, n : ISA!ShiftLeft(a, n) = ShiftLeft(a, n)
  /\ \A a, b : ISA!SignedLess(a, b) = SignedLess(a, b)
  /\ \A a : ISA!Value(a) = Value(a)
  /\ \A n : ISA!ImmediateWord(n) = ImmediateWord(n)
  /\ \A n : ISA!DivBy4(n) = DivBy4(n)
  /\ ISA!WORD = WORD /\ ISA!Zero = Zero /\ ISA!One = One
<1>1. ISA!Bits = Bits /\ ISA!SignBit = SignBit
  BY DEF ISA!Bits, Bits, ISA!SignBit, SignBit
<1>2. \A a, b, c : ISA!AddWithCarry(a, b, c) = AddWithCarry(a, b, c)
  BY <1>1, Zenon DEF ISA!AddWithCarry, AddWithCarry, ISA!Carry, Carry
<1>3. \A a : ISA!BitNot(a) = BitNot(a)
  BY <1>1 DEF ISA!BitNot, BitNot
<1>4. /\ \A a, b : ISA!Plus(a, b) = Plus(a, b)
      /\ \A a, b : ISA!Minus(a, b) = Minus(a, b)
  BY <1>2, <1>3, Zenon DEF ISA!Plus, Plus, ISA!Minus, Minus
<1>5. /\ \A a, b : ISA!BitAnd(a, b) = BitAnd(a, b)
      /\ \A a, b : ISA!BitOr(a, b) = BitOr(a, b)
      /\ \A a, b : ISA!BitXor(a, b) = BitXor(a, b)
      /\ \A a, n : ISA!ShiftLeft(a, n) = ShiftLeft(a, n)
  BY <1>1 DEF ISA!BitAnd, BitAnd, ISA!BitOr, BitOr, ISA!BitXor, BitXor,
              ISA!ShiftLeft, ShiftLeft
<1>6. \A a, b : ISA!SignedLess(a, b) = SignedLess(a, b)
  BY <1>1, Zenon DEF ISA!SignedLess, SignedLess
<1>7. \A a : ISA!Value(a) = Value(a)
  BY <1>1, Zenon DEF ISA!Value, Value, ISA!Weight, Weight
<1>8. \A n : ISA!ImmediateWord(n) = ImmediateWord(n)
  BY <1>1, Zenon DEF ISA!ImmediateWord, ImmediateWord
<1>9. \A n : ISA!DivBy4(n) = DivBy4(n)
  BY Zenon DEF ISA!DivBy4, DivBy4
<1>10. ISA!WORD = WORD /\ ISA!Zero = Zero /\ ISA!One = One
  BY <1>1 DEF ISA!WORD, WORD, ISA!Zero, Zero, ISA!One, One
<1> QED
  BY <1>3, <1>4, <1>5, <1>6, <1>7, <1>8, <1>9, <1>10

LEMMA SameInstructions ==
  /\ \A n : ISA!extract_instructionFields(n) = extract_instructionFields(n)
  /\ ISA!SYSCALL = SYSCALL
  /\ ISA!RFuncts = RTypeFuncts
<1>1. \A n : ISA!extract_instructionFields(n) = extract_instructionFields(n)
  BY SMT DEF ISA!extract_instructionFields, extract_instructionFields,
             ISA!SignExtend16, SignExtend16
<1>2. ISA!SYSCALL = SYSCALL
  BY SMT DEF ISA!SYSCALL, SYSCALL, ISA!R_FORMAT, R_FORMAT, ISA!R_FORMAT_x, R_FORMAT_x,
             ISA!SignedOpcode, SignedOpcode
<1> QED
  BY <1>1, <1>2 DEF ISA!RFuncts, RTypeFuncts

LEMMA SameRecognized ==
  ASSUME NEW f, f.opcode \in 0 .. 63
  PROVE  ISA!Implemented(f) <=> Recognized(f)
BY SameInstructions, SMT DEF ISA!Implemented, Recognized, Immediates, LoadWord, StoreWord

-----------------------------------------------------------------------------
(* EX computes what MipsISA writes, given the operands. *)

LEMMA ALUComputes ==
  ASSUME NEW f, Recognized(f),
         NEW v, NEW w, NEW d, d = Decoded(f, v, w),
         NEW a, NEW b, NEW x \in ALUresults(d, a, b)
  PROVE  /\ f.opcode = 0 /\ f.funct # 0 => x = ISA!RResult(f, a, b)
         /\ f.opcode \in {8, 9, 10} /\ b = ImmediateWord(f.imm32) => x = ISA!IResult(f, a)
         /\ f.opcode \in {12, 13, 15} /\ b = ImmediateWord(f.imm16) => x = ISA!IResult(f, a)
         /\ f.opcode \in {LoadWord, StoreWord} => x = Plus(a, b)
<1>1. f.opcode \notin {2, 4, 5} =>
        /\ d.op = ALUop(f)
        /\ d.bNegate = IF (RWriter(f) /\ f.funct \in {34, 35, 42}) \/ f.opcode = 10
                       THEN 1 ELSE 0
  BY DecodedFields
<1>2. CASE f.opcode = 0 /\ f.funct # 0
  <2>1. f.funct \in 32 .. 39 \cup {42} /\ RWriter(f) /\ f.opcode \notin {2, 4, 5}
    BY <1>2, SMT DEF Recognized, RTypeFuncts, RWriter, Immediates, LoadWord, StoreWord
  <2>2. f.funct \in {32, 33} => x = Plus(a, b)
    BY <1>1, <1>2, <2>1, SMT DEF ALUop, ALUresults
  <2>3. f.funct \in {34, 35} => x = Minus(a, b)
    BY <1>1, <1>2, <2>1, SMT DEF ALUop, ALUresults
  <2>4. f.funct = 36 => x = BitAnd(a, b)
    BY <1>1, <1>2, <2>1, SMT DEF ALUop, ALUresults
  <2>5. f.funct = 37 => x = BitOr(a, b)
    BY <1>1, <1>2, <2>1, SMT DEF ALUop, ALUresults
  <2>6. f.funct = 38 => x = BitXor(a, b)
    BY <1>1, <1>2, <2>1, SMT DEF ALUop, ALUresults
  <2>7. f.funct = 39 => x = BitNot(BitOr(a, b))
    BY <1>1, <1>2, <2>1, SMT DEF ALUop, ALUresults
  <2>8. f.funct = 42 => x = IF SignedLess(a, b) THEN One ELSE Zero
    BY <1>1, <1>2, <2>1, SMT DEF ALUop, ALUresults
  <2>9. x = ISA!RResult(f, a, b)
    BY <2>1, <2>2, <2>3, <2>4, <2>5, <2>6, <2>7, <2>8, SameWords, SMT DEF ISA!RResult
  <2> QED
    BY <1>2, <2>9, SMT DEF LoadWord, StoreWord
<1>3. CASE f.opcode # 0
  <2>1. f.opcode \in {8, 9, LoadWord, StoreWord} => x = Plus(a, b)
    BY <1>1, SMT DEF ALUop, ALUresults, RWriter, LoadWord, StoreWord
  <2>2. f.opcode = 10 => x = IF SignedLess(a, b) THEN One ELSE Zero
    BY <1>1, SMT DEF ALUop, ALUresults
  <2>3. f.opcode = 12 => x = BitAnd(a, b)
    BY <1>1, SMT DEF ALUop, ALUresults, LoadWord, StoreWord
  <2>4. f.opcode = 13 => x = BitOr(a, b)
    BY <1>1, SMT DEF ALUop, ALUresults, LoadWord, StoreWord
  <2>5. f.opcode = 15 => x = ShiftLeft(b, 16)
    BY <1>1, SMT DEF ALUop, ALUresults, LoadWord, StoreWord
  <2>6. f.opcode \in {8, 9, 10} /\ b = ImmediateWord(f.imm32) => x = ISA!IResult(f, a)
    BY <2>1, <2>2, SameWords, SMT DEF ISA!IResult
  <2>7. f.opcode \in {12, 13, 15} /\ b = ImmediateWord(f.imm16) => x = ISA!IResult(f, a)
    BY <2>3, <2>4, <2>5, SameWords, SMT DEF ISA!IResult
  <2> QED
    BY <1>3, <2>1, <2>6, <2>7
<1> QED
  BY <1>2, <1>3, SMT DEF LoadWord, StoreWord

-----------------------------------------------------------------------------
(* The invariant is inductive. *)

LEMMA StepBranches ==
  ASSUME OperandsInv, BranchesSettled, [HNext]_hvars
  PROVE  BranchesSettled'
<1>0. instMemory' = instMemory
  BY StepProgram
<1>1. CASE IssueClock /\ Enter(pc)
  <2>1. Fields = At(pc) /\ idexPc' = pc
    BY <1>1, FetchesNext DEF Enter, OperandsInv
  <2>2. At(pc) = At(idexPc)'
    BY <1>0, <2>1 DEF At, FieldsAt, Index
  <2>3. /\ exmem'.regWrite = idex.regWrite /\ exmem'.writeReg = Destination(idex)
        /\ memwb'.regWrite = exmem.regWrite /\ memwb'.writeReg = exmem.writeReg
    BY <1>1, ClockMoves DEF IssueClock
  <2>4. Fields.opcode \in {4, 5} =>
          \A r \in {Fields.rs, Fields.rt} \ {0} :
            /\ ~ (idex.regWrite = 1 /\ Destination(idex) = r)
            /\ ~ (exmem.regWrite = 1 /\ exmem.writeReg = r)
    BY <1>1, DecidingSettled DEF IssueClock
  <2> QED
    BY <2>1, <2>2, <2>3, <2>4 DEF BranchesSettled
<1>2. CASE BubbleClock
  BY <1>2 DEF BubbleClock, Enter, BranchesSettled
<1>3. CASE Unclocked
  BY <1>0, <1>3 DEF Unclocked, tags, BranchesSettled, At, FieldsAt, Index
<1> QED
  BY <1>1, <1>2, <1>3, StepCases

\* The registers MipsISA sees after a clock.
LEMMA RegsAfterClock ==
  ASSUME BackEnd
  PROVE  RegsID' = RegsAfterMEM
<1>1. RegsID' = execute_WB(memwb', regs')
  BY DEF RegsID, execute_WB, WBValue
<1>2. memwb' = execute_MEM(exmem, dataMemory) /\ regs' = RegsID
  BY DEF BackEnd
<1> QED
  BY <1>1, <1>2 DEF RegsAfterMEM

LEMMA BranchReadsSame ==
  ASSUME OperandsInv, BranchesSettled, AccessInMemory,
         idexPc # NoInstruction
  PROVE  NextAddress(idexPc, At(idexPc), RegsAfterMEM) = NextAddress(idexPc, At(idexPc), regs)
<1> DEFINE f == At(idexPc)
           out == execute_MEM(exmem, dataMemory)
<1>1. CASE f.opcode \in {4, 5}
  <2>1. TypeOK /\ idexPc # NoInstruction
    BY DEF OperandsInv
  <2>2. f \in InstructionFields
    <3>1. instMemory[Index(idexPc)] \in Int
      BY <2>1, InEX DEF OperandsInv, TypeOK
    <3> QED
      BY <3>1, FieldsType DEF At, FieldsAt
  <2>3. out \in MEM_WB /\ RegsID \in [Registers -> WORD]
    BY <2>1, MEMType
  <2>4. out.regWrite = exmem.regWrite /\ out.writeReg = exmem.writeReg
    BY SMT DEF execute_MEM
  <2>5. \A n \in RegNumber : RegsAfterMEM[n] =
          IF out.regWrite = 1 /\ out.writeReg = n /\ n # 0 THEN WBValue(out) ELSE RegsID[n]
    BY <2>3, WBWrites DEF RegsAfterMEM
  <2>6. \A n \in RegNumber : RegsID[n] =
          IF memwb.regWrite = 1 /\ memwb.writeReg = n /\ n # 0 THEN WBValue(memwb) ELSE regs[n]
    BY <2>1, WBWrites DEF RegsID, TypeOK
  <2>7. f.rs \in RegNumber /\ f.rt \in RegNumber
    BY <2>2 DEF InstructionFields
  <2> HIDE DEF f, out
  <2>8. \A n \in {f.rs, f.rt} : RegsAfterMEM[n] = regs[n]
    BY <1>1, <2>4, <2>5, <2>6, <2>7 DEF BranchesSettled, f
  <2> QED
    BY <2>8 DEF NextAddress, f
<1>2. CASE f.opcode \notin {4, 5}
  BY <1>2 DEF NextAddress
<1> QED
  BY <1>1, <1>2

LEMMA StepFollows ==
  ASSUME OperandsInv, BranchesSettled, FollowedRight, [HNext]_hvars
  PROVE  FollowedRight'
<1>0. /\ instMemory' = instMemory /\ TypeOK
      /\ \A tag : At(tag)' = At(tag)
  BY StepProgram DEF OperandsInv, At, FieldsAt, Index
<1>1. ASSUME BackEnd, exmemPc' = idexPc, idexPc # NoInstruction,
             (IF idexPc' # NoInstruction THEN idexPc' ELSE pc') = pc
      PROVE  (IF idexPc' # NoInstruction THEN idexPc' ELSE pc')
               = NextAddress(exmemPc', At(exmemPc)', RegsID')
  <2>1. RegsID' = RegsAfterMEM /\ AccessInMemory
    BY <1>1, RegsAfterClock DEF BackEnd
  <2>2. At(exmemPc)' = At(idexPc)
    BY <1>0, <1>1 DEF At, FieldsAt, Index
  <2>3. pc = NextAddress(idexPc, At(idexPc), regs)
    BY <1>1 DEF FollowedRight
  <2> QED
    BY <1>1, <2>1, <2>2, <2>3, BranchReadsSame
<1>2. CASE IssueClock /\ Enter(pc)
  <2>1. BackEnd /\ idexPc' = pc /\ exmemPc' = idexPc /\ pc # NoInstruction /\ regs' = RegsID
    BY <1>0, <1>2, ClockMoves, NoInstructionAssumption DEF IssueClock, Enter, TypeOK
  <2>2. pc' = NextAddress(idexPc', At(idexPc)', regs')
    <3>1. pc' = NextAddress(pc, At(pc), RegsID)
      BY <1>0, <1>2, FetchesNext
    <3>2. At(idexPc)' = At(pc)
      BY <1>0, <2>1 DEF At, FieldsAt, Index
    <3> QED
      BY <2>1, <3>1, <3>2
  <2> QED
    BY <1>1, <2>1, <2>2 DEF FollowedRight, NextAddress, calc_jumpAddr, calc_branchAddr
<1>3. CASE BubbleClock
  <2>1. BackEnd /\ idexPc' = NoInstruction /\ exmemPc' = idexPc /\ pc' = pc
    BY <1>3 DEF BubbleClock, Enter
  <2> QED
    BY <1>1, <2>1 DEF FollowedRight, NextAddress, calc_jumpAddr, calc_branchAddr
<1>4. CASE Unclocked
  BY <1>0, <1>4 DEF Unclocked, tags, FollowedRight, NextAddress, calc_jumpAddr, calc_branchAddr,
                    At, FieldsAt, Index, RegsID, execute_WB, WBValue
<1> QED
  BY <1>2, <1>3, <1>4, StepCases

\* The instruction in EX and its latch.
LEMMA HeldInEX ==
  ASSUME OperandsInv, idexPc # NoInstruction,
         NEW f, f = At(idexPc), f.opcode \notin {2, 4, 5}
  PROVE  /\ f \in InstructionFields /\ Recognized(f)
         /\ idex = Decoded(f, idex.rsVal, idex.rtVal)
         /\ idex.rs = f.rs /\ idex.rt = f.rt /\ idex.op = ALUop(f) /\ IsWriter
         /\ idex.ALUsrc = IF f.opcode \in {8, 9, 10, LoadWord, StoreWord} THEN 1
                          ELSE IF f.opcode \in {12, 13, 15} THEN 2 ELSE 0
         /\ idex.imm16 = f.imm16 /\ idex.imm32 = f.imm32
<1>1. /\ Index(idexPc) \in DOMAIN instMemory
      /\ idex = Decoded(f, idex.rsVal, idex.rtVal)
  BY InEX DEF OperandsInv
<1>2. f \in InstructionFields
  <2>1. instMemory[Index(idexPc)] \in Int
    BY <1>1 DEF OperandsInv, TypeOK
  <2> QED
    BY <2>1, FieldsType DEF At, FieldsAt
<1>3. Recognized(f)
  BY DEF OperandsInv, TagsValid, Tagged
<1>4. f.opcode = StoreWord \/ RWriter(f) \/ IWriter(f)
  BY <1>3, SMT DEF Recognized, RWriter, IWriter
<1>5. /\ idex.memWrite = IF f.opcode = StoreWord THEN 1 ELSE 0
      /\ idex.regWrite = IF RWriter(f) \/ IWriter(f) THEN 1 ELSE 0
  BY <1>1, DecodedFields
<1>6. IsWriter
  BY <1>4, <1>5 DEF IsWriter
<1>7. /\ idex.rs = f.rs /\ idex.rt = f.rt /\ idex.op = ALUop(f)
      /\ idex.imm16 = f.imm16 /\ idex.imm32 = f.imm32
      /\ idex.ALUsrc = IF f.opcode \in {8, 9, 10, LoadWord, StoreWord} THEN 1
                       ELSE IF f.opcode \in {12, 13, 15} THEN 2 ELSE 0
  BY <1>1, DecodedFields
<1> QED
  BY <1>1, <1>2, <1>3, <1>6, <1>7

\* NOP, the only shift of a hazard-free program.
LEMMA ShiftIsNOP ==
  ASSUME OperandsInv, idexPc # NoInstruction,
         NEW f, f = At(idexPc), f.opcode = 0, f.funct = 0
  PROVE  f.rt = 0 /\ f.rd = 0 /\ f.shamt = 0
<1>1. Index(idexPc) \in DOMAIN instMemory
  BY InEX DEF OperandsInv
<1>2. instMemory[Index(idexPc)] = NOP /\ f = extract_instructionFields(instMemory[Index(idexPc)])
  BY <1>1 DEF OperandsInv, HazardFree, NoShifts, At, FieldsAt
<1>3. f.rt = (0 \div 65536) % 32 /\ f.rd = (0 \div 2048) % 32 /\ f.shamt = (0 \div 64) % 32
  BY <1>2, SMT DEF extract_instructionFields, NOP
<1> QED
  BY <1>3, SMT

\* One clock of EX, with the operands of program order.
LEMMA EXComputes ==
  ASSUME OperandsInv, BackEnd, idexPc # NoInstruction,
         NEW f, f = At(idexPc)
  PROVE  LET a == RegsAfterMEM[f.rs]
             b == RegsAfterMEM[f.rt]
         IN  /\ f.opcode = 0 => exmem'.aluResult = ISA!RResult(f, a, b)
             /\ f.opcode \in Immediates => exmem'.aluResult = ISA!IResult(f, a)
             /\ f.opcode \in {LoadWord, StoreWord} =>
                  exmem'.aluResult = Plus(a, ImmediateWord(f.imm32))
<1> DEFINE a == RegsAfterMEM[f.rs]
           b == RegsAfterMEM[f.rt]
           in1 == EX_getALUinput1(idex, exmem, memwb)
           in2 == EX_getALUinput2(idex, exmem, memwb)
           x == exmem'.aluResult
<1>1. AccessInMemory /\ exmem' \in execute_EX(idex, in1, in2) /\ OperandsCurrent
  BY InvGivesOperands DEF BackEnd
<1>2. CASE f.opcode \in {2, 4, 5}
  BY <1>2, SMT DEF Immediates, LoadWord, StoreWord
<1>3. CASE f.opcode \notin {2, 4, 5}
  <2>1. /\ f \in InstructionFields /\ Recognized(f) /\ IsWriter
        /\ idex = Decoded(f, idex.rsVal, idex.rtVal)
        /\ idex.rs = f.rs /\ idex.rt = f.rt /\ idex.op = ALUop(f)
        /\ idex.imm16 = f.imm16 /\ idex.imm32 = f.imm32
        /\ idex.ALUsrc = IF f.opcode \in {8, 9, 10, LoadWord, StoreWord} THEN 1
                         ELSE IF f.opcode \in {12, 13, 15} THEN 2 ELSE 0
    BY <1>3, HeldInEX
  <2>2. UsesInput1 => in1 = a
    BY <1>1, <2>1 DEF OperandsCurrent
  <2>3. UsesInput2 => in2 = b
    BY <1>1, <2>1 DEF OperandsCurrent, UsesInput2
  <2>4. f.opcode \in {8, 9, 10, LoadWord, StoreWord} => in2 = ImmediateWord(f.imm32)
    BY <2>1, SMT DEF EX_getALUinput2
  <2>5. f.opcode \in {12, 13, 15} => in2 = ImmediateWord(f.imm16)
    BY <2>1, SMT DEF EX_getALUinput2, LoadWord, StoreWord
  <2>6. x \in ALUresults(idex, in1, in2)
    BY <1>1, SMT DEF execute_EX, FillEX_MEM
  <2> HIDE DEF a, b, in1, in2, x
  <2>7. f.opcode \in {0} \cup Immediates \cup {LoadWord, StoreWord}
    BY <1>3, <2>1 DEF Recognized
  <2>8. CASE f.opcode = 0 /\ f.funct # 0
    <3>1. f.funct \in 32 .. 39 \cup {42}
      BY <2>1, <2>8, SMT DEF Recognized, RTypeFuncts, LoadWord, StoreWord, Immediates
    <3>2. idex.op \in 0 .. 4 \cup {6} /\ idex.ALUsrc = 0
      BY <2>1, <2>8, <3>1, SMT DEF ALUop, LoadWord, StoreWord
    <3>3. in1 = a /\ in2 = b
      BY <2>2, <2>3, <3>2 DEF UsesInput1, UsesInput2
    <3>4. x = ISA!RResult(f, a, b)
      BY <2>1, <2>6, <2>8, <3>3, ALUComputes
    <3> QED
      BY <2>8, <3>4, SMT DEF a, b, x, Immediates, LoadWord, StoreWord
  <2>9. CASE f.opcode = 0 /\ f.funct = 0
    <3>1. f.rt = 0 /\ f.rd = 0 /\ f.shamt = 0
      BY <2>9, ShiftIsNOP
    <3>2. idex.regWrite = 1 /\ Destination(idex) = 0
      <4>1. RWriter(f)
        BY <2>9, SMT DEF RWriter, RTypeFuncts
      <4>2. idex.regWrite = 1 /\ idex.regDst = 1 /\ idex.rd = f.rd
        BY <1>3, <2>1, <4>1, DecodedFields
      <4> QED
        BY <3>1, <4>2, SMT DEF Destination
    <3>3. x = regs[0]
      BY <1>1, <3>2, ZeroThroughEX DEF OperandsInv, HazardFree, x, in1, in2
    <3>4. b = regs[0] /\ b \in WORD
      <4>1. RegsAfterMEM[0] = RegsID[0]
        <5>1. execute_MEM(exmem, dataMemory) \in MEM_WB /\ RegsID \in [Registers -> WORD]
          BY <1>1, MEMType DEF OperandsInv
        <5>2. 0 \in RegNumber
          BY SMT DEF RegNumber
        <5> QED
          BY <5>1, <5>2, WBWrites DEF RegsAfterMEM
      <4>2. RegsID[0] = regs[0] /\ 0 \in Registers
        BY WBLeavesZero, SMT DEF OperandsInv, Registers
      <4> QED
        BY <3>1, <4>1, <4>2 DEF b, OperandsInv, TypeOK
    <3>5. ISA!RResult(f, a, b) = ShiftLeft(b, 0)
      BY <2>9, <3>1, SameWords, SMT DEF ISA!RResult
    <3>6. x = ISA!RResult(f, a, b)
      BY <3>3, <3>4, <3>5, ShiftByZero
    <3> QED
      BY <2>9, <3>6, SMT DEF a, b, x, Immediates, LoadWord, StoreWord
  <2>10. CASE f.opcode = 15
    <3>1. x = ISA!IResult(f, in1)
      BY <2>1, <2>5, <2>6, <2>10, ALUComputes, SMT
    <3>2. ISA!IResult(f, in1) = ISA!IResult(f, a)
      BY <2>10, SMT DEF ISA!IResult
    <3> QED
      BY <2>10, <3>1, <3>2, SMT DEF a, b, x, Immediates, LoadWord, StoreWord
  <2>11. CASE f.opcode \in (Immediates \ {15}) \cup {LoadWord, StoreWord}
    <3>1. idex.op \in 0 .. 4 \cup {6}
      BY <2>1, <2>11, SMT DEF ALUop, Immediates, LoadWord, StoreWord
    <3>2. in1 = a
      BY <2>2, <3>1 DEF UsesInput1
    <3>3. f.opcode \in Immediates \ {15} => x = ISA!IResult(f, a)
      BY <2>1, <2>4, <2>5, <2>6, <3>2, ALUComputes, SMT DEF Immediates
    <3>4. f.opcode \in {LoadWord, StoreWord} => x = Plus(a, ImmediateWord(f.imm32))
      BY <2>1, <2>4, <2>6, <3>2, ALUComputes, SMT
    <3> QED
      BY <2>11, <3>3, <3>4, SMT DEF a, b, x, Immediates, LoadWord, StoreWord
  <2> QED
    BY <2>7, <2>8, <2>9, <2>10, <2>11
<1> QED
  BY <1>2, <1>3

LEMMA StepResult ==
  ASSUME OperandsInv, ResultCurrent, [HNext]_hvars
  PROVE  ResultCurrent'
<1>0. instMemory' = instMemory
  BY StepProgram
<1>1. CASE BackEnd /\ exmemPc' = idexPc
  <2> SUFFICES ASSUME idexPc # NoInstruction
               PROVE  LET f == At(idexPc)
                          a == RegsID'[f.rs]
                          b == RegsID'[f.rt]
                      IN  /\ f.opcode = 0 => exmem'.aluResult = ISA!RResult(f, a, b)
                          /\ f.opcode \in Immediates => exmem'.aluResult = ISA!IResult(f, a)
                          /\ f.opcode \in {LoadWord, StoreWord} =>
                               exmem'.aluResult = Plus(a, ImmediateWord(f.imm32))
    <3>1. At(exmemPc)' = At(idexPc)
      BY <1>0, <1>1 DEF At, FieldsAt, Index
    <3>2. \A f, a, b : ISA!RResult(f, a, b)' = ISA!RResult(f, a, b)
      BY ZenonT(30) DEF ISA!RResult
    <3>3. \A f, a : ISA!IResult(f, a)' = ISA!IResult(f, a)
      BY ZenonT(30) DEF ISA!IResult
    <3> QED
      BY <1>1, <3>1, <3>2, <3>3 DEF ResultCurrent
  <2> QED
    BY <1>1, RegsAfterClock, EXComputes
<1>2. CASE Unclocked
  BY <1>0, <1>2 DEF Unclocked, tags, ResultCurrent, At, FieldsAt, Index, RegsID, execute_WB, WBValue
<1> QED
  BY <1>1, <1>2, StepCases DEF Enter, IssueClock, BubbleClock

LEMMA StepStatus ==
  ASSUME StatusMeans, [HNext]_hvars
  PROVE  StatusMeans'
<1> USE DEF StatusMeans, InProgram, Instruction, Fields, Index
<1>1. CASE HIssue \/ HStall
  <2>1. status' = "running"
    BY <1>1 DEF HIssue, HStall, IssueClock, StallClock, OnInstruction
  <2> QED
    BY <2>1
<1>2. CASE HError
  <2>1. /\ status' = "error" /\ pc' = pc /\ instMemory' = instMemory
        /\ InProgram /\ Instruction # SYSCALL /\ IDReturn(FALSE, Fields) = 0
    BY <1>2, Zenon DEF HError, ErrorClock, OnInstruction, BackEnd
  <2>2. ~ Recognized(Fields)
    <3> HIDE DEF Fields
    <3> QED
      BY <2>1, SMT DEF IDReturn, Flag
  <2> QED
    BY <2>1, <2>2
<1>3. CASE HEnd
  <2>1. /\ pc' = pc /\ instMemory' = instMemory
        /\ InProgram => Instruction = SYSCALL
        /\ status' = IF InProgram THEN "exit" ELSE "wild"
    BY <1>3, Zenon DEF HEnd, EndClock, BackEnd
  <2> QED
    BY <2>1
<1>4. CASE HDrain
  <2>1. pc' = pc /\ instMemory' = instMemory /\ status' = status
    BY <1>4 DEF HDrain, DrainClock, BackEnd
  <2> QED
    BY <2>1
<1>5. CASE HFault \/ HTerminated \/ UNCHANGED hvars
  BY <1>5 DEF HFault, HTerminated, MemoryFault, Terminated, hvars, vars
<1> QED
  BY <1>1, <1>2, <1>3, <1>4, <1>5 DEF HNext

LEMMA StepRefinementInv ==
  ASSUME CodeOffset % 4 = 0, RefinementInv, [HNext]_hvars
  PROVE  RefinementInv'
<1>1. OperandsInv'
  BY StepOperandsInv DEF RefinementInv
<1>2. StoreInEX' /\ StoreDataCurrent'
  BY <1>1, StepStores, HStepIsStep DEF RefinementInv, OperandsInv
<1> QED
  BY <1>1, <1>2, StepBranches, StepResult, StepFollows, StepStatus DEF RefinementInv

LEMMA InitRefinementInv ==
  ASSUME CodeOffset % 4 = 0, \A p \in Programs : HazardFree(p), HInit
  PROVE  RefinementInv
<1>1. OperandsInv
  BY InitOperandsInv
<1>2. StoreInEX /\ StoreDataCurrent
  BY SMT DEF HInit, Init, StoreInEX, StoreDataCurrent, Bubble, EmptyEX_MEM
<1>3. BranchesSettled /\ ResultCurrent /\ FollowedRight /\ StatusMeans
  BY DEF HInit, Init, BranchesSettled, ResultCurrent, FollowedRight, StatusMeans
<1> QED
  BY <1>1, <1>2, <1>3 DEF RefinementInv

-----------------------------------------------------------------------------
(* Steps of the pipeline as steps of MipsISA. *)

\* Where MipsISA is while the pipeline holds an instruction in MEM.
LEMMA ArchInMEM ==
  ASSUME RefinementInv, exmemPc # NoInstruction, status # "fault"
  PROVE  /\ ArchPc = exmemPc /\ ArchStatus = "running"
         /\ ISA!Index = Index(exmemPc)
         /\ ISA!Instruction = At(exmemPc)
         /\ ISA!OnInstruction /\ ISA!Implemented(At(exmemPc))
         /\ Recognized(At(exmemPc)) /\ At(exmemPc) \in InstructionFields
<1>1. ArchPc = exmemPc /\ ArchStatus = "running"
  BY DEF ArchPc, ArchStatus, PipelineEmpty
<1>2. ISA!Index = Index(exmemPc)
  BY <1>1 DEF ISA!Index, Index
<1>3. ISA!Instruction = At(exmemPc)
  BY <1>2, SameInstructions, Zenon DEF ISA!Instruction, At, FieldsAt
<1>4. Tagged(exmemPc)
  BY DEF RefinementInv, OperandsInv, TagsValid
<1>5. At(exmemPc) \in InstructionFields
  <2>1. instMemory[Index(exmemPc)] \in Int
    BY <1>4 DEF Tagged, RefinementInv, OperandsInv, TypeOK
  <2> QED
    BY <2>1, FieldsType DEF At, FieldsAt
<1>6. ISA!OnInstruction
  BY <1>1, <1>2, <1>4, SameInstructions DEF ISA!OnInstruction, Tagged
<1>7. ISA!Implemented(At(exmemPc)) /\ Recognized(At(exmemPc))
  <2>1. At(exmemPc).opcode \in 0 .. 63
    BY <1>5 DEF InstructionFields
  <2> QED
    BY <1>4, <2>1, SameRecognized DEF Tagged
<1> QED
  BY <1>1, <1>2, <1>3, <1>5, <1>6, <1>7

\* The latch EX/MEM and the instruction it holds.
LEMMA HeldInMEM ==
  ASSUME RefinementInv, exmemPc # NoInstruction, NEW f, f = At(exmemPc)
  PROVE  /\ exmem.memWrite = 1 <=> f.opcode = StoreWord
         /\ exmem.memRead = 1 <=> f.opcode = LoadWord
         /\ exmem.memToReg = 1 <=> f.opcode = LoadWord
         /\ exmem.regWrite = 1 <=> RWriter(f) \/ IWriter(f)
         /\ exmem.regWrite = 1 => exmem.writeReg = Writes(f)
         /\ f.opcode = StoreWord => exmem.rt = f.rt
<1>1. PICK d : /\ d = Decoded(f, Zero, exmem.rtVal)
               /\ exmem.regWrite = d.regWrite /\ exmem.writeReg = Destination(d)
               /\ exmem.memRead = d.memRead /\ exmem.memWrite = d.memWrite
               /\ exmem.memToReg = d.memToReg /\ exmem.rt = d.rt
  BY InMEM DEF RefinementInv, OperandsInv
<1>2. f.opcode \in {2, 4, 5} => f.opcode # LoadWord /\ f.opcode # StoreWord
                                /\ ~ RWriter(f) /\ ~ IWriter(f)
  BY SMT DEF LoadWord, StoreWord, RWriter, IWriter, Immediates
<1>3. CASE f.opcode \in {2, 4, 5}
  <2>1. d.regWrite = 0 /\ d.memRead = 0 /\ d.memWrite = 0 /\ d.memToReg = 0
    BY <1>1, <1>3, DecodedFields
  <2> QED
    BY <1>1, <1>2, <1>3, <2>1, SMT
<1>4. CASE f.opcode \notin {2, 4, 5}
  <2>1. /\ d.memRead = IF f.opcode = LoadWord THEN 1 ELSE 0
        /\ d.memWrite = IF f.opcode = StoreWord THEN 1 ELSE 0
        /\ d.memToReg = IF f.opcode = LoadWord THEN 1 ELSE 0
        /\ d.regWrite = IF RWriter(f) \/ IWriter(f) THEN 1 ELSE 0
        /\ d.rt = f.rt
    BY <1>1, <1>4, DecodedFields
  <2>2. d.regWrite = 1 => Destination(d) = Writes(f)
    BY <1>1, DecodedWriter
  <2> QED
    BY <1>1, <2>1, <2>2, SMT
<1> QED
  BY <1>3, <1>4

\* The word MEM accesses.
LEMMA SameAddress ==
  ASSUME RefinementInv, exmemPc # NoInstruction,
         At(exmemPc).opcode \in {LoadWord, StoreWord}
  PROVE  ISA!Address(At(exmemPc)) = MemIndex(exmem.aluResult)
<1> DEFINE f == At(exmemPc)
<1>1. exmem.aluResult = Plus(RegsID[f.rs], ImmediateWord(f.imm32))
  BY DEF RefinementInv, ResultCurrent
<1>2. ISA!Address(f) = DivBy4(Value(Plus(RegsID[f.rs], ImmediateWord(f.imm32))))
  BY SameWords, Zenon DEF ISA!Address, ArchRegs
<1> QED
  BY <1>1, <1>2 DEF MemIndex

\* A clock with an instruction in MEM executes that instruction.
LEMMA MEMExecutes ==
  ASSUME RefinementInv, exmemPc # NoInstruction, status # "fault", BackEnd,
         ArchPc' = NextAddress(exmemPc, At(exmemPc), RegsID),
         ArchStatus' = "running"
  PROVE  ISA!Next
<1> DEFINE f == At(exmemPc)
           x == exmem.aluResult
           out == execute_MEM(exmem, dataMemory)
<1>1. /\ ArchPc = exmemPc /\ ArchStatus = "running"
      /\ ISA!Instruction = f /\ ISA!OnInstruction /\ ISA!Implemented(f)
      /\ Recognized(f) /\ f \in InstructionFields
  BY ArchInMEM
<1>2. /\ exmem.memWrite = 1 <=> f.opcode = StoreWord
      /\ exmem.memRead = 1 <=> f.opcode = LoadWord
      /\ exmem.memToReg = 1 <=> f.opcode = LoadWord
      /\ exmem.regWrite = 1 <=> RWriter(f) \/ IWriter(f)
      /\ exmem.regWrite = 1 => exmem.writeReg = Writes(f)
      /\ f.opcode = StoreWord => exmem.rt = f.rt
  BY HeldInMEM
<1>3. /\ f.opcode = 0 => x = ISA!RResult(f, RegsID[f.rs], RegsID[f.rt])
      /\ f.opcode \in Immediates => x = ISA!IResult(f, RegsID[f.rs])
      /\ f.opcode \in {LoadWord, StoreWord} => ISA!Address(f) = MemIndex(x)
  BY SameAddress DEF RefinementInv, ResultCurrent
<1>4. /\ ArchRegs' = execute_WB(out, RegsID) /\ ArchRegs = RegsID
      /\ instMemory' = instMemory /\ AccessInMemory
      /\ dataMemory' = MemoryAfter(exmem, memwb, dataMemory)
  BY RegsAfterClock DEF ArchRegs, RegsAfterMEM, BackEnd
<1>5. /\ out.regWrite = exmem.regWrite /\ out.writeReg = exmem.writeReg
      /\ out.memToReg = exmem.memToReg /\ out.aluResult = x
      /\ exmem.memRead = 1 => out.memResult = dataMemory[MemIndex(x)]
  BY SMT DEF execute_MEM
<1>6. exmem.regWrite \in {0, 1}
  BY SMT DEF RefinementInv, OperandsInv, TypeOK, EX_MEM
<1>7. f.opcode # StoreWord => dataMemory' = dataMemory
  BY <1>2, <1>4 DEF MemoryAfter
<1>8. f.opcode \in {LoadWord, StoreWord} => MemIndex(x) \in DOMAIN dataMemory
  BY <1>2, <1>4 DEF AccessInMemory
<1>9. f.opcode \notin {2, 4, 5} => ArchPc' = ArchPc + 4
  BY <1>1, SMT DEF NextAddress
<1> HIDE DEF f, x, out
<1>10. CASE RWriter(f)
  <2>1. f.opcode = 0 /\ f.opcode # LoadWord /\ f.opcode # StoreWord /\ f.opcode \notin {2, 4, 5}
    BY <1>10, SMT DEF RWriter, LoadWord, StoreWord
  <2>2. out.regWrite = 1 /\ out.writeReg = f.rd /\ WBValue(out) = x
    BY <1>2, <1>5, <1>10, <2>1 DEF Writes, RWriter, WBValue
  <2>3. ISA!Write(f.rd, ISA!RResult(f, ArchRegs[f.rs], ArchRegs[f.rt]))
    BY <1>3, <1>4, <2>1, <2>2, SMT DEF ISA!Write, execute_WB
  <2>4. ISA!Arithmetic
    BY <1>1, <1>4, <1>7, <1>9, <2>1, <2>3 DEF ISA!Arithmetic
  <2> QED
    BY <2>4 DEF ISA!Next
<1>11. CASE f.opcode \in Immediates
  <2>1. /\ f.opcode \in {8, 9, 10, 12, 13, 15} /\ f.opcode # 0
        /\ f.opcode # LoadWord /\ f.opcode # StoreWord /\ f.opcode \notin {2, 4, 5}
    BY <1>11, SMT DEF Immediates, LoadWord, StoreWord
  <2>2. IWriter(f) /\ ~ RWriter(f)
    BY <1>11, <2>1 DEF IWriter, RWriter
  <2>3. out.regWrite = 1 /\ out.writeReg = f.rt /\ WBValue(out) = x
    BY <1>2, <1>5, <2>1, <2>2 DEF Writes, RWriter, IWriter, WBValue
  <2>4. ISA!Write(f.rt, ISA!IResult(f, ArchRegs[f.rs]))
    <3>1. x = ISA!IResult(f, ArchRegs[f.rs])
      BY <1>3, <1>4, <1>11
    <3>2. ISA!Write(f.rt, x)
      BY <1>4, <2>3, SMT DEF ISA!Write, execute_WB
    <3> QED
      BY <3>1, <3>2
  <2>5. ISA!Arithmetic
    BY <1>1, <1>4, <1>7, <1>9, <2>1, <2>4 DEF ISA!Arithmetic
  <2> QED
    BY <2>5 DEF ISA!Next
<1>12. CASE f.opcode = LoadWord
  <2>1. f.opcode = 35 /\ f.opcode # 0 /\ f.opcode # StoreWord /\ f.opcode \notin {2, 4, 5}
    BY <1>12, SMT DEF LoadWord, StoreWord
  <2>2. IWriter(f) /\ ~ RWriter(f)
    BY <1>12, <2>1 DEF IWriter, RWriter
  <2>3. out.regWrite = 1 /\ out.writeReg = f.rt /\ WBValue(out) = dataMemory[MemIndex(x)]
    BY <1>2, <1>5, <1>12, <2>2 DEF Writes, RWriter, IWriter, WBValue
  <2>4. ISA!Write(f.rt, dataMemory[ISA!Address(f)])
    BY <1>3, <1>4, <1>12, <2>3, SMT DEF ISA!Write, execute_WB
  <2>5. ISA!Load
    BY <1>1, <1>3, <1>4, <1>7, <1>8, <1>9, <2>1, <1>12, <2>4 DEF ISA!Load
  <2> QED
    BY <2>5 DEF ISA!Next
<1>13. ~ RWriter(f) /\ ~ IWriter(f) => ArchRegs' = ArchRegs
  BY <1>2, <1>4, <1>5, <1>6 DEF execute_WB
<1>14. CASE f.opcode = StoreWord
  <2>1. /\ f.opcode = 43 /\ f.opcode \notin {2, 4, 5}
        /\ ~ RWriter(f) /\ ~ IWriter(f)
    BY <1>14, SMT DEF LoadWord, StoreWord, RWriter, IWriter, Immediates
  <2>2. WriteData(exmem, memwb) = ArchRegs[f.rt]
    BY <1>2, <1>4, <1>14 DEF RefinementInv, StoreDataCurrent
  <2>3. dataMemory' = [dataMemory EXCEPT ![ISA!Address(f)] = ArchRegs[f.rt]]
    BY <1>2, <1>3, <1>4, <1>14, <2>2 DEF MemoryAfter, x
  <2>4. ISA!Store
    BY <1>1, <1>3, <1>4, <1>8, <1>9, <1>13, <1>14, <2>1, <2>3 DEF ISA!Store
  <2> QED
    BY <2>4 DEF ISA!Next
<1>15. CASE f.opcode \in {4, 5}
  <2>1. ~ RWriter(f) /\ ~ IWriter(f) /\ f.opcode # StoreWord
    BY <1>15, SMT DEF LoadWord, StoreWord, RWriter, IWriter, Immediates
  <2>2. ArchPc' = IF f.opcode = 4 <=> RegsID[f.rs] = RegsID[f.rt]
                  THEN ArchPc + 4 + f.imm32 * 4 ELSE ArchPc + 4
    BY <1>1, <1>15, SMT DEF NextAddress, calc_branchAddr, f
  <2>3. ArchPc \in Int /\ f.imm32 \in Int
    BY <1>1, SMT DEF InstructionFields, RefinementInv, OperandsInv, TagsValid, Tagged, Aligned
  <2>4. ArchPc' = ArchPc + 4 + IF f.opcode = 4 <=> RegsID[f.rs] = RegsID[f.rt]
                               THEN f.imm32 * 4 ELSE 0
    BY <2>2, <2>3, SMT
  <2>5. ISA!Branch
    BY <1>1, <1>4, <1>7, <1>13, <1>15, <2>1, <2>4 DEF ISA!Branch
  <2> QED
    BY <2>5 DEF ISA!Next
<1>16. CASE f.opcode = 2
  <2>1. ~ RWriter(f) /\ ~ IWriter(f) /\ f.opcode # StoreWord
    BY <1>16, SMT DEF LoadWord, StoreWord, RWriter, IWriter, Immediates
  <2>2. ArchPc' = ((ArchPc + 4) - ((ArchPc + 4) % 268435456)) + f.address * 4
    BY <1>1, <1>16, SMT DEF NextAddress, calc_jumpAddr, f
  <2>3. ISA!Jump
    BY <1>1, <1>4, <1>7, <1>13, <1>16, <2>1, <2>2, SMT DEF ISA!Jump
  <2> QED
    BY <2>3 DEF ISA!Next
<1>17. \/ RWriter(f) \/ f.opcode \in Immediates
       \/ f.opcode \in {2, 4, 5, LoadWord, StoreWord}
  BY <1>1 DEF Recognized, RWriter
<1> QED
  BY <1>10, <1>11, <1>12, <1>14, <1>15, <1>16, <1>17

\* An access outside the data memory.
LEMMA FaultRefines ==
  ASSUME RefinementInv, HFault
  PROVE  ISA!Next
<1>1. /\ status # "fault" /\ status' = "fault" /\ ~ AccessInMemory
      /\ UNCHANGED <<instMemory, regs, dataMemory, pc, memwb, tags>>
  BY DEF HFault, MemoryFault
<1>2. exmemPc # NoInstruction
  BY <1>1, InMEM DEF AccessInMemory, RefinementInv, OperandsInv
<1> DEFINE f == At(exmemPc)
<1>3. f.opcode \in {LoadWord, StoreWord} /\ MemIndex(exmem.aluResult) \notin DOMAIN dataMemory
  BY <1>1, <1>2, HeldInMEM DEF AccessInMemory
<1>4. f.opcode \in {35, 43} /\ ISA!Address(f) \notin DOMAIN dataMemory
  BY <1>2, <1>3, SameAddress DEF LoadWord, StoreWord
<1>5. ArchPc' = ArchPc /\ ArchRegs' = ArchRegs /\ ArchStatus' = "fault"
  BY <1>1 DEF tags, ArchPc, ArchRegs, RegsID, execute_WB, WBValue, ArchStatus
<1>6. /\ ISA!Instruction = f /\ ISA!OnInstruction /\ ISA!Implemented(f)
  BY <1>1, <1>2, ArchInMEM
<1>7. ISA!Fault
  BY <1>1, <1>4, <1>5, <1>6 DEF ISA!Fault, ISA!Stop
<1> QED
  BY <1>7 DEF ISA!Next

\* The next instruction to execute, after a clock.
LEMMA ArchPcAfterClock ==
  ASSUME pc # NoInstruction,
         NEW tag, Enter(tag), tag = pc \/ (tag = NoInstruction /\ pc' = pc)
  PROVE  ArchPc' = IF idexPc # NoInstruction THEN idexPc ELSE pc
BY DEF Enter, ArchPc

\* A clock with nothing in MEM changes nothing MipsISA sees, but for the end
\* of the program, when the last instruction has left the pipeline.
LEMMA EmptyClockRefines ==
  ASSUME RefinementInv, StatusMeans', SystemCallsExit, exmemPc = NoInstruction,
         pc # NoInstruction, BackEnd, NEW tag, Enter(tag),
         \/ tag = pc /\ status = "running" /\ status' = "running"
         \/ tag = NoInstruction /\ BubbleClock
  PROVE  ISA!Next \/ UNCHANGED ISA!vars
<1>0. /\ tag = pc \/ (tag = NoInstruction /\ pc' = pc)
      /\ status \in {"running", status'}
      /\ status' \in {"running", "exit", "error", "wild"}
      /\ tag = pc => status' = status
  BY DEF BubbleClock
<1>1. exmem.regWrite = 0 /\ exmem.memWrite = 0
  BY DEF RefinementInv, OperandsInv, LatchesMatchProgram
<1>2. ArchRegs' = ArchRegs
  <2>1. execute_MEM(exmem, dataMemory).regWrite = 0
    BY <1>1, SMT DEF execute_MEM
  <2> QED
    BY <2>1, RegsAfterClock DEF ArchRegs, RegsAfterMEM, execute_WB
<1>3. dataMemory' = dataMemory /\ instMemory' = instMemory
  BY <1>1, SMT DEF BackEnd, MemoryAfter
<1>4. ArchPc' = ArchPc
  <2>1. ArchPc' = IF idexPc # NoInstruction THEN idexPc ELSE pc
    BY <1>0, ArchPcAfterClock
  <2> QED
    BY <2>1 DEF ArchPc
<1>5. status # "fault" /\ status' # "fault"
  BY <1>0
<1>6. PipelineEmpty' <=> tag = NoInstruction /\ idexPc = NoInstruction
  BY DEF Enter, PipelineEmpty
<1>7. /\ ArchStatus = IF PipelineEmpty THEN status ELSE "running"
      /\ ArchStatus' = IF PipelineEmpty' THEN status' ELSE "running"
  BY <1>5 DEF ArchStatus
<1>8. CASE ArchStatus' = ArchStatus
  BY <1>2, <1>3, <1>4, <1>8 DEF ISA!vars
<1>9. CASE ArchStatus' # ArchStatus
  <2>1. /\ ArchStatus = "running" /\ ArchStatus' = status'
        /\ status' \in {"exit", "error", "wild"}
        /\ tag = NoInstruction /\ idexPc = NoInstruction /\ pc' = pc
    BY <1>0, <1>6, <1>7, <1>9 DEF PipelineEmpty
  <2>2. /\ ArchPc = pc /\ ISA!Index = Index(pc)
    BY <2>1 DEF ArchPc, ISA!Index, Index
  <2>3. InProgram' = InProgram /\ Instruction' = Instruction /\ Fields' = Fields
    BY <1>3, <2>1 DEF InProgram, Instruction, Fields, Index
  <2>4. /\ InProgram <=> ISA!Index \in DOMAIN instMemory
        /\ Instruction = instMemory[ISA!Index]
        /\ ISA!Instruction = Fields
    BY <2>2, SameInstructions, Zenon DEF InProgram, Instruction, Fields, ISA!Instruction
  <2>5. CASE status' = "error"
    <3>1. InProgram /\ Instruction # SYSCALL /\ ~ Recognized(Fields)
      BY <2>3, <2>5 DEF StatusMeans
    <3>2. Fields.opcode \in 0 .. 63
      <4>1. Instruction \in Int
        BY <3>1 DEF InProgram, Instruction, RefinementInv, OperandsInv, TypeOK
      <4> QED
        BY <4>1, FieldsType DEF Fields, InstructionFields
    <3>3. ISA!OnInstruction /\ ~ ISA!Implemented(ISA!Instruction)
      BY <2>1, <2>4, <3>1, <3>2, SameRecognized, SameInstructions DEF ISA!OnInstruction
    <3>4. ISA!Error
      BY <1>2, <1>3, <1>4, <2>1, <2>5, <3>3 DEF ISA!Error, ISA!Stop
    <3> QED
      BY <3>4 DEF ISA!Next
  <2>6. CASE status' = "exit"
    <3>1. InProgram /\ Instruction = SYSCALL
      BY <2>3, <2>6 DEF StatusMeans
    <3>2. ISA!OnSystemCall
      BY <2>1, <2>4, <3>1, SameInstructions DEF ISA!OnSystemCall
    <3>3. ArchRegs[ISA!V0] = ISA!Number(10)
      BY <3>2, SameWords DEF SystemCallsExit, ArchRegs, ISA!V0, ISA!Number
    <3>4. ISA!Exit
      BY <1>2, <1>3, <1>4, <2>1, <2>6, <3>2, <3>3 DEF ISA!Exit, ISA!Stop
    <3> QED
      BY <3>4 DEF ISA!Next
  <2>7. CASE status' = "wild"
    <3>1. ~ InProgram
      BY <2>3, <2>7 DEF StatusMeans
    <3>2. ISA!Wild
      BY <1>2, <1>3, <1>4, <2>1, <2>4, <2>7, <3>1 DEF ISA!Wild, ISA!Stop
    <3> QED
      BY <3>2 DEF ISA!Next
  <2> QED
    BY <2>1, <2>5, <2>6, <2>7
<1> QED
  BY <1>8, <1>9

LEMMA StepRefines ==
  ASSUME RefinementInv, RefinementInv', SystemCallsExit, [HNext]_hvars
  PROVE  [ISA!Next]_(ISA!vars)
<1>0. TypeOK /\ pc # NoInstruction
  BY NoInstructionAssumption DEF RefinementInv, OperandsInv, TypeOK
<1>1. ASSUME NEW tag, Enter(tag), BackEnd,
             \/ tag = pc /\ status = "running" /\ status' = "running"
             \/ tag = NoInstruction /\ BubbleClock
      PROVE  [ISA!Next]_(ISA!vars)
  <2>1. CASE exmemPc = NoInstruction
    BY <1>0, <1>1, <2>1, EmptyClockRefines DEF RefinementInv
  <2>2. CASE exmemPc # NoInstruction
    <3>1. ArchPc' = NextAddress(exmemPc, At(exmemPc), RegsID)
      <4>1. ArchPc' = IF idexPc # NoInstruction THEN idexPc ELSE pc
        BY <1>0, <1>1, ArchPcAfterClock DEF BubbleClock
      <4> QED
        BY <2>2, <4>1 DEF RefinementInv, FollowedRight
    <3>2. status # "fault" /\ ArchStatus' = "running"
      <4>1. memwbPc' = exmemPc /\ status' # "fault" /\ status # "fault"
        BY <1>1 DEF Enter, BubbleClock
      <4> QED
        BY <2>2, <4>1 DEF ArchStatus, PipelineEmpty
    <3>3. ISA!Next
      BY <1>1, <2>2, <3>1, <3>2, MEMExecutes
    <3> QED
      BY <3>3
  <2> QED
    BY <2>1, <2>2
<1>2. CASE IssueClock /\ Enter(pc)
  <2>1. BackEnd /\ status = "running" /\ status' = "running"
    BY <1>2 DEF IssueClock, OnInstruction
  <2> QED
    BY <1>1, <1>2, <2>1
<1>3. CASE BubbleClock
  BY <1>1, <1>3 DEF BubbleClock
<1>4. CASE HFault
  BY <1>4, FaultRefines
<1>5. CASE HTerminated \/ UNCHANGED hvars
  BY <1>5 DEF HTerminated, Terminated, hvars, vars, tags, ISA!vars, ArchPc, ArchRegs, RegsID,
              execute_WB, WBValue, ArchStatus, PipelineEmpty
<1> QED
  BY <1>2, <1>3, <1>4, <1>5, ClockCases DEF HNext

LEMMA HInitRefines ==
  ASSUME HInit
  PROVE  ISA!Init
<1>1. TypeOK /\ ArchRegs = regs
  <2>1. memwb.regWrite = 0
    BY SMT DEF HInit, Init, EmptyMEM_WB
  <2> QED
    BY <2>1, InitType DEF HInit, ArchRegs, RegsID, execute_WB
<1>2. ArchPc = CodeOffset /\ ArchStatus = "running"
  BY DEF HInit, Init, ArchPc, ArchStatus
<1> QED
  BY <1>1, <1>2, SameWords DEF ISA!Init, TypeOK, Registers

\* Every run of the pipeline on hazard-free programs is a run of MipsISA:
\* with all the stalls, bubbles and forwarding, the instructions take effect
\* one after the other, each exactly once, and the last one before the end.
THEOREM PipelineRefines ==
  ASSUME CodeOffset % 4 = 0, \A p \in Programs : HazardFree(p)
  PROVE  HSpec /\ []SystemCallsExit => Implements
<1>1. HInit => RefinementInv /\ ISA!Init
  BY InitRefinementInv, HInitRefines
<1>2. RefinementInv /\ [HNext]_hvars => RefinementInv'
  BY StepRefinementInv
<1>3. RefinementInv /\ RefinementInv' /\ SystemCallsExit /\ [HNext]_hvars
        => [ISA!Next]_(ISA!vars)
  BY StepRefines
<1> QED
  BY <1>1, <1>2, <1>3, PTL DEF HSpec, Implements, ISA!Spec
=============================================================================
