SPECIFICATION HSpec
CONSTANTS
  W = 5
  Length = 4
  CodeOffset = 0
  NoInstruction = NoInstruction
  Programs <- MCPrograms
  InitialRegs <- MCInitialRegs
  InitialMemory <- MCInitialMemory
INVARIANT TypeOK LatchesMatchProgram OperandsCurrent StoreDataCurrent BranchOperandsCurrent
PROPERTY Implements
