SPECIFICATION HSpec
CONSTANTS
  W = 5
  Length = 1
  CodeOffset = 0
  NoInstruction = NoInstruction
  Programs <- LoadedBasePrograms
  InitialRegs <- MCInitialRegs
  InitialMemory <- MCInitialMemory
INVARIANT OperandsCurrent
