SPECIFICATION HSpec
CONSTANTS
  W = 5
  Length = 1
  CodeOffset = 0
  NoInstruction = NoInstruction
  Programs <- ShiftPrograms
  InitialRegs <- MCInitialRegs
  InitialMemory <- MCInitialMemory
INVARIANT ShiftsByShamt
