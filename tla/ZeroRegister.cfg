SPECIFICATION Spec
CONSTANTS
  W = 6
  Programs <- ZeroWritePrograms
  InitialRegs <- MCInitialRegs
  InitialMemory <- MCInitialMemory
INVARIANT ZeroRegisterIsZero
