SPECIFICATION Spec
CONSTANTS
  W = 6
  Programs <- MCPrograms
  InitialRegs <- MCInitialRegs
  InitialMemory <- MCInitialMemory
INVARIANT TypeOK PCAligned
PROPERTY Implements
