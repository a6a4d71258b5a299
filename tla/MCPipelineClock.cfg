SPECIFICATION Spec
CONSTANTS
  W = 5
  CodeOffset = 0
  Programs <- ForwardPrograms
  InitialRegs <- MCInitialRegs
  InitialMemory <- MCInitialMemory
PROPERTY StallEnds Terminates
