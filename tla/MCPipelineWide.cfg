SPECIFICATION HSpec
CONSTANTS
  W = 32
  CodeOffset = 268435452
  NoInstruction = NoInstruction
  Programs <- MCPrograms
  InitialRegs <- MCInitialRegs
  InitialMemory <- MCInitialMemory
PROPERTY Implements
