CONSTANT W = 3
SPECIFICATION Spec
INVARIANTS
  NoException
  AddersCorrect
  StructCorrect
  ALUCorrect
  LessUpToOverflow
