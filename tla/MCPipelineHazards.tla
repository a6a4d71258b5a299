-------------------------- MODULE MCPipelineHazards --------------------------
(***************************************************************************)
(* The programs HazardFree excludes, one family for each of its conditions *)
(* and each place where the code and its comments differ.                  *)
(***************************************************************************)
EXTENDS MCPipeline

\* A store whose address is the value just loaded.
LoadedBasePrograms == {<<LW(8, 9, 0), SW(10, 8, 0), SYSCALL>>}

\* A write to register 0, read by one of the next two instructions.
ZeroWritePrograms ==
  {<<ADDI(0, 8, 1), i, ADD(9, 0, 8), SYSCALL>> : i \in {NOP, ADD(10, 0, 8)}}

\* A shift by one.
ShiftPrograms == {<<SLL(9, 8, 1), SYSCALL>>}
=============================================================================
