--------------------------- MODULE MCPipelineClock ---------------------------
(***************************************************************************)
(* The clock of PipelinedCPU on every program of three instructions that   *)
(* only branch forward, hazard-free or not.                                *)
(***************************************************************************)
EXTENDS PipelinedCPU

Word5(n) == ImmediateWord(n)

MCInitialRegs ==
  {[r \in Registers |-> CASE r = 2 -> Word5(10)
                          [] r = 8 -> Word5(4)
                          [] r = 9 -> Word5(8)
                          [] OTHER -> Zero]}

MCInitialMemory == {[i \in 0 .. 3 |-> Word5(4 * (3 - i))]}

\* The last one is MULT, which execute_ID() does not implement.
ForwardAlphabet ==
  {ADD(8, 9, 8), ADDI(0, 8, 4), LW(8, 9, 0), LW(9, 8, 4), LW(8, 8, 0),
   SW(8, 9, 0), SW(9, 8, -4), BEQ(8, 9, 1), BNE(9, 8, 0), J(3), NOP,
   R_FORMAT(24, 8, 9, 0, 0)}

ForwardPrograms == {Append(q, SYSCALL) : q \in [1 .. 3 -> ForwardAlphabet]}
=============================================================================
