--------------------------- MODULE MCPipelineWide ---------------------------
(***************************************************************************)
(* PipelineHistory with words of 32 bits: every instruction execute_ID()   *)
(* recognizes, of the shifts only NOP (HazardFree excludes the others),    *)
(* with immediates and register values at the limits of their types, in    *)
(* pairs.  The code is placed so that the address of the instruction after *)
(* a jump has other upper bits than the jump's own.                        *)
(***************************************************************************)
EXTENDS PipelineHistory

Min32 == {31}
Max32 == 0 .. 30
Minus1 == 0 .. 31

MCInitialRegs ==
  {[r \in Registers |-> CASE r = 2 -> ImmediateWord(10)
                          [] r = 8 -> v
                          [] r = 9 -> Minus1
                          [] OTHER -> Zero] : v \in {Min32, Max32, ImmediateWord(5)}}

MCInitialMemory == {[i \in 0 .. 1 |-> Max32]}

Funct(n) == R_FORMAT(n, 8, 9, 10, 0)

Alphabet ==
  {Funct(n) : n \in (32 .. 39) \cup {42}}
  \cup {I_FORMAT(n, 8, 8, imm) : n \in {8, 9, 10, 12, 13}, imm \in {-32768, 32767}}
  \cup {LUI(9, -1), LUI(8, 32767), LW(9, 0, 4), SW(8, 0, 4), SW(10, 9, 1), NOP,
        J(67108863), J(1), BEQ(10, 11, 1), BNE(8, 9, 1)}

MCPrograms ==
  {p : p \in {q \in {<<a, b, SYSCALL>> : a \in Alphabet, b \in Alphabet} : HazardFree(q)}}
=============================================================================
