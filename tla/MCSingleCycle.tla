---------------------------- MODULE MCSingleCycle ----------------------------
(***************************************************************************)
(* SingleCycleCPU on all programs of three instructions over two           *)
(* alphabets: one with loops and arithmetic, one with system calls and     *)
(* only forward branches, so that what is printed stays finite.            *)
(***************************************************************************)
EXTENDS SingleCycleCPU

Word6(n) == ImmediateWord(n)

MCInitialRegs ==
  {[r \in Registers |-> CASE r = 2 -> Word6(10)
                          [] r = 4 -> Word6(7)
                          [] r = 8 -> Word6(4)
                          [] r = 9 -> Word6(8)
                          [] r = 10 -> Word6(-3)
                          [] OTHER -> Zero]}

MCInitialMemory == {[i \in 0 .. 3 |-> Word6(4 * (3 - i))]}

\* ORI is an instruction sim4.c does not implement; J(1) and J(2) can jump
\* to themselves.
LoopAlphabet ==
  {ADD(8, 9, 10), ADDU(9, 10, 8), SUB(9, 8, 10), SUBU(10, 9, 8),
   AND(10, 8, 9), OR(8, 9, 10), XOR(9, 9, 8), NOR(10, 8, 9), SLT(10, 8, 9),
   SLL(9, 8, 2), ADDI(8, 8, -4), ADDIU(10, 8, -3), SLTI(10, 9, -3),
   LW(8, 9, 0), LW(9, 8, 4), SW(9, 8, -4), SW(8, 10, 3),
   BEQ(8, 9, 1), BNE(9, 8, -2), J(1), J(2), NOP, ORI(8, 9, 3)}

CallAlphabet ==
  {SYSCALL, ADDI(2, 0, 1), ADDI(2, 0, 4), ADDI(2, 2, 1), LW(4, 8, 0),
   SW(4, 9, -8), BEQ(2, 8, 1)}

ThreeOf(alphabet) == {Append(p, SYSCALL) : p \in [1 .. 3 -> alphabet]}

CallPrograms == {p \o <<ADDI(2, 0, 10), SYSCALL>> : p \in ThreeOf(CallAlphabet)}

MCPrograms ==
  {p : p \in {q \in ThreeOf(LoopAlphabet) \cup CallPrograms : NoZeroWrites(q)}}

\* For the $zero check of the harness: a program that names $zero as the
\* destination of an addition.
ZeroWritePrograms == {<<ADDI(0, 8, 1), SYSCALL>>}
=============================================================================
