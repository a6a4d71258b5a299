----------------------------- MODULE MCPipeline -----------------------------
(***************************************************************************)
(* PipelineHistory on every hazard-free program of a given length over an  *)
(* alphabet of instructions that meet each other in every order: producers *)
(* and consumers of three registers, loads and stores whose addresses and  *)
(* data are computed, branches and a jump in both directions.              *)
(***************************************************************************)
EXTENDS PipelineHistory

CONSTANT Length      \* instructions before the final SYSCALL

Word5(n) == ImmediateWord(n)

\* $2 holds the number of the exit call, as it must when SYSCALL is reached.
MCInitialRegs ==
  {[r \in Registers |-> CASE r = 2 -> Word5(10)
                          [] r = 8 -> Word5(4)
                          [] r = 9 -> Word5(8)
                          [] r = 10 -> Word5(-3)
                          [] OTHER -> Zero]}

MCInitialMemory == {[i \in 0 .. 3 |-> Word5(4 * (3 - i))]}

\* MULT, which execute_ID() does not implement.
Unknown == R_FORMAT(24, 8, 9, 0, 0)

Alphabet ==
  {ADD(8, 9, 10), ADDI(9, 9, 4), LW(8, 9, 0), LW(9, 8, 4), SW(8, 9, 0), SW(9, 8, -4),
   BEQ(8, 9, 1), BNE(9, 10, -2), J(2), NOP, Unknown}

AllPrograms == {Append(q, SYSCALL) : q \in [1 .. Length -> Alphabet]}

\* The image of the filtered set, which TLC then holds as an enumerated set.
MCPrograms == {p : p \in {q \in AllPrograms : HazardFree(q)}}

-----------------------------------------------------------------------------
(* What the models of the pipeline and of MipsISA are built on. *)

\* The operators on words are arithmetic modulo 2^W in two's complement.
Wrapped(n) == CHOOSE a \in WORD : (Value(a) - n) % (2^W) = 0

ASSUME WordArithmetic ==
  \A a, b \in WORD :
    /\ Plus(a, b) = Wrapped(Value(a) + Value(b))
    /\ Minus(a, b) = Wrapped(Value(a) - Value(b))
    /\ SignedLess(a, b) <=> Value(a) < Value(b)
    /\ BitNot(a) = Wrapped(- Value(a) - 1)
    /\ \A n \in 0 .. W : ShiftLeft(a, n) = Wrapped(Value(a) * 2^n)

\* extract_instructionFields() undoes the encoding macros.
ASSUME FieldsOfEncodings ==
  \A opcode \in {0, 2, 31, 32, 43, 63}, r \in {0, 1, 31},
     n \in {-32768, -1, 0, 32767} :
    /\ LET f == extract_instructionFields(I_FORMAT(opcode, r, 31 - r, n))
       IN  <<f.opcode, f.rs, f.rt, f.imm16, f.imm32>> =
             <<opcode, r, 31 - r, n % 65536, n>>
    /\ LET f == extract_instructionFields(R_FORMAT_x(opcode, 42, r, 31 - r, 31, r))
       IN  <<f.opcode, f.funct, f.rs, f.rt, f.rd, f.shamt>> =
             <<opcode, 42, r, 31 - r, 31, r>>
    /\ LET f == extract_instructionFields(J_FORMAT(opcode, 67108863 - r))
       IN  <<f.opcode, f.address>> = <<opcode, 67108863 - r>>

\* Each condition of HazardFree turns away the programs it is there for: a
\* result for register 0, a shift, a store at a loaded address, a branch on
\* the result of one of the two instructions before it.
ASSUME HazardsAreExcluded ==
  /\ \A p \in {<<ADDI(0, 8, 1), SYSCALL>>, <<LW(0, 8, 0), SYSCALL>>, <<ADD(0, 8, 9), SYSCALL>>} :
       ~ NoZeroWrites(p)
  /\ ~ NoShifts(<<SLL(9, 8, 1), SYSCALL>>)
  /\ ~ NoLoadedStoreBase(<<LW(8, 9, 0), SW(10, 8, 0), SYSCALL>>)
  /\ ~ SettledBranches(<<ADD(8, 9, 10), BEQ(8, 9, 0), SYSCALL>>)
  /\ ~ SettledBranches(<<ADD(8, 9, 10), NOP, BNE(9, 8, 0), SYSCALL>>)
  /\ HazardFree(<<ADD(8, 9, 10), SW(8, 9, 0), LW(8, 9, 0), BNE(9, 8, 0), NOP, SYSCALL>>)
=============================================================================
