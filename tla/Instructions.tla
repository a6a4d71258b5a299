---------------------------- MODULE Instructions ----------------------------
(***************************************************************************)
(* The instruction words of the simulated CPUs: the encoding macros of     *)
(* sim5_test_commonCode.h (the ones of sim4_test_commonCode.h are the      *)
(* same) and extract_instructionFields(), which takes a word apart.  An    *)
(* instruction word is a C int: a word with an opcode of 32 or more is     *)
(* negative.  Shifts and masks are multiplications, divisions and          *)
(* remainders by powers of two.                                            *)
(***************************************************************************)
EXTENDS Integers

\* The value the int gets when the six opcode bits reach bits 31..26.
SignedOpcode(opcode) == IF opcode < 32 THEN opcode ELSE opcode - 64

R_FORMAT_x(opcode, funct, rs, rt, rd, shamt) ==
  SignedOpcode(opcode) * 67108864 + (rs % 32) * 2097152 + (rt % 32) * 65536
    + (rd % 32) * 2048 + (shamt % 32) * 64 + (funct % 64)

R_FORMAT(funct, rs, rt, rd, shamt) == R_FORMAT_x(0, funct, rs, rt, rd, shamt)

I_FORMAT(opcode, rs, rt, imm16) ==
  SignedOpcode(opcode) * 67108864 + (rs % 32) * 2097152 + (rt % 32) * 65536
    + (imm16 % 65536)

J_FORMAT(opcode, addr26) ==
  SignedOpcode(opcode) * 67108864 + (addr26 % 67108864)

-----------------------------------------------------------------------------
(* The mnemonics. *)
NOP == 0
ADD(rd, rs, rt) == R_FORMAT(32, rs, rt, rd, 0)
ADDU(rd, rs, rt) == R_FORMAT(33, rs, rt, rd, 0)
SUB(rd, rs, rt) == R_FORMAT(34, rs, rt, rd, 0)
SUBU(rd, rs, rt) == R_FORMAT(35, rs, rt, rd, 0)
AND(rd, rs, rt) == R_FORMAT(36, rs, rt, rd, 0)
OR(rd, rs, rt) == R_FORMAT(37, rs, rt, rd, 0)
XOR(rd, rs, rt) == R_FORMAT(38, rs, rt, rd, 0)
NOR(rd, rs, rt) == R_FORMAT(39, rs, rt, rd, 0)
SLT(rd, rs, rt) == R_FORMAT(42, rs, rt, rd, 0)
SLL(rd, rt, shamt) == R_FORMAT(0, 0, rt, rd, shamt)
ADDI(rt, rs, imm16) == I_FORMAT(8, rs, rt, imm16)
ADDIU(rt, rs, imm16) == I_FORMAT(9, rs, rt, imm16)
SLTI(rt, rs, imm16) == I_FORMAT(10, rs, rt, imm16)
ANDI(rt, rs, imm16) == I_FORMAT(12, rs, rt, imm16)
ORI(rt, rs, imm16) == I_FORMAT(13, rs, rt, imm16)
LUI(rt, imm16) == I_FORMAT(15, 0, rt, imm16)
LW(rt, rs, imm16) == I_FORMAT(35, rs, rt, imm16)
SW(rt, rs, imm16) == I_FORMAT(43, rs, rt, imm16)
BEQ(rs, rt, imm16) == I_FORMAT(4, rs, rt, imm16)
BNE(rs, rt, imm16) == I_FORMAT(5, rs, rt, imm16)
J(address) == J_FORMAT(2, address)
SYSCALL == R_FORMAT(12, 0, 0, 0, 0)

-----------------------------------------------------------------------------
RegNumber == 0 .. 31

\* The fields of a word; the ones that select something have exact ranges.
InstructionFields ==
  [opcode : 0 .. 63, rs : RegNumber, rt : RegNumber, rd : RegNumber,
   shamt : 0 .. 31, funct : 0 .. 63, imm16 : Nat, imm32 : Int, address : Nat]

\* "if (fieldsOut->imm16 & 0x8000)": bits 31..16 of imm32 repeat bit 15.
SignExtend16(imm16) == IF imm16 >= 32768 THEN imm16 - 65536 ELSE imm16

extract_instructionFields(instruction) ==
  [opcode  |-> (instruction \div 67108864) % 64,
   rs      |-> (instruction \div 2097152) % 32,
   rt      |-> (instruction \div 65536) % 32,
   rd      |-> (instruction \div 2048) % 32,
   shamt   |-> (instruction \div 64) % 32,
   funct   |-> instruction % 64,
   imm16   |-> instruction % 65536,
   imm32   |-> SignExtend16(instruction % 65536),
   address |-> instruction % 67108864]
=============================================================================
