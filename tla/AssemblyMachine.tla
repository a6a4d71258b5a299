--------------------------- MODULE AssemblyMachine ---------------------------
(***************************************************************************)
(* What the assembly programs run on (the MARS simulator, which is not     *)
(* part of the sources): registers, a stack, memory, a console.  One       *)
(* action of a program is a stretch of instructions between labels,        *)
(* branches and calls.                                                     *)
(***************************************************************************)
EXTENDS Integers, Sequences

VARIABLES
  pc,        \* the address of the code to be executed
  regs,      \* the registers that a later stretch can read
  stack,     \* the words from $sp upwards
  memory,    \* the program's data
  console    \* the numbers printed

machine == <<pc, regs, stack, memory, console>>

\* A code address: line n of asm<file>.s.
Line(file, n) == 1000 * file + n
Running(file) == pc \div 1000 = file

\* The code that calls the functions of a file: a test, or the simulator.
Caller(file) == Line(file, 0)

\* What a register or a word holds that the program has not set.
Junk == -99

\* addi $sp, $sp, -4n and n stores: words[k] goes to 4(k-1)($sp).
Pushed(words) == words \o stack
\* The word at offset($sp), and a store to it.
AtSP(offset) == stack[offset \div 4 + 1]
Stored(offset, word) == [stack EXCEPT ![offset \div 4 + 1] = word]
\* addi $sp, $sp, bytes.
Popped(bytes) == SubSeq(stack, bytes \div 4 + 1, Len(stack))

\* jal with the arguments in the registers, and jr $ra.
Jal(function, returnTo, registers) ==
  pc' = function /\ regs' = [registers EXCEPT !.ra = returnTo]
JrRa == pc' = regs'.ra
=============================================================================
