---------------------------- MODULE FunctionCall ----------------------------
(***************************************************************************)
(* One call of a function of an assembly file: what the machine was like   *)
(* at the call, for the properties that compare it with the return.        *)
(***************************************************************************)
EXTENDS AssemblyMachine

VARIABLE before   \* pc, registers and memory at the call

call == <<machine, before>>

\* The stack is the calling function's, and so are the $s registers.
GivenBack(saved) ==
  stack = << >> /\ \A r \in saved : regs[r] = before.regs[r]

\* A function of a file is called, with an empty stack of its own.
Called(function, registers, data) ==
  /\ pc = function /\ regs = registers /\ memory = data
  /\ stack = << >> /\ console = << >>
  /\ before = [pc |-> function, regs |-> registers, memory |-> data]
=============================================================================
