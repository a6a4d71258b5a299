----------------------------- MODULE MCAssembly -----------------------------
(***************************************************************************)
(* The assembly programs asm1.s, asm2.s, asm3.s, asm5.s and asm6.s, one of *)
(* which is run, and the values for model checking them.                   *)
(***************************************************************************)
EXTENDS SelectedTasks, LoopTasks, StackArguments, StackBuffers, Sorting

CONSTANT Files   \* the files that may be run

vars == <<call, below, buffer, clock>>

Init ==
  \/ 1 \in Files /\ InitAsm1 /\ below = << >> /\ buffer = << >> /\ clock = 0
  \/ 2 \in Files /\ InitAsm2 /\ below = << >> /\ buffer = << >> /\ clock = 0
  \/ 3 \in Files /\ InitAsm3 /\ buffer = << >> /\ clock = 0
  \/ 5 \in Files /\ InitAsm5 /\ below = << >> /\ clock = 0
  \/ 6 \in Files /\ InitAsm6 /\ below = << >> /\ buffer = << >>

Code ==
  \/ CodeAsm1 /\ UNCHANGED <<below, buffer, clock>>
  \/ CodeAsm2 /\ UNCHANGED <<below, buffer, clock>>
  \/ CodeAsm3 /\ UNCHANGED <<buffer, clock>>
  \/ CodeAsm5 /\ UNCHANGED <<below, clock>>
  \/ CodeAsm6 /\ UNCHANGED <<below, buffer>>

\* The processor goes on executing.
Spec == Init /\ [][Code]_vars /\ WF_vars(Code)

\* Every function returns to its caller, and the program exits or is stopped.
Ends == <>(pc \in {Caller(n) : n \in 1 .. 6} \cup {Exit, Trapped})

-----------------------------------------------------------------------------
(* Values *)

AroundZero == -1 .. 2
Arguments == -1 .. 7

\* The values for which the sort of asm1.s ends: the largest occurs once.
AllTriples == [1 .. 3 -> AroundZero]
LargestOnce ==
  {t \in AllTriples : \E k \in 1 .. 3 : \A l \in 1 .. 3 : l # k => t[l] < t[k]}

\* The data of asm2.s: one task after the other gets all its values, the others
\* one of theirs; then the tasks are selected in all combinations.
TaskData ==
  [fib |-> 3, square |-> 1, size |-> 2, fill |-> 46, lr |-> 0, mid |-> 0,
   runCheck |-> 1, length |-> 2, items |-> [i \in 0 .. 1 |-> i],
   countWords |-> 1, revString |-> 1, str |-> [i \in 0 .. 1 |-> IF i = 0 THEN 97 ELSE 0]]
AllData ==
  LET flag == {0, 1, 2}
  IN  {[TaskData EXCEPT !.fib = n] : n \in -1 .. 7}
      \cup {[TaskData EXCEPT !.size = n] : n \in -1 .. 5}
      \cup UNION {{[TaskData EXCEPT !.length = n, !.items = a] :
                     a \in [0 .. n - 1 -> 1 .. 3]} : n \in 0 .. 4}
      \cup UNION {{[TaskData EXCEPT !.str = s] :
                     s \in StringOf({10, 32, 97, 98}, n)} : n \in 0 .. 4}
      \cup {[TaskData EXCEPT !.fib = f, !.square = s, !.runCheck = r, !.countWords = w,
                             !.revString = v] : f, s, r, w, v \in flag}

\* Two characters, which the map exchanges.
Exchange == [c \in {1, 2} |-> 3 - c]

\* The program starts with all registers 0; its exported functions may be
\* called by code that has a different number in each of the $s registers, the
\* index i in $s2.
ZeroRegisters == [s0 |-> 0, s1 |-> 0, s2 |-> 0, s3 |-> 0, s4 |-> 0]
UsedRegisters(i) == [s0 |-> 70, s1 |-> 71, s2 |-> i, s3 |-> 73, s4 |-> 74]
ProgramOrSorter ==
  {[at |-> main, saved |-> ZeroRegisters], [at |-> mainSelection.line, saved |-> UsedRegisters(72)]}
  \cup {[at |-> mainInsertion.line, saved |-> UsedRegisters(i)] : i \in {-1, 0, 1, 4}}
=============================================================================
