---------------------------- MODULE SelectedTasks ----------------------------
(***************************************************************************)
(* asm1.s: four tasks on the words alpha, bravo, charlie and delta of the  *)
(* test, each of them done if its flag is 1.  Of the strings only LESS and *)
(* MORE are kept.                                                          *)
(***************************************************************************)
EXTENDS FunctionCall

CONSTANTS
  Triples,   \* the values of alpha, bravo and charlie
  Flags      \* the values of the flags

ASSUME TriplesAssumption == Triples \subseteq [1 .. 3 -> Int]

\* The labels of asm1.s.
studentMain == Line(1, 14)
LOOP_START == Line(1, 47)
CONTINUE == Line(1, 60)
CONTINUE_AGAIN == Line(1, 71)
JUMP_SORT == Line(1, 108)
JUMP_COMPARE == Line(1, 141)
JUMP_SWAP == Line(1, 180)
JUMP_PRINT == Line(1, 232)

\* The strings LESS and MORE on the console.
LESS == -1001
MORE == -1002

\* The frame pointer, in relation to the stack pointer of the function.
FrameTop == 20

\* The frame has room for 24 bytes, of which two words are used.
StudentMain ==
  /\ pc = studentMain
  /\ stack' = Pushed(<<regs.fp, regs.ra, Junk, Junk, Junk, Junk>>)
  /\ regs' = [regs EXCEPT !.fp = FrameTop,
       !.t2 = memory.compare, !.t3 = memory.swap, !.t4 = memory.print,
       !.t5 = memory.alpha, !.t6 = memory.bravo, !.t7 = memory.charlie, !.t9 = 1]
  /\ pc' = IF memory.sort = 1 THEN LOOP_START ELSE JUMP_SORT
  /\ UNCHANGED <<memory, console, before>>

-----------------------------------------------------------------------------
(* sort: $t5, $t6 and $t7 hold the values, $t9 counts the exchanges *)

ComparePair ==
  /\ pc = LOOP_START
  /\ regs' = IF regs.t6 < regs.t5
             THEN [regs EXCEPT !.t5 = regs.t6, !.t6 = regs.t5, !.t9 = 1]
             ELSE [regs EXCEPT !.t9 = 0]
  /\ pc' = CONTINUE
  /\ UNCHANGED <<stack, memory, console, before>>

\* Seeded fault: the last two values are never exchanged.
NeverExchanged == FALSE

\* They are exchanged unless the first is less: if they are equal, too.
Exchanged == ~ regs.t6 < regs.t7

CompareLastPair ==
  /\ pc = CONTINUE
  /\ regs' = IF Exchanged
             THEN [regs EXCEPT !.t6 = regs.t7, !.t7 = regs.t6, !.t9 = regs.t9 + 1]
             ELSE regs
  /\ pc' = CONTINUE_AGAIN
  /\ UNCHANGED <<stack, memory, console, before>>

SortAgain ==
  /\ pc = CONTINUE_AGAIN /\ regs.t9 # 0
  /\ pc' = LOOP_START
  /\ UNCHANGED <<regs, stack, memory, console, before>>

SortFinished ==
  /\ pc = CONTINUE_AGAIN /\ regs.t9 = 0
  /\ console' = console \o <<regs.t5, regs.t6, regs.t7>>
  /\ pc' = JUMP_SORT
  /\ UNCHANGED <<regs, stack, memory, before>>

-----------------------------------------------------------------------------
(* compare, swap, print: the values are read from the memory again *)

\* With equal values control falls through to PRINT_LESS.
CompareValues ==
  /\ pc = JUMP_SORT
  /\ console' = IF regs.t2 # 1 THEN console
                ELSE Append(console, IF memory.charlie < memory.bravo THEN MORE ELSE LESS)
  /\ pc' = JUMP_COMPARE
  /\ UNCHANGED <<regs, stack, memory, before>>

SwapValues ==
  /\ pc = JUMP_COMPARE
  /\ memory' = IF regs.t3 # 1 THEN memory
               ELSE [memory EXCEPT !.alpha = memory.bravo, !.bravo = memory.alpha,
                                   !.charlie = memory.delta, !.delta = memory.charlie]
  /\ pc' = JUMP_SWAP
  /\ UNCHANGED <<regs, stack, console, before>>

PrintValues ==
  /\ pc = JUMP_SWAP
  /\ console' = IF regs.t4 # 1 THEN console
                ELSE console \o <<memory.alpha, memory.bravo, memory.charlie, memory.delta>>
  /\ pc' = JUMP_PRINT
  /\ UNCHANGED <<regs, stack, memory, before>>

StudentMainReturns ==
  /\ pc = JUMP_PRINT
  /\ regs' = [regs EXCEPT !.ra = AtSP(4), !.fp = AtSP(0)]
  /\ stack' = Popped(24)
  /\ JrRa
  /\ UNCHANGED <<memory, console, before>>

-----------------------------------------------------------------------------
(* The calls *)

RegistersAsm1 ==
  [ra |-> Caller(1), fp |-> 7, t2 |-> Junk, t3 |-> Junk, t4 |-> Junk, t5 |-> Junk,
   t6 |-> Junk, t7 |-> Junk, t9 |-> Junk]

InitAsm1 ==
  \E t \in Triples, sort, compare, swap, print \in Flags :
    Called(studentMain, RegistersAsm1,
           [alpha |-> t[1], bravo |-> t[2], charlie |-> t[3], delta |-> 9,
            sort |-> sort, compare |-> compare, swap |-> swap, print |-> print])

CodeAsm1 ==
  \/ StudentMain \/ ComparePair \/ CompareLastPair \/ SortAgain \/ SortFinished
  \/ CompareValues \/ SwapValues \/ PrintValues \/ StudentMainReturns

-----------------------------------------------------------------------------
(* Properties *)

\* Whichever tasks are selected, those before a task leave it the values it is
\* about: the sort prints the values of the caller in order and exchanges
\* registers only, compare sees the unsorted and unexchanged words, print the
\* exchanged ones; and the caller gets its stack and frame pointer back.
TasksIndependent ==
  LET m == before.memory
      printed(flag, numbers) == IF flag = 1 THEN numbers ELSE << >>
      three == <<m.alpha, m.bravo, m.charlie>>
      orders == {p \in [1 .. 3 -> 1 .. 3] : \A k, l \in 1 .. 3 : p[k] = p[l] => k = l}
      sorted == CHOOSE s \in {[k \in 1 .. 3 |-> three[p[k]]] : p \in orders} :
                  s[1] <= s[2] /\ s[2] <= s[3]
      four == IF m.swap = 1 THEN <<m.bravo, m.alpha, m.delta, m.charlie>>
                            ELSE three \o <<m.delta>>
  IN  pc = Caller(1) =>
        /\ console = printed(m.sort, sorted)
                     \o printed(m.compare, <<IF m.charlie < m.bravo THEN MORE ELSE LESS>>)
                     \o printed(m.print, four)
        /\ four = <<memory.alpha, memory.bravo, memory.charlie, memory.delta>>
        /\ GivenBack({"fp"})

\* "if no swaps happened ($t9 = 0), end loop" (asm1.s, line 73): the sort does
\* not go on for ever with values that are in order.
OrderedEnds ==
  pc = LOOP_START /\ regs.t5 <= regs.t6 /\ regs.t6 <= regs.t7 ~> pc = JUMP_SORT
=============================================================================
