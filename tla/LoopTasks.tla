------------------------------ MODULE LoopTasks ------------------------------
(***************************************************************************)
(* asm2.s: five tasks selected by words of the test: Fibonacci numbers, a  *)
(* square of characters, whether an array ascends or descends, the number  *)
(* of words of a string, the string reversed.  Of the constant strings only*)
(* ASCENDING, DESCENDING and NEITHER are kept, and the ends of the lines   *)
(* of the square.                                                          *)
(***************************************************************************)
EXTENDS FunctionCall, FiniteSets

CONSTANTS
  Largest,   \* the largest number: 2^31 - 1
  Inputs     \* the data of the test

\* The words of the test, an array of length items, and a string ended by a 0.
IsTaskData(m) ==
  LET end == Cardinality(DOMAIN m.str) - 1
  IN  /\ end \in Nat
      /\ m \in [fib : Int, square : Int, size : Int, fill : Int, lr : Int, mid : Int,
                runCheck : Int, length : Nat, items : [0 .. m.length - 1 -> Int],
                countWords : Int, revString : Int, str : [0 .. end -> Int]]
      /\ \A i \in 0 .. end : m.str[i] = 0 <=> i = end

ASSUME LargestAssumption == Largest \in Nat
ASSUME InputsAssumption == \A m \in Inputs : IsTaskData(m)

\* The labels of asm2.s.
studentMain2 == Line(2, 21)
LOOP == Line(2, 64)
AFTER_FIB == Line(2, 111)
LOOPTWO == Line(2, 146)
LOOP_SQUARE == Line(2, 216)
AFTER_COMPARE == Line(2, 231)
AFTER_SQUARE == Line(2, 250)
LOOP_RUNCHECK == Line(2, 301)
EXIT_LOOP_RUNCHECK == Line(2, 335)
AFTER_RUN_CHECK == Line(2, 394)
LOOP_COUNTWORDS == Line(2, 426)
AFTER_COUNT_WORDS == Line(2, 472)
LOOP_FIND_TAIL == Line(2, 511)
LOOP_SWAP_CHARS == Line(2, 524)
AFTER_REVSTRING == Line(2, 553)

\* Where the simulator stops after an arithmetic exception.
Trapped == Line(2, 999)

\* The strings ASCENDING, DESCENDING and NEITHER on the console.
ASCENDING == -2001
DESCENDING == -2002
NEITHER == -2003

Newline == 10
Space == 32

\* The frame has room for 24 bytes; $fp gets $sp + 20.
StudentMain2 ==
  /\ pc = studentMain2
  /\ stack' = Pushed(<<regs.fp, regs.ra, Junk, Junk, Junk, Junk>>)
  /\ regs' = [regs EXCEPT !.fp = 20, !.s1 = memory.fib, !.t1 = 1, !.t2 = 1, !.t3 = 2]
  /\ IF memory.fib = 0 THEN pc' = AFTER_FIB /\ UNCHANGED console
                       ELSE pc' = LOOP /\ console' = console \o <<0, 1, 1, 1>>
  /\ UNCHANGED <<memory, before>>

-----------------------------------------------------------------------------
(* Fibonacci: $s1 is fib, $t1 is prev, $t2 beforeThat, $t3 is n *)

NextFibonacci ==
  /\ pc = LOOP /\ regs.s1 >= regs.t3 /\ regs.t1 + regs.t2 <= Largest
  /\ console' = console \o <<regs.t3, regs.t1 + regs.t2>>
  /\ regs' = [regs EXCEPT !.t1 = regs.t1 + regs.t2, !.t2 = regs.t1, !.t3 = regs.t3 + 1]
  /\ UNCHANGED <<pc, stack, memory, before>>

\* add traps on overflow.
FibonacciTraps ==
  /\ pc = LOOP /\ regs.s1 >= regs.t3 /\ regs.t1 + regs.t2 > Largest
  /\ pc' = Trapped
  /\ UNCHANGED <<regs, stack, memory, console, before>>

FibonacciDone ==
  /\ pc = LOOP /\ regs.s1 < regs.t3
  /\ pc' = AFTER_FIB
  /\ UNCHANGED <<regs, stack, memory, console, before>>

-----------------------------------------------------------------------------
(* Square: $s3 is square_fill, $s4 square_size, $t9 is row, $t5 is i; lr and *)
(* mid are bytes of the memory, loaded into $t1 and $t2                      *)

StartSquare ==
  /\ pc = AFTER_FIB
  /\ regs' = [regs EXCEPT !.s3 = memory.fill, !.s4 = memory.size, !.t9 = 0]
  /\ pc' = IF memory.square = 0 THEN AFTER_SQUARE ELSE LOOPTWO
  /\ UNCHANGED <<stack, memory, console, before>>

StartRow ==
  /\ pc = LOOPTWO /\ regs.t9 < regs.s4
  /\ LET edge == regs.t9 = 0 \/ regs.t9 = regs.s4 - 1
         lr == IF edge THEN 43 ELSE 124
         mid == IF edge THEN 45 ELSE regs.s3
     IN  /\ memory' = [memory EXCEPT !.lr = lr, !.mid = mid]
         /\ regs' = [regs EXCEPT !.t1 = lr, !.t2 = mid, !.t3 = regs.s4 - 1, !.t5 = 1]
         /\ IF regs.s4 > 1 THEN pc' = LOOP_SQUARE /\ console' = Append(console, lr)
                           ELSE pc' = AFTER_COMPARE /\ UNCHANGED console
  /\ UNCHANGED <<stack, before>>

RowItem ==
  /\ pc = LOOP_SQUARE /\ regs.t5 < regs.t3
  /\ console' = Append(console, regs.t2)
  /\ regs' = [regs EXCEPT !.t5 = regs.t5 + 1]
  /\ UNCHANGED <<pc, stack, memory, before>>

\* From the loop, or past it.
EndRow ==
  /\ \/ pc = LOOP_SQUARE /\ regs.t5 >= regs.t3
     \/ pc = AFTER_COMPARE
  /\ console' = console \o <<regs.t1, Newline>>
  /\ regs' = [regs EXCEPT !.t9 = regs.t9 + 1]
  /\ pc' = LOOPTWO
  /\ UNCHANGED <<stack, memory, before>>

SquareDone ==
  /\ pc = LOOPTWO /\ regs.t9 >= regs.s4
  /\ pc' = AFTER_SQUARE
  /\ UNCHANGED <<regs, stack, memory, console, before>>

-----------------------------------------------------------------------------
(* Run check: $t9 is the length less one, $t1 is i, $t3 counts the pairs     *)
(* that descend and $t4 those that ascend                                    *)

StartRunCheck ==
  /\ pc = AFTER_SQUARE
  /\ regs' = [regs EXCEPT !.t9 = memory.length - 1, !.t1 = 0, !.t3 = 0, !.t4 = 0]
  /\ pc' = IF memory.runCheck # 1 THEN AFTER_RUN_CHECK
           ELSE IF memory.length < 2 THEN EXIT_LOOP_RUNCHECK ELSE LOOP_RUNCHECK
  /\ UNCHANGED <<stack, memory, console, before>>

ComparePairOfRun ==
  /\ pc = LOOP_RUNCHECK /\ regs.t1 < regs.t9
  /\ LET current == memory.items[regs.t1]
         next == memory.items[regs.t1 + 1]
     IN  regs' = [regs EXCEPT !.t3 = IF next < current THEN regs.t3 + 1 ELSE regs.t3,
                              !.t4 = IF current < next THEN regs.t4 + 1 ELSE regs.t4,
                              !.t1 = regs.t1 + 1]
  /\ UNCHANGED <<pc, stack, memory, console, before>>

RunCompared ==
  /\ pc = LOOP_RUNCHECK /\ regs.t1 >= regs.t9
  /\ pc' = EXIT_LOOP_RUNCHECK
  /\ UNCHANGED <<regs, stack, memory, console, before>>

\* An array of equal items, or of fewer than two, ascends and descends.
PrintRun ==
  /\ pc = EXIT_LOOP_RUNCHECK
  /\ console' = console \o (CASE regs.t3 = 0 /\ regs.t4 = 0 -> <<ASCENDING, DESCENDING>>
                              [] regs.t3 = 0 /\ regs.t4 # 0 -> <<ASCENDING>>
                              [] regs.t3 # 0 /\ regs.t4 = 0 -> <<DESCENDING>>
                              [] OTHER -> <<NEITHER>>)
  /\ pc' = AFTER_RUN_CHECK
  /\ UNCHANGED <<regs, stack, memory, before>>

-----------------------------------------------------------------------------
(* Count words: $t0 counts, $t2 is the address, $t5 is 1 inside a word *)

StartCount ==
  /\ pc = AFTER_RUN_CHECK
  /\ regs' = [regs EXCEPT !.t0 = 0, !.t2 = 0, !.t5 = 0]
  /\ pc' = IF memory.countWords = 1 THEN LOOP_COUNTWORDS ELSE AFTER_COUNT_WORDS
  /\ UNCHANGED <<stack, memory, console, before>>

CountByte ==
  /\ pc = LOOP_COUNTWORDS /\ memory.str[regs.t2] # 0
  /\ regs' = IF memory.str[regs.t2] \in {Space, Newline}
             THEN [regs EXCEPT !.t5 = 0, !.t2 = regs.t2 + 1]
             ELSE [regs EXCEPT !.t0 = IF regs.t5 = 0 THEN regs.t0 + 1 ELSE regs.t0,
                               !.t5 = 1, !.t2 = regs.t2 + 1]
  /\ UNCHANGED <<pc, stack, memory, console, before>>

PrintCount ==
  /\ pc = LOOP_COUNTWORDS /\ memory.str[regs.t2] = 0
  /\ console' = Append(console, regs.t0)
  /\ pc' = AFTER_COUNT_WORDS
  /\ UNCHANGED <<regs, stack, memory, before>>

-----------------------------------------------------------------------------
(* Reverse string: $t1 is head, $t2 is tail *)

StartReverse ==
  /\ pc = AFTER_COUNT_WORDS
  /\ IF memory.revString # 1 THEN pc' = AFTER_REVSTRING /\ UNCHANGED regs
     ELSE pc' = LOOP_FIND_TAIL /\ regs' = [regs EXCEPT !.t1 = 0, !.t2 = 0]
  /\ UNCHANGED <<stack, memory, console, before>>

FindTail ==
  /\ pc = LOOP_FIND_TAIL /\ memory.str[regs.t2] # 0
  /\ regs' = [regs EXCEPT !.t2 = regs.t2 + 1]
  /\ UNCHANGED <<pc, stack, memory, console, before>>

\* Seeded fault: tail is not decremented, so that the 0 is swapped, too.
AtTheZero(tail) == tail

\* addi $t2, $t2, -1: the last character, or -1.
LastCharacter(tail) == tail - 1

TailFound ==
  /\ pc = LOOP_FIND_TAIL /\ memory.str[regs.t2] = 0
  /\ regs' = [regs EXCEPT !.t2 = LastCharacter(regs.t2)]
  /\ pc' = LOOP_SWAP_CHARS
  /\ UNCHANGED <<stack, memory, console, before>>

SwapCharacters ==
  /\ pc = LOOP_SWAP_CHARS /\ regs.t1 < regs.t2
  /\ memory' = [memory EXCEPT !.str[regs.t1] = memory.str[regs.t2],
                              !.str[regs.t2] = memory.str[regs.t1]]
  /\ regs' = [regs EXCEPT !.t1 = regs.t1 + 1, !.t2 = regs.t2 - 1]
  /\ UNCHANGED <<pc, stack, console, before>>

SwapDone ==
  /\ pc = LOOP_SWAP_CHARS /\ regs.t1 >= regs.t2
  /\ pc' = AFTER_REVSTRING
  /\ UNCHANGED <<regs, stack, memory, console, before>>

StudentMain2Returns ==
  /\ pc = AFTER_REVSTRING
  /\ regs' = [regs EXCEPT !.ra = AtSP(4), !.fp = AtSP(0)]
  /\ stack' = Popped(24)
  /\ JrRa
  /\ UNCHANGED <<memory, console, before>>

-----------------------------------------------------------------------------
(* The calls *)

RegistersAsm2 ==
  [ra |-> Caller(2), fp |-> 7, t0 |-> Junk, t1 |-> Junk, t2 |-> Junk, t3 |-> Junk,
   t4 |-> Junk, t5 |-> Junk, t9 |-> Junk, s1 |-> Junk, s3 |-> Junk, s4 |-> Junk]

InitAsm2 == \E data \in Inputs : Called(studentMain2, RegistersAsm2, data)

CodeAsm2 ==
  \/ StudentMain2 \/ NextFibonacci \/ FibonacciTraps \/ FibonacciDone
  \/ StartSquare \/ StartRow \/ RowItem \/ EndRow \/ SquareDone
  \/ StartRunCheck \/ ComparePairOfRun \/ RunCompared \/ PrintRun
  \/ StartCount \/ CountByte \/ PrintCount
  \/ StartReverse \/ FindTail \/ TailFound \/ SwapCharacters \/ SwapDone
  \/ StudentMain2Returns

-----------------------------------------------------------------------------
(* Properties *)

\* The numbers 0 .. n of the Fibonacci sequence.
Fibonacci(n) ==
  LET f[k \in 0 .. n] == IF k < 2 THEN 1 ELSE f[k - 1] + f[k - 2] IN f
AtLeast(n, least) == IF n < least THEN least ELSE n

\* The tasks that are selected print, one after the other, what the test's data
\* asks for, whatever the tasks before them left in the registers they share;
\* only the string changes, by its reversal, and lr and mid; the caller gets its
\* stack and frame pointer back.  The simulator stops instead exactly if a
\* Fibonacci number that is asked for is too large.
TasksCorrect ==
  LET m == before.memory
      fib == Fibonacci(AtLeast(m.fib, 1))
      fibonacci == IF m.fib = 0 THEN << >>
                   ELSE [k \in 1 .. 2 * (AtLeast(m.fib, 1) + 1) |->
                           IF k % 2 = 1 THEN (k - 1) \div 2 ELSE fib[(k - 2) \div 2]]
      character(row, column) ==
        IF row \in {1, m.size} THEN IF column \in {1, m.size} THEN 43 ELSE 45
                               ELSE IF column \in {1, m.size} THEN 124 ELSE m.fill
      square == IF m.square = 0 THEN << >>
                ELSE [k \in 1 .. AtLeast(m.size, 0) * (m.size + 1) |->
                        IF k % (m.size + 1) = 0 THEN Newline
                        ELSE character(((k - 1) \div (m.size + 1)) + 1, k % (m.size + 1))]
      pairs == 0 .. m.length - 2
      ascends == \A i \in pairs : m.items[i] <= m.items[i + 1]
      descends == \A i \in pairs : m.items[i] >= m.items[i + 1]
      run == IF m.runCheck # 1 THEN << >>
             ELSE (IF ascends THEN <<ASCENDING>> ELSE << >>)
                  \o (IF descends THEN <<DESCENDING>> ELSE << >>)
                  \o (IF ascends \/ descends THEN << >> ELSE <<NEITHER>>)
      inWord(i) == m.str[i] \notin {0, Space, Newline}
      words == {i \in DOMAIN m.str : inWord(i) /\ (i = 0 \/ ~ inWord(i - 1))}
      count == IF m.countWords = 1 THEN <<Cardinality(words)>> ELSE << >>
      last == Cardinality(DOMAIN m.str) - 2
      reversed == [i \in DOMAIN m.str |-> IF i <= last THEN m.str[last - i] ELSE 0]
  IN  /\ pc = Caller(2) =>
           /\ console = fibonacci \o square \o run \o count
           /\ memory = [m EXCEPT !.str = IF m.revString = 1 THEN reversed ELSE m.str,
                                 !.lr = memory.lr, !.mid = memory.mid]
           /\ GivenBack({"fp"})
           /\ m.fib >= 2 => fib[m.fib] <= Largest
      /\ pc = Trapped => m.fib >= 2 /\ fib[m.fib] > Largest
=============================================================================
