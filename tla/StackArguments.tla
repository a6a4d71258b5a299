--------------------------- MODULE StackArguments ---------------------------
(***************************************************************************)
(* asm3.s: strlen, gcf, bottles, longestSorted, rotateShort, rotateLong.   *)
(* rotateShort and rotateLong call functions of the test, which return     *)
(* their first argument and trash every register that is not saved and the *)
(* words below the stack pointer - where the last arguments of rotateLong  *)
(* are passed.  Strings that are printed are left out.                     *)
(***************************************************************************)
EXTENDS FunctionCall, FiniteSets

CONSTANTS
  Length,    \* items of an array, characters of a string
  ItemValues, \* what an array holds
  Counts,    \* first arguments of bottles, rotateShort and rotateLong
  Numbers    \* arguments of gcf

ASSUME LengthAssumption == Length \in Nat
ASSUME ItemValuesAssumption == ItemValues \subseteq Int
ASSUME CountsAssumption == Counts \subseteq Int
ASSUME NumbersAssumption == Numbers \subseteq Nat \ {0}

VARIABLE below   \* the words under $sp: below[1] is at -4($sp)

\* The labels of asm3.s, and the lines after its jal instructions.
strlen == Line(3, 35)
LOOP_STRLEN == Line(3, 42)
gcf == Line(3, 80)
EXIT_GCF == Line(3, 120)
bottles == Line(3, 144)
LOOP_BOTTLES == Line(3, 152)
longestSorted == Line(3, 268)
LOOP_LONGEST_SORTED == Line(3, 300)
rotateShort == Line(3, 369)
LOOP_ROTATE_SHORT == Line(3, 381)
AfterUtilShort == Line(3, 395)
rotateLong == Line(3, 446)
LOOP_ROTATE_LONG == Line(3, 467)
AfterUtilLong == Line(3, 488)
\* The functions of the test.
utilShort == Line(3, 1)
utilLong == Line(3, 2)

-----------------------------------------------------------------------------
(* strlen: $s0 is the count *)

Strlen ==
  /\ pc = strlen
  /\ stack' = Pushed(<<regs.s0, regs.ra>>)
  /\ regs' = [regs EXCEPT !.s0 = 0]
  /\ pc' = LOOP_STRLEN
  /\ UNCHANGED <<memory, console, before, below>>

StrlenCounts ==
  /\ pc = LOOP_STRLEN /\ memory[regs.a0] # 0
  /\ regs' = [regs EXCEPT !.s0 = regs.s0 + 1, !.a0 = regs.a0 + 1]
  /\ UNCHANGED <<pc, stack, memory, console, before, below>>

StrlenReturns ==
  /\ pc = LOOP_STRLEN /\ memory[regs.a0] = 0
  /\ regs' = [regs EXCEPT !.v0 = regs.s0, !.s0 = AtSP(0), !.ra = AtSP(4)]
  /\ stack' = Popped(8)
  /\ JrRa
  /\ UNCHANGED <<memory, console, before, below>>

-----------------------------------------------------------------------------
(* gcf, called with positive numbers *)

Larger == IF regs.a0 < regs.a1 THEN regs.a1 ELSE regs.a0
Smaller == IF regs.a0 < regs.a1 THEN regs.a0 ELSE regs.a1
GcfFrame == Pushed(<<regs.a1, regs.a0, regs.ra>>)

GcfKnown ==
  /\ pc = gcf
  /\ Smaller = 1 \/ Larger % Smaller = 0
  /\ stack' = GcfFrame
  /\ regs' = [regs EXCEPT !.a0 = Larger, !.a1 = Smaller, !.v0 = Smaller]
  /\ pc' = EXIT_GCF
  /\ UNCHANGED <<memory, console, before, below>>

GcfRecurses ==
  /\ pc = gcf
  /\ Smaller # 1 /\ Larger % Smaller # 0
  /\ stack' = GcfFrame
  /\ Jal(gcf, EXIT_GCF, [regs EXCEPT !.a0 = Smaller, !.a1 = Larger % Smaller])
  /\ UNCHANGED <<memory, console, before, below>>

GcfReturns ==
  /\ pc = EXIT_GCF
  /\ regs' = [regs EXCEPT !.ra = AtSP(8)]
  /\ stack' = Popped(12)
  /\ JrRa
  /\ UNCHANGED <<memory, console, before, below>>

-----------------------------------------------------------------------------
(* bottles: $t0 is i *)

Bottles ==
  /\ pc = bottles
  /\ stack' = Pushed(<<regs.a1, regs.a0, regs.ra>>)
  /\ regs' = [regs EXCEPT !.t0 = regs.a0]
  /\ pc' = LOOP_BOTTLES
  /\ UNCHANGED <<memory, console, before, below>>

Verse ==
  /\ pc = LOOP_BOTTLES /\ 0 < regs.t0
  /\ console' = console \o <<regs.t0, regs.t0, regs.t0 - 1>>
  /\ regs' = [regs EXCEPT !.t0 = regs.t0 - 1]
  /\ UNCHANGED <<pc, stack, memory, before, below>>

BottlesReturns ==
  /\ pc = LOOP_BOTTLES /\ ~ 0 < regs.t0
  /\ regs' = [regs EXCEPT !.ra = AtSP(8)]
  /\ stack' = Popped(12)
  /\ JrRa
  /\ UNCHANGED <<memory, console, before, below>>

-----------------------------------------------------------------------------
(* longestSorted: $s0 is finalCount, $t2 is currCount, $t0 is i *)

LongestOfNothing ==
  /\ pc = longestSorted /\ regs.a1 = 0
  /\ regs' = [regs EXCEPT !.v0 = 0]
  /\ JrRa
  /\ UNCHANGED <<stack, memory, console, before, below>>

LongestSorted ==
  /\ pc = longestSorted /\ regs.a1 # 0
  /\ stack' = Pushed(<<regs.a1, regs.a0, regs.s0, regs.ra>>)
  /\ regs' = [regs EXCEPT !.s0 = 1, !.t2 = 1, !.t0 = 0]
  /\ pc' = LOOP_LONGEST_SORTED
  /\ UNCHANGED <<memory, console, before, below>>

\* finalCount, if the run that ends here is not longer.
FinalCount == IF regs.s0 < regs.t2 THEN regs.t2 ELSE regs.s0

NextItem ==
  /\ pc = LOOP_LONGEST_SORTED /\ regs.t0 < regs.a1 - 1
  /\ LET i == regs.a0 + regs.t0
     IN  regs' = IF memory[i + 1] < memory[i]
                 THEN [regs EXCEPT !.s0 = FinalCount, !.t2 = 1, !.t0 = regs.t0 + 1]
                 ELSE [regs EXCEPT !.t2 = regs.t2 + 1, !.t0 = regs.t0 + 1]
  /\ UNCHANGED <<pc, stack, memory, console, before, below>>

\* Seeded fault: a run that reaches the end of the array is not looked at.
IgnoresLastRun == regs.s0

\* "Final check": the last run may be the longest.
AtLeastLastRun == FinalCount

LongestReturns ==
  /\ pc = LOOP_LONGEST_SORTED /\ regs.t0 >= regs.a1 - 1
  /\ regs' = [regs EXCEPT !.v0 = AtLeastLastRun, !.a1 = AtSP(0), !.a0 = AtSP(4),
                          !.s0 = AtSP(8), !.ra = AtSP(12)]
  /\ stack' = Popped(16)
  /\ JrRa
  /\ UNCHANGED <<memory, console, before, below>>

-----------------------------------------------------------------------------
(* rotateShort and rotateLong: $s0 is retval; i, count and the other         *)
(* arguments are in the frame while the function of the test runs            *)

\* Every register that is not saved, and the words below $sp, are trashed.
Trashed == [regs EXCEPT !.a0 = Junk, !.a1 = Junk, !.a2 = Junk, !.a3 = Junk,
                        !.t0 = Junk, !.t2 = Junk, !.t9 = Junk, !.v0 = regs.a0]

UtilShort ==
  /\ pc = utilShort
  /\ console' = console \o <<regs.a0, regs.a1, regs.a2>>
  /\ regs' = Trashed
  /\ below' = <<Junk, Junk, Junk>>
  /\ JrRa
  /\ UNCHANGED <<stack, memory, before>>

UtilLong ==
  /\ pc = utilLong
  /\ console' = console \o <<regs.a0, regs.a1, regs.a2, regs.a3, below[2], below[1]>>
  /\ regs' = Trashed
  /\ below' = <<Junk, Junk, Junk>>
  /\ JrRa
  /\ UNCHANGED <<stack, memory, before>>

RotateShort ==
  /\ pc = rotateShort
  /\ stack' = Pushed(<<Junk, regs.a0, regs.a1, regs.a2, regs.a3, regs.s0, regs.ra>>)
  /\ regs' = [regs EXCEPT !.s0 = 0, !.t0 = 0]
  /\ pc' = LOOP_ROTATE_SHORT
  /\ UNCHANGED <<memory, console, before, below>>

CallUtilShort ==
  /\ pc = LOOP_ROTATE_SHORT /\ regs.t0 < AtSP(4)
  /\ stack' = Stored(0, regs.t0)
  /\ Jal(utilShort, AfterUtilShort,
         [regs EXCEPT !.a0 = AtSP(8), !.a1 = AtSP(12), !.a2 = AtSP(16)])
  /\ UNCHANGED <<memory, console, before, below>>

RotateThree ==
  /\ pc = AfterUtilShort
  /\ regs' = [regs EXCEPT !.s0 = regs.s0 + regs.v0, !.t0 = AtSP(0) + 1, !.t2 = AtSP(16)]
  /\ stack' = [stack EXCEPT ![3] = AtSP(12), ![4] = AtSP(16), ![5] = AtSP(8)]
  /\ pc' = LOOP_ROTATE_SHORT
  /\ UNCHANGED <<memory, console, before, below>>

RotateShortReturns ==
  /\ pc = LOOP_ROTATE_SHORT /\ ~ regs.t0 < AtSP(4)
  /\ regs' = [regs EXCEPT !.v0 = regs.s0, !.a0 = AtSP(4), !.s0 = AtSP(20), !.ra = AtSP(24)]
  /\ stack' = Popped(28)
  /\ JrRa
  /\ UNCHANGED <<memory, console, before, below>>

\* d, e and f are read from below the stack pointer; then the frame covers
\* them: 28($sp) is the word in which d was.
RotateLong ==
  /\ pc = rotateLong
  /\ LET d == below[3]
     IN  stack' = Pushed(<<regs.a0, regs.a1, regs.a2, regs.a3, d, below[2], below[1],
                           d, regs.s0, regs.ra>>)
  /\ below' = <<Junk, Junk, Junk>>
  /\ regs' = [regs EXCEPT !.s0 = 0, !.t9 = 0]
  /\ pc' = LOOP_ROTATE_LONG
  /\ UNCHANGED <<memory, console, before>>

CallUtilLong ==
  /\ pc = LOOP_ROTATE_LONG /\ regs.t9 < AtSP(0)
  /\ stack' = Stored(28, regs.t9)
  /\ below' = <<AtSP(24), AtSP(20), Junk>>
  /\ Jal(utilLong, AfterUtilLong,
         [regs EXCEPT !.a0 = AtSP(4), !.a1 = AtSP(8), !.a2 = AtSP(12), !.a3 = AtSP(16)])
  /\ UNCHANGED <<memory, console, before>>

RotateSix ==
  /\ pc = AfterUtilLong
  /\ regs' = [regs EXCEPT !.s0 = regs.s0 + regs.v0, !.t9 = AtSP(28) + 1]
  /\ stack' = [k \in DOMAIN stack |-> IF k \in 2 .. 6 THEN stack[k + 1]
                                      ELSE IF k = 7 THEN stack[2] ELSE stack[k]]
  /\ pc' = LOOP_ROTATE_LONG
  /\ UNCHANGED <<memory, console, before, below>>

\* Seeded fault: the word added for the loop counter stays on the stack.
FrameWithoutCounter == 36

FrameOfRotateLong == 40

RotateLongReturns ==
  /\ pc = LOOP_ROTATE_LONG /\ ~ regs.t9 < AtSP(0)
  /\ regs' = [regs EXCEPT !.v0 = regs.s0, !.a0 = AtSP(0), !.s0 = AtSP(32), !.ra = AtSP(36)]
  /\ stack' = Popped(FrameOfRotateLong)
  /\ JrRa
  /\ UNCHANGED <<memory, console, before, below>>

-----------------------------------------------------------------------------
(* The calls *)

\* The calling function uses $s0.
Registers(a0, a1, a2, a3) ==
  [a0 |-> a0, a1 |-> a1, a2 |-> a2, a3 |-> a3, v0 |-> Junk, ra |-> Caller(3),
   t0 |-> Junk, t2 |-> Junk, t9 |-> Junk, s0 |-> 77]
With(a0, a1) == Registers(a0, a1, Junk, Junk)

NoData == << >>
ArraysOf(values) == UNION {[0 .. n - 1 -> values] : n \in 0 .. Length}
\* A string has a 0 after it, and none before.
Strings == ArraysOf(ItemValues \ {0})
Terminated(string) ==
  LET n == Cardinality(DOMAIN string)
  IN  [i \in 0 .. n |-> IF i = n THEN 0 ELSE string[i]]

InitAsm3 ==
  /\ below = <<6, 5, 4>>
  /\ \/ \E s \in Strings : Called(strlen, With(0, Junk), Terminated(s))
     \/ \E a, b \in Numbers : Called(gcf, With(a, b), NoData)
     \/ \E n \in Counts : Called(bottles, With(n, Junk), NoData)
     \/ \E s \in ArraysOf(ItemValues) : Called(longestSorted, With(0, Cardinality(DOMAIN s)), s)
     \/ \E n \in Counts, f \in {rotateShort, rotateLong} :
          Called(f, Registers(n, 1, 2, 3), NoData)

CodeAsm3 ==
  \/ Strlen \/ StrlenCounts \/ StrlenReturns
  \/ GcfKnown \/ GcfRecurses \/ GcfReturns
  \/ Bottles \/ Verse \/ BottlesReturns
  \/ LongestOfNothing \/ LongestSorted \/ NextItem \/ LongestReturns
  \/ UtilShort \/ UtilLong
  \/ RotateShort \/ CallUtilShort \/ RotateThree \/ RotateShortReturns
  \/ RotateLong \/ CallUtilLong \/ RotateSix \/ RotateLongReturns

-----------------------------------------------------------------------------
(* Properties *)

IsDivisor(d, n) == n % d = 0

\* The r-th rotation of the arguments, one after the other, and the sum of
\* their first items.
Rotations(arguments, count) ==
  LET n == Len(arguments)
  IN  [k \in 1 .. n * count |-> arguments[((((k - 1) \div n) + ((k - 1) % n)) % n) + 1]]
SumOfFirsts(arguments, count) ==
  LET n == Len(arguments)
      sum[r \in Nat] == IF r = 0 THEN 0 ELSE sum[r - 1] + arguments[((r - 1) % n) + 1]
  IN  sum[count]

AtLeast0(n) == IF n < 0 THEN 0 ELSE n

\* strlen, gcf, bottles and the rotations return and print what their C versions
\* say: the greatest common factor, every verse, and what the test's functions
\* see of the rotated arguments although they trash everything they may.
\* longestSorted returns the length of the longest run that does not descend,
\* the last one included: that is what its instructions compute (lines 311 and
\* 332) and what test_01.s gets for 10, 5, 100, 125, 125, 199, -1, which is 5
\* (test_01.student_output, line 300).  The C version in the comment above it
\* says something else: a run goes on if "nums[i+1] == nums[i] + 1" (line 254), and
\* "return finalCount" (line 260) comes without a look at the last run; for 1, 3
\* that is 1, and 1 for the array of the test.
FunctionsCorrect ==
  LET a0 == before.regs.a0
      a1 == before.regs.a1
      m == before.memory
      runs == {n \in 1 .. a1 : \E i \in 0 .. a1 - n :
                 \A j \in i .. i + n - 2 : m[j] <= m[j + 1]}
      rotated(arguments) ==
        /\ console = Rotations(arguments, AtLeast0(a0))
        /\ regs.v0 = SumOfFirsts(arguments, AtLeast0(a0))
  IN  pc = Caller(3) =>
        CASE before.pc = strlen -> regs.v0 = Cardinality(DOMAIN m) - 1
          [] before.pc = gcf ->
               /\ IsDivisor(regs.v0, a0) /\ IsDivisor(regs.v0, a1)
               /\ \A d \in 1 .. a0 : IsDivisor(d, a0) /\ IsDivisor(d, a1) => d <= regs.v0
          [] before.pc = bottles ->
               console = [k \in 1 .. 3 * AtLeast0(a0) |->
                            a0 - ((k - 1) \div 3) - (IF k % 3 = 0 THEN 1 ELSE 0)]
          [] before.pc = longestSorted ->
               IF a1 = 0 THEN regs.v0 = 0
               ELSE regs.v0 \in runs /\ \A n \in runs : n <= regs.v0
          [] before.pc = rotateShort -> rotated(<<1, 2, 3>>)
          [] before.pc = rotateLong -> rotated(<<1, 2, 3, 4, 5, 6>>)

\* Every function, also one that called itself or was called back, returns
\* with the caller's stack and $s0.
FramesBalanced == pc = Caller(3) => GivenBack({"s0"})
=============================================================================
