------------------------------- MODULE Sorting -------------------------------
(***************************************************************************)
(* asm6.s: two arrays in .data, each printed, sorted, printed again, with  *)
(* the time this took.  Strings that are printed (headings, blanks, ends   *)
(* of lines) and the syscall numbers in $v0 are left out.                  *)
(***************************************************************************)
EXTENDS FunctionCall, FiniteSets

CONSTANTS
  Room,     \* words of an array
  Values,   \* what they may hold
  Starts    \* how the program is started: [at : code address, saved : $s registers]

ASSUME RoomAssumption == Room \in Nat
ASSUME ValuesAssumption == Values \subseteq Int

\* The memory holds the words of .data: array1, size1, array2, size2.
VARIABLE clock   \* the time of day, in milliseconds

\* Addresses count bytes.
array1 == 0
size1 == array1 + 4 * Room
array2 == size1 + 4
size2 == array2 + 4 * Room

Load(address) == memory[address \div 4]
Item(array, i) == Load(array + 4 * i)

\* The labels of asm6.s, and the lines after its jal instructions.
main == Line(6, 32)
AfterInsertion == Line(6, 36)
AfterSelection == Line(6, 42)
Exit == Line(6, 43)
insertion_sort == Line(6, 117)
outer_loop_insertion_sort == Line(6, 130)
inner_loop_insertion_sort == Line(6, 141)
print_array == Line(6, 189)
print_loop == Line(6, 200)
selection_sort == Line(6, 310)
outer_loop_selection_sort == Line(6, 326)
inner_loop_selection_sort == Line(6, 334)

mainInsertion ==
  [line |-> Line(6, 45), afterPrint |-> Line(6, 64), afterSort |-> Line(6, 68),
   afterPrintSorted |-> Line(6, 73), array |-> array1, size |-> size1, sort |-> insertion_sort]
mainSelection ==
  [line |-> Line(6, 231), afterPrint |-> Line(6, 252), afterSort |-> Line(6, 258),
   afterPrintSorted |-> Line(6, 262), array |-> array2, size |-> size2, sort |-> selection_sort]
Sorters == {mainInsertion, mainSelection}

-----------------------------------------------------------------------------
(* main *)

CallInsertion ==
  /\ pc = main
  /\ Jal(mainInsertion.line, AfterInsertion, regs)
  /\ UNCHANGED <<stack, console, memory, clock, before>>

CallSelection ==
  /\ pc = AfterInsertion
  /\ Jal(mainSelection.line, AfterSelection, regs)
  /\ UNCHANGED <<stack, console, memory, clock, before>>

ExitProgram ==
  /\ pc = AfterSelection
  /\ pc' = Exit
  /\ UNCHANGED <<regs, stack, console, memory, clock, before>>

-----------------------------------------------------------------------------
(* mainInsertion and mainSelection *)

\* The arguments of print_array and of the sorting functions.
WithArray(s, registers) == [registers EXCEPT !.a0 = s.array, !.a1 = Load(s.size)]

\* Syscall 30: the time is read; it goes on.
ReadClock == clock' = clock + 1

StartSorter(s) ==
  /\ pc = s.line
  /\ stack' = Pushed(<<regs.s0, regs.ra>>)
  /\ Jal(print_array, s.afterPrint, WithArray(s, [regs EXCEPT !.s0 = clock]))
  /\ ReadClock
  /\ UNCHANGED <<console, memory, before>>

CallSort(s) ==
  /\ pc = s.afterPrint
  /\ Jal(s.sort, s.afterSort, WithArray(s, regs))
  /\ UNCHANGED <<stack, console, memory, clock, before>>

PrintSorted(s) ==
  /\ pc = s.afterSort
  /\ Jal(print_array, s.afterPrintSorted, WithArray(s, regs))
  /\ UNCHANGED <<stack, console, memory, clock, before>>

\* sub traps on overflow: the model's clock does not wrap.
ReportTime(s) ==
  /\ pc = s.afterPrintSorted
  /\ console' = Append(console, clock - regs.s0)
  /\ ReadClock
  /\ regs' = [regs EXCEPT !.s0 = AtSP(0), !.ra = AtSP(4)]
  /\ stack' = Popped(8)
  /\ JrRa
  /\ UNCHANGED <<memory, before>>

-----------------------------------------------------------------------------
(* print_array *)

PrintArray ==
  /\ pc = print_array
  /\ stack' = Pushed(<<regs.s2, regs.s1, regs.s0, regs.ra>>)
  /\ regs' = [regs EXCEPT !.s0 = regs.a0, !.s1 = regs.a1, !.s2 = 0]
  /\ pc' = print_loop
  /\ UNCHANGED <<console, memory, clock, before>>

PrintItem ==
  /\ pc = print_loop /\ regs.s2 < regs.s1
  /\ console' = Append(console, Item(regs.s0, regs.s2))
  /\ regs' = [regs EXCEPT !.s2 = regs.s2 + 1]
  /\ UNCHANGED <<pc, stack, memory, clock, before>>

PrintDone ==
  /\ pc = print_loop /\ regs.s2 >= regs.s1
  /\ regs' = [regs EXCEPT !.s2 = AtSP(0), !.s1 = AtSP(4), !.s0 = AtSP(8), !.ra = AtSP(12)]
  /\ stack' = Popped(16)
  /\ JrRa
  /\ UNCHANGED <<console, memory, clock, before>>

-----------------------------------------------------------------------------
(* insertion_sort: $s2 is i, $s3 the key, $t1 is j *)

\* i is one more than $s2 was in the calling function.
InsertionSort ==
  /\ pc = insertion_sort
  /\ stack' = Pushed(<<regs.s3, regs.s2, regs.s1, regs.s0, regs.ra>>)
  /\ regs' = [regs EXCEPT !.s0 = regs.a0, !.s1 = regs.a1, !.s2 = regs.s2 + 1]
  /\ pc' = outer_loop_insertion_sort
  /\ UNCHANGED <<console, memory, clock, before>>

TakeKey ==
  /\ pc = outer_loop_insertion_sort /\ regs.s2 < regs.s1
  /\ regs' = [regs EXCEPT !.s3 = Item(regs.s0, regs.s2), !.t1 = regs.s2 - 1]
  /\ pc' = inner_loop_insertion_sort
  /\ UNCHANGED <<stack, console, memory, clock, before>>

\* Seeded fault: blez for bltz, so that the first item is never looked at.
StopsAtFirst(j) == j > 0 => Item(regs.s0, j) <= regs.s3

\* bltz $t1, insert; ble $t3, $s3, insert.
KeyBelongsAfter(j) == j >= 0 => Item(regs.s0, j) <= regs.s3

\* Seeded fault: j is not decremented.
SameIndex(j) == j

\* addi $t1, $t1, -1
NextIndex(j) == j - 1

ShiftItem ==
  /\ pc = inner_loop_insertion_sort /\ ~ KeyBelongsAfter(regs.t1)
  /\ memory' = [memory EXCEPT ![(regs.s0 + 4 * regs.t1 + 4) \div 4] = Item(regs.s0, regs.t1)]
  /\ regs' = [regs EXCEPT !.t1 = NextIndex(regs.t1)]
  /\ UNCHANGED <<pc, stack, console, clock, before>>

\* Seeded fault: the key overwrites array[j].
InsertsAtJ(j) == IF j < 0 THEN 0 ELSE j

\* addi $t1, $t1, 1
InsertsAt(j) == j + 1

InsertKey ==
  /\ pc = inner_loop_insertion_sort /\ KeyBelongsAfter(regs.t1)
  /\ memory' = [memory EXCEPT ![(regs.s0 + 4 * InsertsAt(regs.t1)) \div 4] = regs.s3]
  /\ regs' = [regs EXCEPT !.t1 = InsertsAt(regs.t1), !.s2 = regs.s2 + 1]
  /\ pc' = outer_loop_insertion_sort
  /\ UNCHANGED <<stack, console, clock, before>>

\* Seeded fault: $s3 is restored from the place of $s2.
SavedS3Misplaced == AtSP(4)

\* lw $s3, 0($sp)
SavedS3 == AtSP(0)

InsertionFinished ==
  /\ pc = outer_loop_insertion_sort /\ regs.s2 >= regs.s1
  /\ regs' = [regs EXCEPT !.s3 = SavedS3, !.s2 = AtSP(4), !.s1 = AtSP(8), !.s0 = AtSP(12),
                          !.ra = AtSP(16)]
  /\ stack' = Popped(20)
  /\ JrRa
  /\ UNCHANGED <<console, memory, clock, before>>

-----------------------------------------------------------------------------
(* selection_sort: $s2 is i, $s3 the index of the minimum, $s4 is j *)

SelectionSort ==
  /\ pc = selection_sort
  /\ stack' = Pushed(<<regs.s4, regs.s3, regs.s2, regs.s1, regs.s0, regs.ra>>)
  /\ regs' = [regs EXCEPT !.s0 = regs.a0, !.s1 = regs.a1, !.s2 = 0]
  /\ pc' = outer_loop_selection_sort
  /\ UNCHANGED <<console, memory, clock, before>>

SelectFrom ==
  /\ pc = outer_loop_selection_sort /\ regs.s2 < regs.s1 - 1
  /\ regs' = [regs EXCEPT !.s3 = regs.s2, !.s4 = regs.s2 + 1]
  /\ pc' = inner_loop_selection_sort
  /\ UNCHANGED <<stack, console, memory, clock, before>>

\* Seeded fault: array[j] is compared with array[i], not with the minimum so far.
LessThanFirst == IF Item(regs.s0, regs.s4) < Item(regs.s0, regs.s2) THEN regs.s4 ELSE regs.s3

\* The index of the minimum of the items up to j.
IndexOfMinimum == IF Item(regs.s0, regs.s4) < Item(regs.s0, regs.s3) THEN regs.s4 ELSE regs.s3

CompareItem ==
  /\ pc = inner_loop_selection_sort /\ regs.s4 < regs.s1
  /\ regs' = [regs EXCEPT !.s3 = IndexOfMinimum, !.s4 = regs.s4 + 1]
  /\ UNCHANGED <<pc, stack, console, memory, clock, before>>

\* Nothing is exchanged if the minimum is at i already.
SwapMinimum ==
  /\ pc = inner_loop_selection_sort /\ regs.s4 >= regs.s1
  /\ LET i == (regs.s0 + 4 * regs.s2) \div 4
         minimum == (regs.s0 + 4 * regs.s3) \div 4
     IN  memory' = [memory EXCEPT ![i] = memory[minimum], ![minimum] = memory[i]]
  /\ regs' = [regs EXCEPT !.s2 = regs.s2 + 1]
  /\ pc' = outer_loop_selection_sort
  /\ UNCHANGED <<stack, console, clock, before>>

SelectionFinished ==
  /\ pc = outer_loop_selection_sort /\ regs.s2 >= regs.s1 - 1
  /\ regs' = [regs EXCEPT !.s4 = AtSP(0), !.s3 = AtSP(4), !.s2 = AtSP(8), !.s1 = AtSP(12),
                          !.s0 = AtSP(16), !.ra = AtSP(20)]
  /\ stack' = Popped(24)
  /\ JrRa
  /\ UNCHANGED <<console, memory, clock, before>>

-----------------------------------------------------------------------------

\* Both arrays hold the same items at first, and their sizes are at most the
\* room there is.
Data(items, size) ==
  [word \in 0 .. 2 * Room + 1 |->
     IF word \in {size1 \div 4, size2 \div 4} THEN size ELSE items[word % (Room + 1)]]

\* What a caller has in the $s registers: a number in each.
CallersRegisters == [s0 : Int, s1 : Int, s2 : Int, s3 : Int, s4 : Int]

\* One of the exported functions is called.  insertion_sort is given an index
\* that is in the array, or after it.
ASSUME StartsAssumption ==
  \A start \in Starts :
    /\ start.at \in {main} \cup {s.line : s \in Sorters}
    /\ start.saved \in CallersRegisters /\ start.saved.s2 >= -1

Registers6(saved) ==
  [a0 |-> Junk, a1 |-> Junk, ra |-> Caller(6), t1 |-> Junk,
   s0 |-> saved.s0, s1 |-> saved.s1, s2 |-> saved.s2, s3 |-> saved.s3, s4 |-> saved.s4]

InitAsm6 ==
  /\ clock = 1000
  /\ \E start \in Starts, items \in [0 .. Room - 1 -> Values], size \in 0 .. Room :
       Called(start.at, Registers6(start.saved), Data(items, size))

CodeAsm6 ==
  \/ CallInsertion \/ CallSelection \/ ExitProgram
  \/ \E s \in Sorters : StartSorter(s) \/ CallSort(s) \/ PrintSorted(s) \/ ReportTime(s)
  \/ PrintArray \/ PrintItem \/ PrintDone
  \/ InsertionSort \/ TakeKey \/ ShiftItem \/ InsertKey \/ InsertionFinished
  \/ SelectionSort \/ SelectFrom \/ CompareItem \/ SwapMinimum \/ SelectionFinished

-----------------------------------------------------------------------------
(* Properties *)

SavedRegisters == {"s0", "s1", "s2", "s3", "s4"}

\* The items of a sorter's array in some memory.
Items(s, m) ==
  [i \in 1 .. m[s.size \div 4] |-> m[s.array \div 4 + i - 1]]
Ascending(items) == \A i, j \in DOMAIN items : i <= j => items[i] <= items[j]
HowMany(items, v) == Cardinality({i \in DOMAIN items : items[i] = v})

\* "for (int i = 1; i < size; i++)" (asm6.s, line 100), but the code starts from
\* one more than the caller's $s2: what it sorts, it sorts if no item before that
\* one is out of order; in the program $s2 is 0.
SortsFromCallersIndex ==
  LET initial == Items(mainInsertion, before.memory)
      passed == 1 .. before.regs.s2 + 1
  IN  pc \in {mainInsertion.afterSort, Exit} =>
        (Ascending(Items(mainInsertion, memory))
           <=> Ascending([i \in passed \cap DOMAIN initial |-> initial[i]]))

\* At the end selection_sort's array is in order, and the console shows every
\* array before and after, and the time that passed: the sorting functions and
\* print_array have given $s0 back to their callers.
SortedOutput ==
  LET section(s) == Items(s, before.memory) \o Items(s, memory) \o <<1>>
      done == CASE before.pc = main -> <<mainInsertion, mainSelection>>
                [] before.pc = mainInsertion.line -> <<mainInsertion>>
                [] before.pc = mainSelection.line -> <<mainSelection>>
  IN  pc \in {Exit, Caller(6)} =>
        /\ console = section(done[1]) \o (IF Len(done) = 2 THEN section(done[2]) ELSE << >>)
        /\ before.pc # mainInsertion.line => Ascending(Items(mainSelection, memory))

\* No item is lost or doubled at any time, if $s3 stands for the item at j + 1
\* while insertion_sort moves items up; and no word outside the arrays
\* changes, the sizes next to them included.
NothingLost ==
  LET hole == (regs.s0 + 4 * regs.t1 + 4) \div 4
      filled == IF pc = inner_loop_insertion_sort
                THEN [memory EXCEPT ![hole] = regs.s3] ELSE memory
      inside(s) == {s.array \div 4 + i : i \in 0 .. before.memory[s.size \div 4] - 1}
  IN  Running(6) =>
        /\ \A s \in Sorters, v \in Values :
             HowMany(Items(s, filled), v) = HowMany(Items(s, before.memory), v)
        /\ \A word \in DOMAIN memory \ UNION {inside(s) : s \in Sorters} :
             memory[word] = before.memory[word]

\* Every function gives its caller's registers and stack back, on the way and
\* at the end.  Each of $s0 to $s4 may hold another number when a function is
\* called, so a register restored from the place of another one is noticed.
CalleeSaved ==
  LET within == UNION {{s.afterPrint, s.afterSort, s.afterPrintSorted} : s \in Sorters}
  IN  /\ pc \in within =>
           /\ Len(stack) = 2 /\ regs.s0 = clock - 1
           /\ \A r \in SavedRegisters \ {"s0"} : regs[r] = before.regs[r]
      /\ pc \in {AfterInsertion, AfterSelection, Exit, Caller(6)} =>
           GivenBack(SavedRegisters)
=============================================================================
