---------------------------- MODULE SortingProofs ----------------------------
(***************************************************************************)
(* asm6.s for arrays of any size with any items.                           *)
(***************************************************************************)
EXTENDS Sorting, SequenceTheorems, FiniteSetTheorems, TLAPS

\* The program alone, without the others that may be run in its place.
Spec == InitAsm6 /\ [][CodeAsm6]_<<call, clock>>

-----------------------------------------------------------------------------
(* Where the program is. *)

Register == [a0 : Int, a1 : Int, ra : Int, t1 : Int,
             s0 : Int, s1 : Int, s2 : Int, s3 : Int, s4 : Int]
Data6 == [0 .. 2 * Room + 1 -> Int]

\* The items that are there of either array.
N == before.memory[Room]
HasSizes(data) == data \in Data6 /\ data[Room] = N /\ data[2 * Room + 1] = N

\* What the program was called with.
CallOK ==
  /\ before.pc \in {main, mainInsertion.line, mainSelection.line}
  /\ before.regs \in Register /\ before.regs.s2 >= -1
  /\ N \in 0 .. Room /\ HasSizes(before.memory)

TypeOK ==
  /\ CallOK
  /\ regs \in Register /\ clock \in Int
  /\ HasSizes(memory)

Kept(registers) == \A r \in registers : regs[r] = before.regs[r]

Started(s) == before.pc \in {main, s.line}
ReturnsTo(s) == IF before.pc = s.line THEN Caller(6)
                ELSE IF s = mainInsertion THEN AfterInsertion ELSE AfterSelection

\* The caller's $s0 and the return address of a sorter; in its own $s0 is the time.
OwnFrame(s) == <<before.regs.s0, ReturnsTo(s)>>
Timed == clock - 1

\* Between the sorters.
AtRest ==
  /\ stack = << >> /\ Kept(SavedRegisters)
  /\ \/ before.pc = main /\ pc \in {main, AfterInsertion, AfterSelection, Exit}
     \/ before.pc # main /\ pc = Caller(6)
     \/ \E s \in Sorters : Started(s) /\ pc = s.line /\ regs.ra = ReturnsTo(s)

\* In a sorter, or at the entry of a function that it calls.
InSorter(s) ==
  /\ Started(s)
  /\ stack = OwnFrame(s) /\ regs.s0 = Timed /\ Kept(SavedRegisters \ {"s0"})
  /\ \/ pc \in {s.afterPrint, s.afterSort, s.afterPrintSorted}
     \/ /\ regs.a0 = s.array /\ regs.a1 = N
        /\ \/ pc = print_array /\ regs.ra \in {s.afterPrint, s.afterPrintSorted}
           \/ pc = s.sort /\ regs.ra = s.afterSort

Printing(s) ==
  /\ Started(s)
  /\ pc = print_loop
  /\ \E line \in {s.afterPrint, s.afterPrintSorted} :
       stack = <<before.regs.s2, before.regs.s1, Timed, line>> \o OwnFrame(s)
  /\ regs.s0 = s.array /\ regs.s1 = N /\ regs.s2 \in 0 .. N /\ Kept({"s3", "s4"})

Inserting ==
  /\ Started(mainInsertion)
  /\ stack = <<before.regs.s3, before.regs.s2, before.regs.s1, Timed, mainInsertion.afterSort>>
               \o OwnFrame(mainInsertion)
  /\ regs.s0 = array1 /\ regs.s1 = N /\ regs.s2 \in Nat /\ Kept({"s4"})
  /\ \/ pc = outer_loop_insertion_sort
     \/ pc = inner_loop_insertion_sort /\ regs.s2 < N /\ regs.t1 \in -1 .. regs.s2 - 1

Selecting ==
  /\ Started(mainSelection)
  /\ stack = <<before.regs.s4, before.regs.s3, before.regs.s2, before.regs.s1, Timed,
               mainSelection.afterSort>> \o OwnFrame(mainSelection)
  /\ regs.s0 = array2 /\ regs.s1 = N /\ regs.s2 \in Nat
  /\ \/ pc = outer_loop_selection_sort
     \/ /\ pc = inner_loop_selection_sort /\ regs.s2 < N - 1
        /\ regs.s3 \in regs.s2 .. N - 1 /\ regs.s4 \in regs.s2 + 1 .. N

Control ==
  /\ TypeOK
  /\ AtRest \/ (\E s \in Sorters : InSorter(s) \/ Printing(s)) \/ Inserting \/ Selecting

-----------------------------------------------------------------------------
(* Labels, frames and addresses. *)

LEMMA Labels6 ==
  /\ main = 6032 /\ AfterInsertion = 6036 /\ AfterSelection = 6042 /\ Exit = 6043
  /\ Caller(6) = 6000
  /\ insertion_sort = 6117 /\ outer_loop_insertion_sort = 6130
  /\ inner_loop_insertion_sort = 6141
  /\ print_array = 6189 /\ print_loop = 6200
  /\ selection_sort = 6310 /\ outer_loop_selection_sort = 6326
  /\ inner_loop_selection_sort = 6334
BY SMT DEF main, AfterInsertion, AfterSelection, Exit, Caller, Line, insertion_sort,
     outer_loop_insertion_sort, inner_loop_insertion_sort, print_array, print_loop,
     selection_sort, outer_loop_selection_sort, inner_loop_selection_sort

LEMMA SorterLabels ==
  /\ mainInsertion.line = 6045 /\ mainInsertion.afterPrint = 6064
  /\ mainInsertion.afterSort = 6068 /\ mainInsertion.afterPrintSorted = 6073
  /\ mainInsertion.array = array1 /\ mainInsertion.size = size1
  /\ mainInsertion.sort = insertion_sort
  /\ mainSelection.line = 6231 /\ mainSelection.afterPrint = 6252
  /\ mainSelection.afterSort = 6258 /\ mainSelection.afterPrintSorted = 6262
  /\ mainSelection.array = array2 /\ mainSelection.size = size2
  /\ mainSelection.sort = selection_sort
BY SMT DEF mainInsertion, mainSelection, Line

\* Addresses divided by the size of a word.
LEMMA Addresses ==
  /\ array1 = 0 /\ array1 \div 4 = 0 /\ size1 \div 4 = Room
  /\ array2 = 4 * (Room + 1) /\ array2 \div 4 = Room + 1 /\ size2 \div 4 = 2 * Room + 1
  /\ array1 \in Int /\ array2 \in Int /\ Room \in Nat
BY RoomAssumption, SMT DEF array1, size1, array2, size2

\* A frame that was pushed is found, and what was there before when it is popped.
LEMMA FrameOnStack ==
  ASSUME NEW w \in Seq(Int), NEW s \in Seq(Int)
  PROVE  /\ w \o s \in Seq(Int)
         /\ SubSeq(w \o s, Len(w) + 1, Len(w \o s)) = s
         /\ \A i \in 1 .. Len(w) : (w \o s)[i] = w[i]
<1> DEFINE t == w \o s
           u == SubSeq(t, Len(w) + 1, Len(t))
<1>1. /\ t \in Seq(Int) /\ Len(t) = Len(w) + Len(s)
      /\ \A i \in 1 .. Len(w) : t[i] = w[i]
      /\ \A i \in 1 .. Len(s) : t[i + Len(w)] = s[i]
  BY ConcatProperties, SMT
<1>2. Len(w) \in Nat /\ Len(s) \in Nat
  BY LenProperties
<1> HIDE DEF t
<1>3. /\ u \in Seq(Int) /\ Len(u) = Len(s)
      /\ \A i \in 1 .. Len(s) : u[i] = t[i + Len(w)]
  <2>1. \A i \in Len(w) + 1 .. Len(t) : t[i] \in Int
    BY <1>1, <1>2, ElementOfSeq, SMT
  <2> QED
    BY <1>1, <1>2, <2>1, SubSeqProperties, SMT
<1> HIDE DEF u
<1>4. u = s
  BY <1>1, <1>3, SeqEqual
<1> QED
  BY <1>1, <1>4 DEF t, u

\* What a function finds when it takes its words back from the stack.
LEMMA TwoWords ==
  ASSUME NEW a \in Int, NEW b \in Int, stack = <<a, b>>
  PROVE  Popped(8) = << >> /\ AtSP(0) = a /\ AtSP(4) = b
<1>1. stack \in Seq(Int) /\ Len(stack) = 2 /\ stack[1] = a /\ stack[2] = b
  BY SMT
<1>2. AtSP(0) = stack[1] /\ AtSP(4) = stack[2] /\ Popped(8) = SubSeq(stack, 3, Len(stack))
  BY SMT DEF AtSP, Popped
<1>3. SubSeq(stack, 3, 2) = << >>
  <2>1. ASSUME NEW t \in Seq(Int), Len(t) = 2 PROVE SubSeq(t, 3, 2) = << >>
    BY <2>1, SubSeqProperties, EmptySeq, SMT
  <2> QED
    BY <1>1, <2>1
<1> QED
  BY <1>1, <1>2, <1>3

LEMMA FourWords ==
  ASSUME NEW a \in Int, NEW b \in Int, NEW c \in Int, NEW d \in Int, NEW rest \in Seq(Int),
         stack = <<a, b, c, d>> \o rest
  PROVE  /\ Popped(16) = rest
         /\ AtSP(0) = a /\ AtSP(4) = b /\ AtSP(8) = c /\ AtSP(12) = d
<1> DEFINE w == <<a, b, c, d>>
<1>1. w \in Seq(Int) /\ Len(w) = 4 /\ w[1] = a /\ w[2] = b /\ w[3] = c /\ w[4] = d
  BY SMT
<1>2. stack = w \o rest
  OBVIOUS
<1> HIDE DEF w
<1>3. SubSeq(stack, Len(w) + 1, Len(stack)) = rest /\ \A i \in 1 .. Len(w) : stack[i] = w[i]
  BY <1>1, <1>2, FrameOnStack
<1>4. /\ AtSP(0) = stack[1] /\ AtSP(4) = stack[2] /\ AtSP(8) = stack[3] /\ AtSP(12) = stack[4]
      /\ Popped(16) = SubSeq(stack, 4 + 1, Len(stack))
  BY SMT DEF AtSP, Popped
<1>5. {1, 2, 3, 4} \subseteq 1 .. 4
  BY SMT
<1> QED
  BY <1>1, <1>3, <1>4, <1>5

LEMMA FiveWords ==
  ASSUME NEW a \in Int, NEW b \in Int, NEW c \in Int, NEW d \in Int, NEW e \in Int,
         NEW rest \in Seq(Int), stack = <<a, b, c, d, e>> \o rest
  PROVE  /\ Popped(20) = rest
         /\ AtSP(0) = a /\ AtSP(4) = b /\ AtSP(8) = c /\ AtSP(12) = d /\ AtSP(16) = e
<1> DEFINE w == <<a, b, c, d, e>>
<1>1. /\ w \in Seq(Int) /\ Len(w) = 5
      /\ w[1] = a /\ w[2] = b /\ w[3] = c /\ w[4] = d /\ w[5] = e
  BY SMT
<1>2. stack = w \o rest
  OBVIOUS
<1> HIDE DEF w
<1>3. SubSeq(stack, Len(w) + 1, Len(stack)) = rest /\ \A i \in 1 .. Len(w) : stack[i] = w[i]
  BY <1>1, <1>2, FrameOnStack
<1>4. /\ AtSP(0) = stack[1] /\ AtSP(4) = stack[2] /\ AtSP(8) = stack[3] /\ AtSP(12) = stack[4]
      /\ AtSP(16) = stack[5] /\ Popped(20) = SubSeq(stack, 5 + 1, Len(stack))
  BY SMT DEF AtSP, Popped
<1>5. {1, 2, 3, 4, 5} \subseteq 1 .. 5
  BY SMT
<1> QED
  BY <1>1, <1>3, <1>4, <1>5

LEMMA SixWords ==
  ASSUME NEW w \in Seq(Int), Len(w) = 6, NEW rest \in Seq(Int), stack = w \o rest
  PROVE  /\ Popped(24) = rest
         /\ AtSP(0) = w[1] /\ AtSP(4) = w[2] /\ AtSP(8) = w[3] /\ AtSP(12) = w[4]
         /\ AtSP(16) = w[5] /\ AtSP(20) = w[6]
<1>1. SubSeq(stack, Len(w) + 1, Len(stack)) = rest /\ \A i \in 1 .. Len(w) : stack[i] = w[i]
  BY FrameOnStack
<1>2. /\ AtSP(0) = stack[1] /\ AtSP(4) = stack[2] /\ AtSP(8) = stack[3] /\ AtSP(12) = stack[4]
      /\ AtSP(16) = stack[5] /\ AtSP(20) = stack[6] /\ Popped(24) = SubSeq(stack, 6 + 1, Len(stack))
  BY SMT DEF AtSP, Popped
<1>3. {1, 2, 3, 4, 5, 6} \subseteq 1 .. 6
  BY SMT
<1> QED
  BY <1>1, <1>2, <1>3

\* The type of a sorter's frame.
LEMMA OwnFrameType ==
  ASSUME CallOK, NEW s \in Sorters
  PROVE  /\ before.regs.s0 \in Int /\ before.regs.s1 \in Int /\ before.regs.s2 \in Int
         /\ before.regs.s3 \in Int /\ before.regs.s4 \in Int
         /\ ReturnsTo(s) \in Int /\ OwnFrame(s) \in Seq(Int) /\ Len(OwnFrame(s)) = 2
         /\ s.afterPrint \in Int /\ s.afterSort \in Int /\ s.afterPrintSorted \in Int
<1>1. /\ before.regs.s0 \in Int /\ before.regs.s1 \in Int /\ before.regs.s2 \in Int
      /\ before.regs.s3 \in Int /\ before.regs.s4 \in Int
  BY DEF CallOK, Register
<1>2. ReturnsTo(s) \in Int
  BY Labels6, SMT DEF ReturnsTo
<1>3. OwnFrame(s) \in Seq(Int) /\ Len(OwnFrame(s)) = 2
  BY <1>1, <1>2, SMT DEF OwnFrame
<1>4. s.afterPrint \in Int /\ s.afterSort \in Int /\ s.afterPrintSorted \in Int
  BY SorterLabels, SMT DEF Sorters
<1> QED
  BY <1>1, <1>2, <1>3, <1>4

\* The code that runs tells where the program is.
LEMMA Places ==
  ASSUME Control
  PROVE  /\ pc \in {main, AfterInsertion, AfterSelection} => AtRest /\ before.pc = main
         /\ \A s \in Sorters :
              /\ pc = s.line => AtRest /\ Started(s) /\ regs.ra = ReturnsTo(s)
              /\ pc \in {s.afterPrint, s.afterSort, s.afterPrintSorted} => InSorter(s)
              /\ pc = s.sort => /\ InSorter(s) /\ regs.ra = s.afterSort
                                /\ regs.a0 = s.array /\ regs.a1 = N
         /\ pc = print_array =>
              \E s \in Sorters : /\ InSorter(s) /\ regs.ra \in {s.afterPrint, s.afterPrintSorted}
                                 /\ regs.a0 = s.array /\ regs.a1 = N
         /\ pc = print_loop => \E s \in Sorters : Printing(s)
         /\ pc \in {outer_loop_insertion_sort, inner_loop_insertion_sort} => Inserting
         /\ pc \in {outer_loop_selection_sort, inner_loop_selection_sort} => Selecting
<1>1. CASE AtRest
  <2>1. \/ before.pc = main /\ pc \in {main, AfterInsertion, AfterSelection, Exit}
        \/ before.pc # main /\ pc = Caller(6)
        \/ \E s \in Sorters : Started(s) /\ pc = s.line /\ regs.ra = ReturnsTo(s)
    BY <1>1 DEF AtRest
  <2>2. /\ pc \notin {print_array, print_loop, insertion_sort, selection_sort,
                     outer_loop_insertion_sort, inner_loop_insertion_sort,
                     outer_loop_selection_sort, inner_loop_selection_sort}
        /\ \A s \in Sorters : pc \notin {s.afterPrint, s.afterSort, s.afterPrintSorted, s.sort}
    BY <2>1, Labels6, SorterLabels, SMT DEF Sorters
  <2>3. /\ pc \in {main, AfterInsertion, AfterSelection} => before.pc = main
        /\ \A s \in Sorters : pc = s.line => Started(s) /\ regs.ra = ReturnsTo(s)
    BY <2>1, Labels6, SorterLabels, SMT DEF Sorters
  <2> QED
    BY <1>1, <2>2, <2>3, Zenon
<1>2. ASSUME NEW s \in Sorters, InSorter(s)
      PROVE  /\ pc \notin {main, AfterInsertion, AfterSelection, print_loop,
                          outer_loop_insertion_sort, inner_loop_insertion_sort,
                          outer_loop_selection_sort, inner_loop_selection_sort}
             /\ \A t \in Sorters :
                  /\ pc # t.line
                  /\ pc \in {t.afterPrint, t.afterSort, t.afterPrintSorted} => t = s
                  /\ pc = t.sort => /\ t = s /\ regs.ra = s.afterSort
                                    /\ regs.a0 = s.array /\ regs.a1 = N
             /\ pc = print_array => /\ regs.ra \in {s.afterPrint, s.afterPrintSorted}
                                    /\ regs.a0 = s.array /\ regs.a1 = N
  <2>1. \/ pc \in {s.afterPrint, s.afterSort, s.afterPrintSorted}
        \/ /\ regs.a0 = s.array /\ regs.a1 = N
           /\ \/ pc = print_array /\ regs.ra \in {s.afterPrint, s.afterPrintSorted}
              \/ pc = s.sort /\ regs.ra = s.afterSort
    BY <1>2 DEF InSorter
  <2>2. /\ pc \notin {main, AfterInsertion, AfterSelection, print_loop,
                          outer_loop_insertion_sort, inner_loop_insertion_sort,
                          outer_loop_selection_sort, inner_loop_selection_sort}
        /\ \A t \in Sorters : pc # t.line
    BY <2>1, Labels6, SorterLabels, SMT DEF Sorters
  <2>3. \A t \in Sorters :
          /\ pc \in {t.afterPrint, t.afterSort, t.afterPrintSorted} => t = s
          /\ pc = t.sort => t = s
    BY <2>1, Labels6, SorterLabels, SMT DEF Sorters
  <2>4. pc \in {s.sort, print_array} => pc \notin {s.afterPrint, s.afterSort, s.afterPrintSorted}
    BY Labels6, SorterLabels, SMT DEF Sorters
  <2>5. s.sort # print_array
    BY Labels6, SorterLabels, SMT DEF Sorters
  <2> QED
    BY <2>1, <2>2, <2>3, <2>4, <2>5
<1>3. ASSUME pc \in {print_loop, outer_loop_insertion_sort, inner_loop_insertion_sort,
                     outer_loop_selection_sort, inner_loop_selection_sort}
      PROVE  /\ pc \notin {main, AfterInsertion, AfterSelection, print_array}
             /\ \A t \in Sorters : pc \notin {t.line, t.afterPrint, t.afterSort,
                                              t.afterPrintSorted, t.sort}
  BY <1>3, Labels6, SorterLabels, SMT DEF Sorters
<1>4. /\ \A s \in Sorters : Printing(s) => pc = print_loop
      /\ Inserting => pc \in {outer_loop_insertion_sort, inner_loop_insertion_sort}
      /\ Selecting => pc \in {outer_loop_selection_sort, inner_loop_selection_sort}
  BY DEF Printing, Inserting, Selecting
<1>5. /\ print_loop \notin {outer_loop_insertion_sort, inner_loop_insertion_sort,
                            outer_loop_selection_sort, inner_loop_selection_sort}
      /\ {outer_loop_insertion_sort, inner_loop_insertion_sort}
           \cap {outer_loop_selection_sort, inner_loop_selection_sort} = {}
  BY Labels6
<1>6. CASE \E s \in Sorters : InSorter(s)
  <2>1. PICK s \in Sorters : InSorter(s)
    BY <1>6
  <2> QED
    BY <1>2, <2>1, Zenon
<1>7. CASE (\E s \in Sorters : Printing(s)) \/ Inserting \/ Selecting
  <2>1. pc \in {print_loop, outer_loop_insertion_sort, inner_loop_insertion_sort,
                outer_loop_selection_sort, inner_loop_selection_sort}
    BY <1>4, <1>7
  <2> QED
    BY <1>3, <1>4, <1>5, <1>7, <2>1
<1> QED
  BY <1>1, <1>6, <1>7 DEF Control

-----------------------------------------------------------------------------
(* Control: each action in turn. *)

\* The registers given back, one by one.
LEMMA KeptFields ==
  ASSUME regs \in Register, before.regs \in Register
  PROVE  /\ Kept(SavedRegisters) <=>
              /\ regs.s0 = before.regs.s0 /\ regs.s1 = before.regs.s1
              /\ regs.s2 = before.regs.s2 /\ regs.s3 = before.regs.s3
              /\ regs.s4 = before.regs.s4
         /\ Kept(SavedRegisters \ {"s0"}) <=>
              /\ regs.s1 = before.regs.s1 /\ regs.s2 = before.regs.s2
              /\ regs.s3 = before.regs.s3 /\ regs.s4 = before.regs.s4
         /\ Kept({"s3", "s4"}) <=> regs.s3 = before.regs.s3 /\ regs.s4 = before.regs.s4
         /\ Kept({"s4"}) <=> regs.s4 = before.regs.s4
<1>1. SavedRegisters \ {"s0"} = {"s1", "s2", "s3", "s4"}
  BY DEF SavedRegisters
<1>2. /\ regs["s0"] = regs.s0 /\ regs["s1"] = regs.s1 /\ regs["s2"] = regs.s2
      /\ regs["s3"] = regs.s3 /\ regs["s4"] = regs.s4
      /\ before.regs["s0"] = before.regs.s0 /\ before.regs["s1"] = before.regs.s1
      /\ before.regs["s2"] = before.regs.s2
      /\ before.regs["s3"] = before.regs.s3 /\ before.regs["s4"] = before.regs.s4
  BY DEF Register
<1> QED
  BY <1>1, <1>2, Zenon DEF Kept, SavedRegisters

LEMMA KeptFieldsNext ==
  ASSUME regs' \in Register, before'.regs \in Register
  PROVE  /\ Kept(SavedRegisters)' <=>
              /\ regs'.s0 = before'.regs.s0 /\ regs'.s1 = before'.regs.s1
              /\ regs'.s2 = before'.regs.s2 /\ regs'.s3 = before'.regs.s3
              /\ regs'.s4 = before'.regs.s4
         /\ Kept(SavedRegisters \ {"s0"})' <=>
              /\ regs'.s1 = before'.regs.s1 /\ regs'.s2 = before'.regs.s2
              /\ regs'.s3 = before'.regs.s3 /\ regs'.s4 = before'.regs.s4
         /\ Kept({"s3", "s4"})' <=> regs'.s3 = before'.regs.s3 /\ regs'.s4 = before'.regs.s4
         /\ Kept({"s4"})' <=> regs'.s4 = before'.regs.s4
<1>1. SavedRegisters \ {"s0"} = {"s1", "s2", "s3", "s4"}
  BY DEF SavedRegisters
<1>2. /\ regs'["s0"] = regs'.s0 /\ regs'["s1"] = regs'.s1 /\ regs'["s2"] = regs'.s2
      /\ regs'["s3"] = regs'.s3 /\ regs'["s4"] = regs'.s4
      /\ before'.regs["s0"] = before'.regs.s0 /\ before'.regs["s1"] = before'.regs.s1
      /\ before'.regs["s2"] = before'.regs.s2
      /\ before'.regs["s3"] = before'.regs.s3 /\ before'.regs["s4"] = before'.regs.s4
  BY DEF Register
<1>3. /\ Kept(SavedRegisters)' <=> \A r \in SavedRegisters : regs'[r] = before'.regs[r]
      /\ Kept(SavedRegisters \ {"s0"})' <=>
           \A r \in SavedRegisters \ {"s0"} : regs'[r] = before'.regs[r]
      /\ Kept({"s3", "s4"})' <=> \A r \in {"s3", "s4"} : regs'[r] = before'.regs[r]
      /\ Kept({"s4"})' <=> \A r \in {"s4"} : regs'[r] = before'.regs[r]
  BY Zenon DEF Kept, SavedRegisters
<1> QED
  BY <1>1, <1>2, <1>3, Zenon DEF SavedRegisters

\* What every step keeps.
LEMMA TypeStep ==
  ASSUME TypeOK, before' = before, regs' \in Register, clock' \in Int, HasSizes(memory')
  PROVE  TypeOK' /\ N' = N
<1>1. N' = N
  BY DEF N
<1> QED
  BY <1>1 DEF TypeOK, CallOK, HasSizes

LEMMA MainControl == Control /\ (CallInsertion \/ CallSelection \/ ExitProgram) => Control'
<1> SUFFICES ASSUME Control, CallInsertion \/ CallSelection \/ ExitProgram PROVE Control'
  OBVIOUS
<1>1. /\ pc \in {main, AfterInsertion, AfterSelection}
      /\ UNCHANGED <<stack, console, memory, clock, before>>
  BY DEF CallInsertion, CallSelection, ExitProgram
<1>2. AtRest /\ before.pc = main /\ TypeOK
  BY <1>1, Places DEF Control
<1>3. /\ regs' \in Register /\ regs'.s0 = regs.s0 /\ regs'.s1 = regs.s1 /\ regs'.s2 = regs.s2
      /\ regs'.s3 = regs.s3 /\ regs'.s4 = regs.s4
  <2>1. regs \in Register /\ AfterInsertion \in Int /\ AfterSelection \in Int
    BY <1>2, Labels6 DEF TypeOK
  <2>2. regs' \in {[regs EXCEPT !.ra = AfterInsertion], [regs EXCEPT !.ra = AfterSelection], regs}
    BY DEF CallInsertion, CallSelection, ExitProgram, Jal
  <2> QED
    BY <2>1, <2>2 DEF Register
<1>4. TypeOK'
  BY <1>1, <1>2, <1>3, TypeStep DEF TypeOK
<1>5. Kept(SavedRegisters)'
  BY <1>1, <1>2, <1>3, <1>4, KeptFields, KeptFieldsNext DEF AtRest, TypeOK, CallOK
<1>6. \/ pc' = Exit
      \/ \E s \in Sorters : pc' = s.line /\ regs'.ra = ReturnsTo(s)
  <2>1. regs \in Register
    BY <1>2 DEF TypeOK
  <2>2. CASE CallInsertion
    <3>1. pc' = mainInsertion.line /\ regs'.ra = AfterInsertion
      BY <2>1, <2>2 DEF CallInsertion, Jal, Register
    <3>2. ReturnsTo(mainInsertion) = AfterInsertion
      BY <1>2, Labels6, SorterLabels, SMT DEF ReturnsTo
    <3> QED
      BY <3>1, <3>2 DEF Sorters
  <2>3. CASE CallSelection
    <3>1. pc' = mainSelection.line /\ regs'.ra = AfterSelection
      BY <2>1, <2>3 DEF CallSelection, Jal, Register
    <3>2. ReturnsTo(mainSelection) = AfterSelection
      <4>1. mainSelection # mainInsertion /\ before.pc # mainSelection.line
        BY <1>2, Labels6, SorterLabels, SMT
      <4> QED
        BY <4>1 DEF ReturnsTo
    <3> QED
      BY <3>1, <3>2 DEF Sorters
  <2>4. CASE ExitProgram
    BY <2>4 DEF ExitProgram
  <2> QED
    BY <2>2, <2>3, <2>4
<1>7. AtRest'
  BY <1>1, <1>2, <1>5, <1>6 DEF AtRest, Started, ReturnsTo
<1> QED
  BY <1>4, <1>7 DEF Control

LEMMA SizeLoaded ==
  ASSUME TypeOK, NEW s \in Sorters
  PROVE  Load(s.size) = N /\ s.array \in Int /\ N \in Int /\ N \in 0 .. Room
<1>1. s.size \div 4 \in {Room, 2 * Room + 1} /\ s.array \in Int
  BY Addresses, SorterLabels DEF Sorters
<1>2. N \in 0 .. Room /\ N \in Int
  BY RoomAssumption, SMT DEF TypeOK, CallOK
<1> QED
  BY <1>1, <1>2 DEF Load, TypeOK, HasSizes

LEMMA SorterControl ==
  ASSUME Control, NEW s \in Sorters,
         StartSorter(s) \/ CallSort(s) \/ PrintSorted(s) \/ ReportTime(s)
  PROVE  Control'
<1>1. before' = before /\ memory' = memory
  BY DEF StartSorter, CallSort, PrintSorted, ReportTime
<1>2. /\ TypeOK /\ CallOK /\ regs \in Register /\ before.regs \in Register /\ clock \in Int
      /\ HasSizes(memory')
  BY <1>1 DEF Control, TypeOK, CallOK
<1>3. /\ Load(s.size) = N /\ s.array \in Int /\ N \in Int
      /\ s.afterPrint \in Int /\ s.afterSort \in Int /\ s.afterPrintSorted \in Int
      /\ ReturnsTo(s) \in Int /\ OwnFrame(s) \in Seq(Int)
      /\ before.regs.s0 \in Int
  BY <1>2, SizeLoaded, OwnFrameType
<1>4. OwnFrame(s)' = OwnFrame(s) /\ (Started(s)' <=> Started(s)) /\ ReturnsTo(s)' = ReturnsTo(s)
  BY <1>1 DEF OwnFrame, ReturnsTo, Started
<1>5. CASE StartSorter(s)
  <2>1. AtRest /\ Started(s) /\ regs.ra = ReturnsTo(s)
    BY <1>5, Places DEF StartSorter
  <2>2. /\ pc' = print_array /\ clock' = clock + 1
        /\ stack' = <<regs.s0, regs.ra>> \o << >>
        /\ regs' = [[[regs EXCEPT !.s0 = clock] EXCEPT !.a0 = s.array, !.a1 = N]
                      EXCEPT !.ra = s.afterPrint]
    BY <1>3, <1>5, <2>1 DEF StartSorter, AtRest, Pushed, Jal, WithArray, ReadClock
  <2>3. /\ regs' \in Register /\ regs'.s0 = clock /\ regs'.a0 = s.array /\ regs'.a1 = N
        /\ regs'.ra = s.afterPrint /\ regs'.s1 = regs.s1 /\ regs'.s2 = regs.s2
        /\ regs'.s3 = regs.s3 /\ regs'.s4 = regs.s4
    BY <1>2, <1>3, <2>2 DEF Register
  <2>4. clock' \in Int /\ Timed' = clock
    BY <1>2, <2>2, SMT DEF Timed
  <2>5. TypeOK' /\ N' = N
    BY <1>1, <1>2, <2>3, <2>4, TypeStep
  <2>6. regs.s0 = before.regs.s0 /\ Kept(SavedRegisters \ {"s0"})'
    BY <1>1, <1>2, <2>1, <2>3, KeptFields, KeptFieldsNext DEF AtRest
  <2>7. stack' = OwnFrame(s)
    <3>1. ASSUME NEW a \in Int, NEW b \in Int PROVE <<a, b>> \o << >> = <<a, b>>
      <4>1. <<a, b>> \in Seq(Int)
        BY SMT
      <4> QED
        BY <4>1, ConcatEmptySeq
    <3> QED
      BY <1>3, <2>1, <2>2, <2>6, <3>1 DEF OwnFrame
  <2>8. InSorter(s)'
    BY <1>4, <2>1, <2>2, <2>3, <2>4, <2>5, <2>6, <2>7 DEF InSorter
  <2> QED
    BY <2>5, <2>8 DEF Control
<1>6. CASE CallSort(s) \/ PrintSorted(s)
  <2>1. InSorter(s)
    BY <1>6, Places DEF CallSort, PrintSorted
  <2>2. PICK line \in {s.afterSort, s.afterPrintSorted} :
          /\ regs' = [[regs EXCEPT !.a0 = s.array, !.a1 = N] EXCEPT !.ra = line]
          /\ UNCHANGED <<stack, clock>>
          /\ \/ pc' = print_array /\ line = s.afterPrintSorted
             \/ pc' = s.sort /\ line = s.afterSort
    BY <1>3, <1>6 DEF CallSort, PrintSorted, Jal, WithArray
  <2>3. /\ regs' \in Register /\ regs'.s0 = regs.s0 /\ regs'.a0 = s.array /\ regs'.a1 = N
        /\ regs'.ra = line /\ regs'.s1 = regs.s1 /\ regs'.s2 = regs.s2
        /\ regs'.s3 = regs.s3 /\ regs'.s4 = regs.s4
    BY <1>2, <1>3, <2>2 DEF Register
  <2>4. TypeOK' /\ N' = N /\ Timed' = Timed
    BY <1>1, <1>2, <2>2, <2>3, TypeStep DEF Timed
  <2>5. Kept(SavedRegisters \ {"s0"})'
    BY <1>1, <1>2, <2>1, <2>3, KeptFields, KeptFieldsNext DEF InSorter
  <2>6. InSorter(s)'
    BY <1>4, <2>1, <2>2, <2>3, <2>4, <2>5 DEF InSorter
  <2> QED
    BY <2>4, <2>6 DEF Control
<1>7. CASE ReportTime(s)
  <2>1. InSorter(s)
    BY <1>7, Places DEF ReportTime
  <2>2. Popped(8) = << >> /\ AtSP(0) = before.regs.s0 /\ AtSP(4) = ReturnsTo(s)
    BY <1>3, <2>1, TwoWords DEF InSorter, OwnFrame
  <2>3. /\ regs' = [regs EXCEPT !.s0 = before.regs.s0, !.ra = ReturnsTo(s)]
        /\ stack' = << >> /\ clock' = clock + 1 /\ pc' = regs'.ra
    BY <1>7, <2>2 DEF ReportTime, ReadClock, JrRa
  <2>4. /\ regs' \in Register /\ regs'.s0 = before.regs.s0 /\ regs'.ra = ReturnsTo(s)
        /\ regs'.s1 = regs.s1 /\ regs'.s2 = regs.s2
        /\ regs'.s3 = regs.s3 /\ regs'.s4 = regs.s4
    BY <1>2, <1>3, <2>3 DEF Register
  <2>5. TypeOK'
    BY <1>1, <1>2, <2>3, <2>4, TypeStep, SMT
  <2>6. Kept(SavedRegisters)'
    BY <1>1, <1>2, <2>1, <2>4, KeptFields, KeptFieldsNext DEF InSorter
  <2>7. \/ before.pc = main /\ ReturnsTo(s) \in {AfterInsertion, AfterSelection}
        \/ before.pc # main /\ ReturnsTo(s) = Caller(6)
    BY <2>1, Labels6, SorterLabels, SMT DEF InSorter, Started, ReturnsTo, Sorters
  <2>8. AtRest'
    BY <1>1, <2>3, <2>4, <2>6, <2>7 DEF AtRest
  <2> QED
    BY <2>5, <2>8 DEF Control
<1> QED
  BY <1>5, <1>6, <1>7

LEMMA PrintControl == Control /\ (PrintArray \/ PrintItem \/ PrintDone) => Control'
<1> SUFFICES ASSUME Control, PrintArray \/ PrintItem \/ PrintDone PROVE Control'
  OBVIOUS
<1>1. before' = before /\ memory' = memory /\ clock' = clock
  BY DEF PrintArray, PrintItem, PrintDone
<1>2. /\ TypeOK /\ CallOK /\ regs \in Register /\ before.regs \in Register /\ clock \in Int
      /\ HasSizes(memory') /\ Timed \in Int
  BY <1>1 DEF Control, TypeOK, CallOK, Timed
<1>3. \A s \in Sorters :
        /\ OwnFrame(s)' = OwnFrame(s) /\ (Started(s)' <=> Started(s)) /\ ReturnsTo(s)' = ReturnsTo(s)
        /\ s.afterPrint \in Int /\ s.afterPrintSorted \in Int /\ OwnFrame(s) \in Seq(Int)
        /\ s.array \in Int
  BY <1>1, <1>2, OwnFrameType, SizeLoaded DEF OwnFrame, ReturnsTo, Started
<1>4. /\ before.regs.s1 \in Int /\ before.regs.s2 \in Int
      /\ N \in Int /\ N \in 0 .. Room /\ Timed' = Timed
  <2>1. N \in Int /\ N \in 0 .. Room
    BY <1>2, RoomAssumption, SMT DEF CallOK
  <2> QED
    BY <1>1, <1>2, <2>1 DEF Timed, Register
<1>5. CASE PrintArray
  <2>1. PICK s \in Sorters :
          /\ InSorter(s) /\ regs.ra \in {s.afterPrint, s.afterPrintSorted}
          /\ regs.a0 = s.array /\ regs.a1 = N
    BY <1>5, Places DEF PrintArray
  <2>2. /\ stack' = <<regs.s2, regs.s1, regs.s0, regs.ra>> \o stack
        /\ regs' = [regs EXCEPT !.s0 = regs.a0, !.s1 = regs.a1, !.s2 = 0]
        /\ pc' = print_loop
    BY <1>5 DEF PrintArray, Pushed
  <2>3. /\ regs' \in Register /\ regs'.s0 = s.array /\ regs'.s1 = N /\ regs'.s2 = 0
        /\ regs'.s3 = regs.s3 /\ regs'.s4 = regs.s4
    <3>1. regs' = [regs EXCEPT !.s0 = s.array, !.s1 = N, !.s2 = 0]
      BY <2>1, <2>2
    <3>2. s.array \in Int /\ N \in Int /\ 0 \in Int
      BY <1>3, <1>4
    <3> QED
      BY <1>2, <3>1, <3>2 DEF Register
  <2>4. TypeOK' /\ N' = N
    BY <1>1, <1>2, <2>3, TypeStep
  <2>5. Kept({"s3", "s4"})'
    BY <1>1, <1>2, <2>1, <2>3, KeptFields, KeptFieldsNext DEF InSorter
  <2>6. stack' = <<before.regs.s2, before.regs.s1, Timed, regs.ra>> \o OwnFrame(s)
    BY <1>2, <2>1, <2>2, KeptFields DEF InSorter
  <2>7. 0 \in 0 .. N
    BY <1>4, SMT
  <2>8. Printing(s)'
    BY <1>1, <1>3, <1>4, <2>1, <2>2, <2>3, <2>4, <2>5, <2>6, <2>7 DEF Printing, InSorter
  <2> QED
    BY <2>4, <2>8 DEF Control
<1>6. CASE PrintItem
  <2>1. PICK s \in Sorters : Printing(s)
    BY <1>6, Places DEF PrintItem
  <2>2. /\ regs.s2 < regs.s1 /\ regs' = [regs EXCEPT !.s2 = regs.s2 + 1]
        /\ UNCHANGED <<pc, stack>>
    BY <1>6 DEF PrintItem
  <2>3. /\ regs' \in Register /\ regs'.s0 = regs.s0 /\ regs'.s1 = regs.s1
        /\ regs'.s2 = regs.s2 + 1 /\ regs'.s3 = regs.s3 /\ regs'.s4 = regs.s4
    BY <1>2, <2>2 DEF Register
  <2>4. TypeOK' /\ N' = N
    BY <1>1, <1>2, <2>3, TypeStep
  <2>5. Kept({"s3", "s4"})'
    BY <1>1, <1>2, <2>1, <2>3, KeptFields, KeptFieldsNext DEF Printing
  <2>6. regs'.s2 \in 0 .. N
    <3>1. regs.s2 \in 0 .. N /\ regs.s2 < N
      BY <2>1, <2>2 DEF Printing
    <3> QED
      BY <1>4, <2>3, <3>1, SMT
  <2>7. Printing(s)'
    BY <1>1, <1>3, <1>4, <2>1, <2>2, <2>3, <2>4, <2>5, <2>6 DEF Printing
  <2> QED
    BY <2>4, <2>7 DEF Control
<1>7. CASE PrintDone
  <2>1. PICK s \in Sorters : Printing(s)
    BY <1>7, Places DEF PrintDone
  <2>2. PICK line \in {s.afterPrint, s.afterPrintSorted} :
          stack = <<before.regs.s2, before.regs.s1, Timed, line>> \o OwnFrame(s)
    BY <2>1 DEF Printing
  <2>3. /\ Popped(16) = OwnFrame(s) /\ AtSP(0) = before.regs.s2 /\ AtSP(4) = before.regs.s1
        /\ AtSP(8) = Timed /\ AtSP(12) = line
    <3> DEFINE a == before.regs.s2
               b == before.regs.s1
               c == Timed
               rest == OwnFrame(s)
    <3>1. /\ a \in Int /\ b \in Int /\ c \in Int /\ line \in Int
          /\ rest \in Seq(Int)
      BY <1>2, <1>3, <1>4
    <3>2. stack = <<a, b, c, line>> \o rest
      BY <2>2
    <3> HIDE DEF a, b, c, rest
    <3>3. /\ Popped(16) = rest /\ AtSP(0) = a /\ AtSP(4) = b /\ AtSP(8) = c
          /\ AtSP(12) = line
      BY <3>1, <3>2, FourWords, Zenon
    <3> QED
      BY <3>3 DEF a, b, c, rest
  <2>4. /\ regs' = [regs EXCEPT !.s2 = before.regs.s2, !.s1 = before.regs.s1, !.s0 = Timed,
                                !.ra = line]
        /\ stack' = OwnFrame(s) /\ pc' = regs'.ra
    BY <1>7, <2>3 DEF PrintDone, JrRa
  <2>5. /\ regs' \in Register /\ regs'.s0 = Timed /\ regs'.s1 = before.regs.s1
        /\ regs'.s2 = before.regs.s2 /\ regs'.s3 = regs.s3 /\ regs'.s4 = regs.s4
        /\ regs'.ra = line
    BY <1>2, <1>3, <1>4, <2>4 DEF Register
  <2>6. TypeOK' /\ N' = N
    BY <1>1, <1>2, <2>5, TypeStep
  <2>7. Kept(SavedRegisters \ {"s0"})'
    BY <1>1, <1>2, <2>1, <2>5, KeptFields, KeptFieldsNext DEF Printing
  <2>8. InSorter(s)'
    BY <1>1, <1>3, <1>4, <2>1, <2>4, <2>5, <2>7 DEF InSorter, Printing
  <2> QED
    BY <2>6, <2>8 DEF Control
<1> QED
  BY <1>5, <1>6, <1>7

\* A store to item i of a sorter's array.
LEMMA ItemStored ==
  ASSUME TypeOK, NEW s \in Sorters, NEW i \in 0 .. N - 1, NEW v \in Int,
         memory' = [memory EXCEPT ![(s.array + 4 * i) \div 4] = v]
  PROVE  HasSizes(memory')
<1>1. (s.array + 4 * i) \div 4 = s.array \div 4 + i
  <2>1. s.array = 0 \/ s.array = 4 * (Room + 1)
    BY Addresses, SorterLabels DEF Sorters
  <2>2. i \in Int /\ Room \in Int
    BY RoomAssumption, SMT
  <2> QED
    BY <2>1, <2>2, SMT
<1>2. s.array \div 4 + i \in 0 .. 2 * Room + 1 \ {Room, 2 * Room + 1}
  <2>1. s.array \div 4 \in {0, Room + 1}
    BY Addresses, SorterLabels DEF Sorters
  <2>2. i \in Int /\ 0 <= i /\ i < Room /\ Room \in Nat
    <3>1. N \in 0 .. Room
      BY DEF TypeOK, CallOK
    <3> QED
      BY <3>1, RoomAssumption, SMT
  <2> QED
    BY <2>1, <2>2, SMT
<1> QED
  BY <1>1, <1>2 DEF TypeOK, HasSizes, Data6

\* A load of item i.
LEMMA ItemLoaded ==
  ASSUME TypeOK, NEW s \in Sorters, NEW i \in 0 .. N - 1
  PROVE  /\ Item(s.array, i) = memory[s.array \div 4 + i] /\ Item(s.array, i) \in Int
         /\ s.array \div 4 + i \in 0 .. 2 * Room + 1
         /\ (s.array + 4 * i) \div 4 = s.array \div 4 + i
<1>1. (s.array + 4 * i) \div 4 = s.array \div 4 + i
  <2>1. s.array = 0 \/ s.array = 4 * (Room + 1)
    BY Addresses, SorterLabels DEF Sorters
  <2>2. i \in Int /\ Room \in Int
    BY RoomAssumption, SMT
  <2> QED
    BY <2>1, <2>2, SMT
<1>2. s.array \div 4 + i \in 0 .. 2 * Room + 1
  <2>1. s.array \div 4 \in {0, Room + 1}
    BY Addresses, SorterLabels DEF Sorters
  <2>2. i \in Int /\ 0 <= i /\ i < Room /\ Room \in Nat
    <3>1. N \in 0 .. Room
      BY DEF TypeOK, CallOK
    <3> QED
      BY <3>1, RoomAssumption, SMT
  <2> QED
    BY <2>1, <2>2, SMT
<1> QED
  BY <1>1, <1>2 DEF TypeOK, HasSizes, Data6, Item, Load

LEMMA InsertionControl ==
  Control /\ (InsertionSort \/ TakeKey \/ ShiftItem \/ InsertKey \/ InsertionFinished) => Control'
<1> DEFINE s == mainInsertion
           Words == <<before.regs.s3, before.regs.s2, before.regs.s1, Timed, s.afterSort>>
<1> SUFFICES ASSUME Control,
                    InsertionSort \/ TakeKey \/ ShiftItem \/ InsertKey \/ InsertionFinished
             PROVE  Control'
  OBVIOUS
<1>1. before' = before /\ clock' = clock
  BY DEF InsertionSort, TakeKey, ShiftItem, InsertKey, InsertionFinished
<1>2. /\ TypeOK /\ CallOK /\ regs \in Register /\ before.regs \in Register /\ clock \in Int
      /\ HasSizes(memory) /\ Timed \in Int
  BY DEF Control, TypeOK, CallOK, Timed
<1>3. /\ s \in Sorters
      /\ OwnFrame(s)' = OwnFrame(s) /\ (Started(s)' <=> Started(s)) /\ ReturnsTo(s)' = ReturnsTo(s)
      /\ s.afterSort \in Int /\ OwnFrame(s) \in Seq(Int) /\ s.array = array1 /\ array1 \in Int
      /\ s.sort = insertion_sort
  <2>1. s \in Sorters
    BY DEF Sorters
  <2> QED
    BY <1>1, <1>2, <2>1, OwnFrameType, Addresses, SorterLabels DEF OwnFrame, ReturnsTo, Started
<1>4. /\ before.regs.s1 \in Int /\ before.regs.s2 \in Int /\ before.regs.s2 >= -1
      /\ before.regs.s3 \in Int
      /\ N \in Int /\ N \in 0 .. Room /\ Timed' = Timed
  <2>1. N \in Int /\ N \in 0 .. Room
    BY <1>2, RoomAssumption, SMT DEF CallOK
  <2> QED
    BY <1>1, <1>2, <2>1 DEF Timed, Register, CallOK
<1> HIDE DEF s
<1>5. CASE InsertionSort
  <2>1. InSorter(s) /\ regs.ra = s.afterSort /\ regs.a0 = array1 /\ regs.a1 = N
    BY <1>3, <1>5, Places DEF InsertionSort
  <2>2. /\ stack' = <<regs.s3, regs.s2, regs.s1, regs.s0, regs.ra>> \o stack
        /\ regs' = [regs EXCEPT !.s0 = array1, !.s1 = N, !.s2 = regs.s2 + 1]
        /\ pc' = outer_loop_insertion_sort /\ memory' = memory
    BY <1>5, <2>1 DEF InsertionSort, Pushed
  <2>3. /\ regs' \in Register /\ regs'.s0 = array1 /\ regs'.s1 = N /\ regs'.s2 = regs.s2 + 1
        /\ regs'.s3 = regs.s3 /\ regs'.s4 = regs.s4
    <3>1. regs.s2 + 1 \in Int
      BY <1>2 DEF Register
    <3> QED
      BY <1>2, <1>3, <1>4, <2>2, <3>1 DEF Register
  <2>4. TypeOK' /\ N' = N
    BY <1>1, <1>2, <2>2, <2>3, TypeStep
  <2>5. Kept({"s4"})' /\ regs.s2 = before.regs.s2
    BY <1>1, <1>2, <2>1, <2>3, KeptFields, KeptFieldsNext DEF InSorter
  <2>6. stack' = Words \o OwnFrame(s)
    BY <1>2, <2>1, <2>2, KeptFields DEF InSorter
  <2>7. regs'.s2 \in Nat
    BY <1>4, <2>3, <2>5, SMT
  <2>8. Inserting'
    BY <1>1, <1>3, <1>4, <2>1, <2>2, <2>3, <2>4, <2>5, <2>6, <2>7 DEF Inserting, InSorter, s
  <2> QED
    BY <2>4, <2>8 DEF Control
<1>6. CASE TakeKey \/ ShiftItem \/ InsertKey
  <2>1. /\ Inserting /\ stack' = stack /\ regs.s0 = s.array /\ regs.s1 = N
        /\ regs.s2 \in Nat /\ regs.s2 \in Int /\ regs.t1 \in Int
    <3>1. Inserting /\ stack' = stack
      BY <1>6, Places DEF TakeKey, ShiftItem, InsertKey
    <3>2. regs.s0 = array1 /\ regs.s1 = N /\ regs.s2 \in Nat
      BY <3>1 DEF Inserting
    <3>3. regs.s2 \in Int /\ regs.t1 \in Int
      BY <1>2 DEF Register
    <3> QED
      BY <1>3, <3>1, <3>2, <3>3
  <2>2. /\ regs' \in Register /\ regs'.s0 = array1 /\ regs'.s1 = N /\ regs'.s4 = regs.s4
        /\ regs'.s2 \in Nat /\ HasSizes(memory')
        /\ \/ pc' = outer_loop_insertion_sort
           \/ pc' = inner_loop_insertion_sort /\ regs'.s2 < N /\ regs'.t1 \in -1 .. regs'.s2 - 1
    <3>1. CASE TakeKey
      <4>1. /\ regs.s2 < N /\ memory' = memory /\ pc' = inner_loop_insertion_sort
            /\ regs' = [regs EXCEPT !.s3 = Item(s.array, regs.s2), !.t1 = regs.s2 - 1]
        BY <2>1, <3>1 DEF TakeKey
      <4>2. regs.s2 \in 0 .. N - 1 /\ regs.s2 - 1 \in Int /\ regs.s2 - 1 \in -1 .. regs.s2 - 1
        BY <1>4, <2>1, <4>1, SMT
      <4>3. Item(s.array, regs.s2) \in Int
        BY <1>2, <1>3, <4>2, ItemLoaded
      <4>4. /\ regs' \in Register /\ regs'.s0 = regs.s0 /\ regs'.s1 = regs.s1
            /\ regs'.s4 = regs.s4 /\ regs'.s2 = regs.s2 /\ regs'.t1 = regs.s2 - 1
        BY <1>2, <4>1, <4>2, <4>3 DEF Register
      <4> QED
        BY <1>2, <1>3, <2>1, <4>1, <4>2, <4>4
    <3>2. CASE ShiftItem
      <4>1. /\ regs.s2 < N /\ regs.t1 \in -1 .. regs.s2 - 1
        BY <2>1, <3>2, Labels6 DEF Inserting, ShiftItem
      <4>2. /\ pc' = inner_loop_insertion_sort
            /\ regs' = [regs EXCEPT !.t1 = regs.t1 - 1]
            /\ memory' = [memory EXCEPT ![(s.array + 4 * regs.t1 + 4) \div 4] = Item(s.array, regs.t1)]
            /\ regs.t1 >= 0
        BY <2>1, <3>2 DEF ShiftItem, NextIndex, KeyBelongsAfter
      <4>3. /\ regs.t1 - 1 \in Int /\ regs.t1 - 1 \in -1 .. regs.s2 - 1
            /\ regs.t1 \in 0 .. N - 1 /\ regs.t1 + 1 \in 0 .. N - 1
            /\ s.array + 4 * regs.t1 + 4 = s.array + 4 * (regs.t1 + 1)
        <5>1. /\ regs.t1 \in Int /\ regs.s2 \in Int /\ N \in Int /\ s.array \in Int
              /\ regs.t1 <= regs.s2 - 1
          BY <1>3, <1>4, <2>1, <4>1, SMT
        <5> QED
          BY <4>1, <4>2, <5>1, SMT
      <4>4. Item(s.array, regs.t1) \in Int
        BY <1>2, <1>3, <4>3, ItemLoaded
      <4>5. HasSizes(memory')
        BY <1>2, <1>3, <4>2, <4>3, <4>4, ItemStored
      <4>6. /\ regs' \in Register /\ regs'.s0 = regs.s0 /\ regs'.s1 = regs.s1
            /\ regs'.s4 = regs.s4 /\ regs'.s2 = regs.s2 /\ regs'.t1 = regs.t1 - 1
        BY <1>2, <4>2, <4>3 DEF Register
      <4> QED
        BY <1>3, <2>1, <4>1, <4>2, <4>3, <4>5, <4>6
    <3>3. CASE InsertKey
      <4>1. /\ regs.s2 < N /\ regs.t1 \in -1 .. regs.s2 - 1
        BY <2>1, <3>3, Labels6 DEF Inserting, InsertKey
      <4>2. /\ pc' = outer_loop_insertion_sort
            /\ regs' = [regs EXCEPT !.t1 = regs.t1 + 1, !.s2 = regs.s2 + 1]
            /\ memory' = [memory EXCEPT ![(s.array + 4 * (regs.t1 + 1)) \div 4] = regs.s3]
        BY <2>1, <3>3 DEF InsertKey, InsertsAt
      <4>3. /\ regs.t1 + 1 \in Int /\ regs.s2 + 1 \in Int /\ regs.s2 + 1 \in Nat
            /\ regs.t1 + 1 \in 0 .. N - 1
        BY <1>4, <2>1, <4>1, SMT
      <4>4. regs.s3 \in Int
        BY <1>2 DEF Register
      <4>5. HasSizes(memory')
        BY <1>2, <1>3, <4>2, <4>3, <4>4, ItemStored
      <4>6. /\ regs' \in Register /\ regs'.s0 = regs.s0 /\ regs'.s1 = regs.s1
            /\ regs'.s4 = regs.s4 /\ regs'.s2 = regs.s2 + 1
        BY <1>2, <4>2, <4>3 DEF Register
      <4> QED
        BY <1>3, <2>1, <4>2, <4>3, <4>5, <4>6
    <3> QED
      BY <1>6, <3>1, <3>2, <3>3
  <2>3. TypeOK' /\ N' = N
    BY <1>1, <1>2, <2>2, TypeStep
  <2>4. Kept({"s4"})'
    BY <1>1, <1>2, <2>1, <2>2, KeptFields, KeptFieldsNext DEF Inserting
  <2>5. Started(s) /\ stack' = Words \o OwnFrame(s)
    BY <2>1 DEF Inserting, s
  <2>6. Inserting'
    BY <1>1, <1>3, <1>4, <2>2, <2>3, <2>4, <2>5 DEF Inserting, s
  <2> QED
    BY <2>3, <2>6 DEF Control
<1>7. CASE InsertionFinished
  <2>1. Inserting /\ Started(s) /\ stack = Words \o OwnFrame(s) /\ memory' = memory
    BY <1>7, Places DEF InsertionFinished, Inserting, s
  <2>2. /\ Popped(20) = OwnFrame(s) /\ AtSP(0) = before.regs.s3 /\ AtSP(4) = before.regs.s2
        /\ AtSP(8) = before.regs.s1 /\ AtSP(12) = Timed /\ AtSP(16) = s.afterSort
    <3> DEFINE a == before.regs.s3
               b == before.regs.s2
               c == before.regs.s1
               d == Timed
               e == s.afterSort
               rest == OwnFrame(s)
    <3>1. /\ a \in Int /\ b \in Int /\ c \in Int /\ d \in Int /\ e \in Int
          /\ rest \in Seq(Int)
      BY <1>2, <1>3, <1>4
    <3>2. stack = <<a, b, c, d, e>> \o rest
      BY <2>1
    <3> HIDE DEF a, b, c, d, e, rest
    <3>3. /\ Popped(20) = rest /\ AtSP(0) = a /\ AtSP(4) = b /\ AtSP(8) = c
          /\ AtSP(12) = d /\ AtSP(16) = e
      BY <3>1, <3>2, FiveWords, ZenonT(30)
    <3> QED
      BY <3>3 DEF a, b, c, d, e, rest
  <2>3. /\ regs' = [regs EXCEPT !.s3 = before.regs.s3, !.s2 = before.regs.s2,
                                !.s1 = before.regs.s1, !.s0 = Timed, !.ra = s.afterSort]
        /\ stack' = OwnFrame(s) /\ pc' = regs'.ra
    BY <1>7, <2>2 DEF InsertionFinished, SavedS3, JrRa
  <2>4. /\ regs' \in Register /\ regs'.s0 = Timed /\ regs'.s1 = before.regs.s1
        /\ regs'.s2 = before.regs.s2 /\ regs'.s3 = before.regs.s3 /\ regs'.s4 = regs.s4
        /\ regs'.ra = s.afterSort
    BY <1>2, <1>3, <1>4, <2>3 DEF Register
  <2>5. TypeOK' /\ N' = N
    BY <1>1, <1>2, <2>1, <2>4, TypeStep
  <2>6. Kept(SavedRegisters \ {"s0"})'
    BY <1>1, <1>2, <2>1, <2>4, KeptFields, KeptFieldsNext DEF Inserting
  <2>7. InSorter(s)'
    BY <1>1, <1>3, <1>4, <2>1, <2>3, <2>4, <2>6 DEF InSorter
  <2> QED
    BY <1>3, <2>5, <2>7 DEF Control
<1> QED
  BY <1>5, <1>6, <1>7

LEMMA SelectionControl ==
  Control /\ (SelectionSort \/ SelectFrom \/ CompareItem \/ SwapMinimum \/ SelectionFinished)
    => Control'
<1> DEFINE s == mainSelection
           Words == <<before.regs.s4, before.regs.s3, before.regs.s2, before.regs.s1, Timed,
                      s.afterSort>>
<1> SUFFICES ASSUME Control,
                    SelectionSort \/ SelectFrom \/ CompareItem \/ SwapMinimum \/ SelectionFinished
             PROVE  Control'
  OBVIOUS
<1>1. before' = before /\ clock' = clock
  BY DEF SelectionSort, SelectFrom, CompareItem, SwapMinimum, SelectionFinished
<1>2. /\ TypeOK /\ CallOK /\ regs \in Register /\ before.regs \in Register /\ clock \in Int
      /\ HasSizes(memory) /\ Timed \in Int
  BY DEF Control, TypeOK, CallOK, Timed
<1>3. /\ s \in Sorters
      /\ OwnFrame(s)' = OwnFrame(s) /\ (Started(s)' <=> Started(s)) /\ ReturnsTo(s)' = ReturnsTo(s)
      /\ s.afterSort \in Int /\ OwnFrame(s) \in Seq(Int) /\ s.array = array2 /\ array2 \in Int
      /\ s.sort = selection_sort
  <2>1. s \in Sorters
    BY DEF Sorters
  <2> QED
    BY <1>1, <1>2, <2>1, OwnFrameType, Addresses, SorterLabels DEF OwnFrame, ReturnsTo, Started
<1>4. /\ before.regs.s1 \in Int /\ before.regs.s2 \in Int
      /\ before.regs.s3 \in Int /\ before.regs.s4 \in Int
      /\ N \in Int /\ N \in 0 .. Room /\ Timed' = Timed
  <2>1. N \in Int /\ N \in 0 .. Room
    BY <1>2, RoomAssumption, SMT DEF CallOK
  <2> QED
    BY <1>1, <1>2, <2>1 DEF Timed, Register, CallOK
<1> HIDE DEF s
<1>5. CASE SelectionSort
  <2>1. InSorter(s) /\ regs.ra = s.afterSort /\ regs.a0 = array2 /\ regs.a1 = N
    BY <1>3, <1>5, Places DEF SelectionSort
  <2>2. /\ stack' = <<regs.s4, regs.s3, regs.s2, regs.s1, regs.s0, regs.ra>> \o stack
        /\ regs' = [regs EXCEPT !.s0 = array2, !.s1 = N, !.s2 = 0]
        /\ pc' = outer_loop_selection_sort /\ memory' = memory
    BY <1>5, <2>1 DEF SelectionSort, Pushed
  <2>3. /\ regs' \in Register /\ regs'.s0 = array2 /\ regs'.s1 = N /\ regs'.s2 = 0
    <3>1. 0 \in Int
      OBVIOUS
    <3> QED
      BY <1>2, <1>3, <1>4, <2>2, <3>1 DEF Register
  <2>4. TypeOK' /\ N' = N
    BY <1>1, <1>2, <2>2, <2>3, TypeStep
  <2>5. stack' = Words \o OwnFrame(s)
    BY <1>2, <2>1, <2>2, KeptFields DEF InSorter
  <2>6. 0 \in Nat
    OBVIOUS
  <2>7. Selecting'
    BY <1>1, <1>3, <1>4, <2>1, <2>2, <2>3, <2>4, <2>5, <2>6 DEF Selecting, InSorter, s
  <2> QED
    BY <2>4, <2>7 DEF Control
<1>6. CASE SelectFrom \/ CompareItem \/ SwapMinimum
  <2>1. /\ Selecting /\ stack' = stack /\ regs.s0 = s.array /\ regs.s1 = N
        /\ regs.s2 \in Nat /\ regs.s2 \in Int /\ regs.s3 \in Int /\ regs.s4 \in Int
    <3>1. Selecting /\ stack' = stack
      BY <1>6, Places DEF SelectFrom, CompareItem, SwapMinimum
    <3>2. regs.s0 = array2 /\ regs.s1 = N /\ regs.s2 \in Nat
      BY <3>1 DEF Selecting
    <3>3. regs.s2 \in Int /\ regs.s3 \in Int /\ regs.s4 \in Int
      BY <1>2 DEF Register
    <3> QED
      BY <1>3, <3>1, <3>2, <3>3
  <2>2. /\ regs' \in Register /\ regs'.s0 = array2 /\ regs'.s1 = N
        /\ regs'.s2 \in Nat /\ HasSizes(memory')
        /\ \/ pc' = outer_loop_selection_sort
           \/ /\ pc' = inner_loop_selection_sort /\ regs'.s2 < N - 1
              /\ regs'.s3 \in regs'.s2 .. N - 1 /\ regs'.s4 \in regs'.s2 + 1 .. N
    <3>1. CASE SelectFrom
      <4>1. /\ regs.s2 < N - 1 /\ memory' = memory /\ pc' = inner_loop_selection_sort
            /\ regs' = [regs EXCEPT !.s3 = regs.s2, !.s4 = regs.s2 + 1]
        BY <2>1, <3>1 DEF SelectFrom
      <4>2. /\ regs.s2 + 1 \in Int /\ regs.s2 \in regs.s2 .. N - 1
            /\ regs.s2 + 1 \in regs.s2 + 1 .. N
        BY <1>4, <2>1, <4>1, SMT
      <4>3. /\ regs' \in Register /\ regs'.s0 = regs.s0 /\ regs'.s1 = regs.s1
            /\ regs'.s2 = regs.s2 /\ regs'.s3 = regs.s2 /\ regs'.s4 = regs.s2 + 1
        BY <1>2, <2>1, <4>1, <4>2 DEF Register
      <4> QED
        BY <1>2, <1>3, <2>1, <4>1, <4>2, <4>3
    <3>2. CASE CompareItem
      <4>1. /\ regs.s2 < N - 1 /\ regs.s3 \in regs.s2 .. N - 1 /\ regs.s4 \in regs.s2 + 1 .. N
        BY <2>1, <3>2, Labels6 DEF Selecting, CompareItem
      <4>2. PICK minimum \in {regs.s3, regs.s4} :
              regs' = [regs EXCEPT !.s3 = minimum, !.s4 = regs.s4 + 1]
        BY <3>2 DEF CompareItem, IndexOfMinimum
      <4>3. /\ memory' = memory /\ pc' = inner_loop_selection_sort /\ regs.s4 < N
        BY <2>1, <3>2 DEF CompareItem
      <4>4. /\ regs.s4 + 1 \in Int /\ minimum \in Int /\ minimum \in regs.s2 .. N - 1
            /\ regs.s4 + 1 \in regs.s2 + 1 .. N
        <5>1. \/ minimum = regs.s3
              \/ minimum = regs.s4
          BY <4>2
        <5> QED
          BY <1>4, <2>1, <4>1, <4>3, <5>1, SMT
      <4>5. /\ regs' \in Register /\ regs'.s0 = regs.s0 /\ regs'.s1 = regs.s1
            /\ regs'.s2 = regs.s2 /\ regs'.s3 = minimum /\ regs'.s4 = regs.s4 + 1
        BY <1>2, <4>2, <4>4 DEF Register
      <4> QED
        BY <1>2, <1>3, <2>1, <4>1, <4>3, <4>4, <4>5
    <3>3. CASE SwapMinimum
      <4>1. /\ regs.s2 < N - 1 /\ regs.s3 \in regs.s2 .. N - 1
        BY <2>1, <3>3, Labels6 DEF Selecting, SwapMinimum
      <4>2. regs.s2 \in 0 .. N - 1 /\ regs.s3 \in 0 .. N - 1 /\ regs.s2 + 1 \in Nat
            /\ regs.s2 + 1 \in Int
        BY <1>4, <2>1, <4>1, SMT
      <4> DEFINE i == (regs.s0 + 4 * regs.s2) \div 4
                 m == (regs.s0 + 4 * regs.s3) \div 4
                 memory1 == [memory EXCEPT ![i] = memory[m]]
      <4>3. /\ pc' = outer_loop_selection_sort /\ regs' = [regs EXCEPT !.s2 = regs.s2 + 1]
            /\ memory' = [memory EXCEPT ![i] = memory[m], ![m] = memory[i]]
        BY <3>3 DEF SwapMinimum
      <4>4. HasSizes(memory')
        <5>1. /\ i = array2 \div 4 + regs.s2 /\ m = array2 \div 4 + regs.s3
              /\ i \in 0 .. 2 * Room + 1 /\ m \in 0 .. 2 * Room + 1
          BY <1>2, <1>3, <2>1, <4>2, ItemLoaded
        <5>2. i \notin {Room, 2 * Room + 1} /\ m \notin {Room, 2 * Room + 1}
          <6>1. /\ array2 \div 4 = Room + 1 /\ Room \in Int
                /\ \A k \in 0 .. N - 1 : k \in Int /\ 0 <= k /\ k < Room
            BY <1>4, RoomAssumption, Addresses, SMT
          <6>2. /\ regs.s2 \in Int /\ 0 <= regs.s2 /\ regs.s2 < Room
                /\ regs.s3 \in Int /\ 0 <= regs.s3 /\ regs.s3 < Room
            BY <4>2, <6>1
          <6> QED
            BY <5>1, <6>1, <6>2, SMT
        <5> HIDE DEF i, m
        <5>3. memory[i] \in Int /\ memory[m] \in Int
          BY <1>2, <5>1 DEF HasSizes, Data6
        <5> DEFINE x == memory[i]
                   y == memory[m]
        <5> HIDE DEF x, y
        <5>4. memory' = [memory EXCEPT ![i] = y, ![m] = x] /\ x \in Int /\ y \in Int
          BY <4>3, <5>3 DEF x, y
        <5>5. memory \in [0 .. 2 * Room + 1 -> Int] /\ memory[Room] = N /\ memory[2 * Room + 1] = N
          BY <1>2 DEF HasSizes, Data6
        <5>6. memory' \in [0 .. 2 * Room + 1 -> Int]
          BY <5>4, <5>5
        <5>7. \A k \in 0 .. 2 * Room + 1 : k # i /\ k # m => memory'[k] = memory[k]
          BY <5>4, <5>5
        <5>8. Room \in 0 .. 2 * Room + 1 /\ 2 * Room + 1 \in 0 .. 2 * Room + 1
          BY RoomAssumption, SMT
        <5> QED
          BY <5>2, <5>5, <5>6, <5>7, <5>8 DEF HasSizes, Data6
      <4>5. /\ regs' \in Register /\ regs'.s0 = regs.s0 /\ regs'.s1 = regs.s1
            /\ regs'.s2 = regs.s2 + 1
        BY <1>2, <4>2, <4>3 DEF Register
      <4> QED
        BY <1>3, <2>1, <4>2, <4>3, <4>4, <4>5
    <3> QED
      BY <1>6, <3>1, <3>2, <3>3
  <2>3. TypeOK' /\ N' = N
    BY <1>1, <1>2, <2>2, TypeStep
  <2>4. Started(s) /\ stack' = Words \o OwnFrame(s)
    BY <2>1 DEF Selecting, s
  <2>5. Selecting'
    BY <1>1, <1>3, <1>4, <2>2, <2>3, <2>4 DEF Selecting, s
  <2> QED
    BY <2>3, <2>5 DEF Control
<1>7. CASE SelectionFinished
  <2>1. Selecting /\ Started(s) /\ stack = Words \o OwnFrame(s) /\ memory' = memory
    BY <1>7, Places DEF SelectionFinished, Selecting, s
  <2>2. /\ Popped(24) = OwnFrame(s) /\ AtSP(0) = before.regs.s4 /\ AtSP(4) = before.regs.s3
        /\ AtSP(8) = before.regs.s2 /\ AtSP(12) = before.regs.s1 /\ AtSP(16) = Timed
        /\ AtSP(20) = s.afterSort
    <3> DEFINE w == <<before.regs.s4, before.regs.s3, before.regs.s2, before.regs.s1, Timed,
                      s.afterSort>>
               rest == OwnFrame(s)
    <3>1. rest \in Seq(Int) /\ stack = w \o rest
      BY <1>2, <1>3, <1>4, <2>1
    <3>2. w \in Seq(Int)
      <4>1. /\ before.regs.s4 \in Int /\ before.regs.s3 \in Int /\ before.regs.s2 \in Int
            /\ before.regs.s1 \in Int /\ Timed \in Int /\ s.afterSort \in Int
        BY <1>2, <1>3, <1>4
      <4> QED
        BY <4>1, SMT
    <3>3. /\ Len(w) = 6 /\ w[1] = before.regs.s4 /\ w[2] = before.regs.s3
          /\ w[3] = before.regs.s2 /\ w[4] = before.regs.s1 /\ w[5] = Timed
          /\ w[6] = s.afterSort
      BY SMT
    <3> HIDE DEF w, rest
    <3>4. /\ Popped(24) = rest
          /\ AtSP(0) = w[1] /\ AtSP(4) = w[2] /\ AtSP(8) = w[3] /\ AtSP(12) = w[4]
          /\ AtSP(16) = w[5] /\ AtSP(20) = w[6]
      BY <3>1, <3>2, <3>3, SixWords
    <3> QED
      BY <3>3, <3>4 DEF rest
  <2>3. /\ regs' = [regs EXCEPT !.s4 = before.regs.s4, !.s3 = before.regs.s3,
                                !.s2 = before.regs.s2, !.s1 = before.regs.s1,
                                !.s0 = Timed, !.ra = s.afterSort]
        /\ stack' = OwnFrame(s) /\ pc' = regs'.ra
    BY <1>7, <2>2 DEF SelectionFinished, JrRa
  <2>4. /\ regs' \in Register /\ regs'.s0 = Timed /\ regs'.s1 = before.regs.s1
        /\ regs'.s2 = before.regs.s2 /\ regs'.s3 = before.regs.s3 /\ regs'.s4 = before.regs.s4
        /\ regs'.ra = s.afterSort
    BY <1>2, <1>3, <1>4, <2>3 DEF Register
  <2>5. TypeOK' /\ N' = N
    BY <1>1, <1>2, <2>1, <2>4, TypeStep
  <2>6. Kept(SavedRegisters \ {"s0"})'
    BY <1>1, <1>2, <2>1, <2>4, KeptFieldsNext
  <2>7. InSorter(s)'
    BY <1>1, <1>3, <1>4, <2>1, <2>3, <2>4, <2>6 DEF InSorter
  <2> QED
    BY <1>3, <2>5, <2>7 DEF Control
<1> QED
  BY <1>5, <1>6, <1>7

LEMMA InitControl == InitAsm6 => Control
<1> SUFFICES ASSUME InitAsm6 PROVE Control
  OBVIOUS
<1>1. PICK start \in Starts, items \in [0 .. Room - 1 -> Values], size \in 0 .. Room :
        Called(start.at, Registers6(start.saved), Data(items, size))
  BY DEF InitAsm6
<1> DEFINE data == Data(items, size)
           r == Registers6(start.saved)
<1>2. /\ pc = start.at /\ regs = r /\ memory = data /\ stack = << >>
      /\ before = [pc |-> start.at, regs |-> r, memory |-> data]
  BY <1>1 DEF Called
<1>3. /\ start.at \in {main} \cup {s.line : s \in Sorters}
      /\ start.saved \in CallersRegisters /\ start.saved.s2 >= -1
  BY StartsAssumption
<1>4. data \in Data6 /\ data[Room] = size /\ data[2 * Room + 1] = size
  <2>1. /\ Room \in 0 .. 2 * Room + 1 /\ 2 * Room + 1 \in 0 .. 2 * Room + 1
        /\ size \in Int /\ Room \in Nat
    BY RoomAssumption, SMT
  <2>2. data = [word \in 0 .. 2 * Room + 1 |->
                  IF word \in {Room, 2 * Room + 1} THEN size ELSE items[word % (Room + 1)]]
    BY Addresses DEF Data
  <2>3. \A word \in 0 .. 2 * Room + 1 :
          word \notin {Room, 2 * Room + 1} => word % (Room + 1) \in 0 .. Room - 1
    BY <2>1, SMT
  <2>4. \A i \in 0 .. Room - 1 : items[i] \in Int
    BY ValuesAssumption
  <2> HIDE DEF data
  <2> QED
    BY <2>1, <2>2, <2>3, <2>4 DEF Data6
<1>5. r \in Register /\ r.s2 >= -1 /\ r.ra = Caller(6)
  <2>1. Junk \in Int /\ Caller(6) \in Int
    BY Labels6, SMT DEF Junk
  <2> QED
    BY <1>3, <2>1 DEF Registers6, CallersRegisters, Register
<1> HIDE DEF data, r
<1>6. /\ before.pc = start.at /\ before.regs = r /\ before.memory = data /\ N = size
      /\ size \in 0 .. Room
  BY <1>2, <1>4 DEF N
<1>7. TypeOK
  <2>1. before.pc \in {main, mainInsertion.line, mainSelection.line}
    BY <1>3, <1>6 DEF Sorters
  <2>2. clock \in Int
    BY DEF InitAsm6
  <2> QED
    BY <1>2, <1>4, <1>5, <1>6, <2>1, <2>2 DEF TypeOK, CallOK, HasSizes
<1>8. AtRest
  <2>1. Kept(SavedRegisters)
    BY <1>2, <1>6 DEF Kept
  <2>2. CASE start.at = main
    BY <1>2, <1>6, <2>1, <2>2 DEF AtRest
  <2>3. ASSUME NEW s \in Sorters, start.at = s.line PROVE AtRest
    <3>1. Started(s) /\ ReturnsTo(s) = Caller(6)
      BY <1>6, <2>3 DEF Started, ReturnsTo
    <3> QED
      BY <1>2, <1>5, <2>1, <2>3, <3>1 DEF AtRest
  <2> QED
    BY <1>3, <2>2, <2>3
<1> QED
  BY <1>7, <1>8 DEF Control

\* Code that is at no return address of the program.
LEMMA CalleeSavedOfControl == Control => CalleeSaved
<1> SUFFICES ASSUME Control PROVE CalleeSaved
  OBVIOUS
<1> DEFINE within == UNION {{s.afterPrint, s.afterSort, s.afterPrintSorted} : s \in Sorters}
<1>1. ASSUME pc \in within
      PROVE  /\ Len(stack) = 2 /\ regs.s0 = clock - 1
             /\ \A r \in SavedRegisters \ {"s0"} : regs[r] = before.regs[r]
  <2>1. PICK s \in Sorters : pc \in {s.afterPrint, s.afterSort, s.afterPrintSorted}
    BY <1>1
  <2>2. InSorter(s)
    BY <2>1, Places
  <2>3. CallOK
    BY DEF Control, TypeOK
  <2> QED
    BY <2>2, <2>3, OwnFrameType DEF InSorter, Timed, Kept
<1>2. ASSUME pc \in {AfterInsertion, AfterSelection, Exit, Caller(6)}
      PROVE  AtRest
  <2>1. /\ ~ Inserting /\ ~ Selecting
    BY <1>2, Labels6 DEF Inserting, Selecting
  <2>2. \A s \in Sorters : ~ Printing(s)
    BY <1>2, Labels6 DEF Printing
  <2>3. \A s \in Sorters : ~ InSorter(s)
    <3>1. \A s \in Sorters :
            pc \notin {s.afterPrint, s.afterSort, s.afterPrintSorted, print_array, s.sort}
      BY <1>2, Labels6, SorterLabels, SMT DEF Sorters
    <3> QED
      BY <3>1 DEF InSorter
  <2> QED
    BY <2>1, <2>2, <2>3 DEF Control
<1>3. AtRest => GivenBack(SavedRegisters)
  BY Zenon DEF AtRest, Kept, GivenBack
<1> QED
  BY <1>1, <1>2, <1>3, Zenon DEF CalleeSaved

LEMMA ControlStep == Control /\ [CodeAsm6]_<<call, clock>> => Control'
<1> SUFFICES ASSUME Control, [CodeAsm6]_<<call, clock>> PROVE Control'
  OBVIOUS
<1>1. CASE CallInsertion \/ CallSelection \/ ExitProgram
  BY <1>1, MainControl
<1>2. CASE \E s \in Sorters : StartSorter(s) \/ CallSort(s) \/ PrintSorted(s) \/ ReportTime(s)
  BY <1>2, SorterControl
<1>3. CASE PrintArray \/ PrintItem \/ PrintDone
  BY <1>3, PrintControl
<1>4. CASE InsertionSort \/ TakeKey \/ ShiftItem \/ InsertKey \/ InsertionFinished
  BY <1>4, InsertionControl
<1>5. CASE SelectionSort \/ SelectFrom \/ CompareItem \/ SwapMinimum \/ SelectionFinished
  BY <1>5, SelectionControl
<1>6. CASE UNCHANGED <<call, clock>>
  <2>1. /\ pc' = pc /\ regs' = regs /\ stack' = stack
        /\ memory' = memory /\ before' = before /\ clock' = clock
    BY <1>6 DEF call, machine
  <2>2. TypeOK'
    BY <2>1 DEF Control, TypeOK, CallOK, HasSizes, N
  <2>3. /\ \A s \in Sorters :
             /\ (Started(s)' <=> Started(s)) /\ ReturnsTo(s)' = ReturnsTo(s)
             /\ OwnFrame(s)' = OwnFrame(s)
        /\ mainInsertion \in Sorters /\ mainSelection \in Sorters
        /\ \A registers : Kept(registers)' <=> Kept(registers)
        /\ Timed' = Timed /\ N' = N
    BY <2>1 DEF Started, OwnFrame, ReturnsTo, Timed, Kept, N, Sorters
  <2>4. ASSUME NEW s \in Sorters, InSorter(s) PROVE InSorter(s)'
    BY <2>1, <2>3, <2>4 DEF InSorter
  <2>5. ASSUME NEW s \in Sorters, Printing(s) PROVE Printing(s)'
    BY <2>1, <2>3, <2>5 DEF Printing
  <2>6. AtRest => AtRest'
    BY <2>1, <2>3 DEF AtRest
  <2>7. Inserting => Inserting'
    BY <2>1, <2>3 DEF Inserting
  <2>8. Selecting => Selecting'
    BY <2>1, <2>3 DEF Selecting
  <2> QED
    BY <2>2, <2>4, <2>5, <2>6, <2>7, <2>8, Zenon DEF Control
<1> QED
  BY <1>1, <1>2, <1>3, <1>4, <1>5, <1>6 DEF CodeAsm6

LEMMA ControlInvariant == Spec => []Control
<1>1. InitAsm6 => Control
  BY InitControl
<1>2. Control /\ [CodeAsm6]_<<call, clock>> => Control'
  BY ControlStep
<1> QED
  BY <1>1, <1>2, PTL DEF Spec

\* Every function of asm6.s gives its caller's registers and stack back, on the way
\* and at the end, for arrays of every size and every contents, and whatever
\* number the caller has in each of $s0 to $s4.
THEOREM RegistersAreRestored == Spec => []CalleeSaved
BY ControlInvariant, CalleeSavedOfControl, PTL

-----------------------------------------------------------------------------
(* The items: what a step does to them. *)

\* The memory with the key that insertion_sort holds put into the hole it has made.
Hole == (regs.s0 + 4 * regs.t1 + 4) \div 4
Filled == IF pc = inner_loop_insertion_sort THEN [memory EXCEPT ![Hole] = regs.s3] ELSE memory

First(s) == s.array \div 4
Inside(s) == {First(s) + i : i \in 0 .. N - 1}

\* Two items have changed places.
Exchanged(s, i, j, m1, m2) ==
  /\ m2[First(s) + i] = m1[First(s) + j] /\ m2[First(s) + j] = m1[First(s) + i]
  /\ \A word \in 0 .. 2 * Room + 1 :
       word # First(s) + i /\ word # First(s) + j => m2[word] = m1[word]

Lossless ==
  /\ \A s \in Sorters, v \in Values :
       HowMany(Items(s, Filled), v) = HowMany(Items(s, before.memory), v)
  /\ \A word \in 0 .. 2 * Room + 1 :
       (\A s \in Sorters : word \notin Inside(s)) => Filled[word] = before.memory[word]

LEMMA FirstWords ==
  ASSUME TypeOK
  PROVE  /\ First(mainInsertion) = 0 /\ First(mainSelection) = Room + 1
         /\ N \in Nat /\ N <= Room /\ N \in Int /\ Room \in Nat
         /\ \A s \in Sorters, i \in 0 .. N - 1 :
              /\ First(s) \in Int /\ i \in Int /\ First(s) + i \in 0 .. 2 * Room + 1
              /\ First(s) + i \notin {Room, 2 * Room + 1}
<1>1. First(mainInsertion) = 0 /\ First(mainSelection) = Room + 1
  BY Addresses, SorterLabels DEF First
<1>2. N \in Nat /\ N <= Room /\ N \in Int /\ Room \in Nat
  <2>1. N \in 0 .. Room
    BY DEF TypeOK, CallOK
  <2> QED
    BY <2>1, RoomAssumption, SMT
<1>3. ASSUME NEW s \in Sorters, NEW i \in 0 .. N - 1
      PROVE  /\ First(s) \in Int /\ i \in Int /\ First(s) + i \in 0 .. 2 * Room + 1
             /\ First(s) + i \notin {Room, 2 * Room + 1}
  <2>1. First(s) = 0 \/ First(s) = Room + 1
    BY <1>1 DEF Sorters
  <2> QED
    BY <1>2, <2>1, SMT
<1> QED
  BY <1>1, <1>2, <1>3

LEMMA ItemsOf ==
  ASSUME TypeOK, NEW s \in Sorters, NEW m, HasSizes(m)
  PROVE  /\ Items(s, m) = [i \in 1 .. N |-> m[First(s) + i - 1]]
         /\ DOMAIN Items(s, m) = 1 .. N
         /\ \A i \in 1 .. N : Items(s, m)[i] = m[First(s) + i - 1]
         /\ Items(s, m) \in Seq(Int) /\ Len(Items(s, m)) = N
<1>1. m[s.size \div 4] = N
  <2>1. s.size \div 4 \in {Room, 2 * Room + 1}
    BY Addresses, SorterLabels DEF Sorters
  <2> QED
    BY <2>1 DEF HasSizes
<1>2. Items(s, m) = [i \in 1 .. N |-> m[First(s) + i - 1]]
  BY <1>1 DEF Items, First
<1>3. \A i \in 1 .. N : m[First(s) + i - 1] \in Int
  <2>1. ASSUME NEW i \in 1 .. N PROVE m[First(s) + i - 1] \in Int
    <3>1. i - 1 \in 0 .. N - 1
      BY FirstWords, SMT
    <3>2. First(s) + (i - 1) \in 0 .. 2 * Room + 1 /\ First(s) \in Int
      BY <3>1, FirstWords
    <3>3. First(s) + (i - 1) = First(s) + i - 1
      BY <3>2, SMT
    <3> QED
      BY <3>2, <3>3 DEF HasSizes, Data6
  <2> QED
    BY <2>1
<1> DEFINE items == Items(s, m)
<1> HIDE DEF items
<1>4. items = [i \in 1 .. N |-> m[First(s) + i - 1]]
  BY <1>2 DEF items
<1>5. items \in [1 .. N -> Int] /\ N \in Nat
  BY <1>3, <1>4, FirstWords
<1>6. items \in Seq(Int) /\ Len(items) = N
  BY <1>5, SMT
<1> QED
  BY <1>4, <1>6 DEF items

\* Exchanging two items keeps how many there are of each.
LEMMA ExchangeKeepsItems ==
  ASSUME NEW n \in Nat, NEW f, NEW g, DOMAIN f = 1 .. n, DOMAIN g = 1 .. n,
         NEW p \in 1 .. n, NEW q \in 1 .. n, g[p] = f[q], g[q] = f[p],
         \A i \in 1 .. n : i # p /\ i # q => g[i] = f[i],
         NEW v
  PROVE  HowMany(g, v) = HowMany(f, v)
<1> DEFINE F == {i \in DOMAIN f : f[i] = v}
           G == {i \in DOMAIN g : g[i] = v}
           Other(i) == IF i = p THEN q ELSE IF i = q THEN p ELSE i
           bijection == [i \in F |-> Other(i)]
<1>1. \A i \in 1 .. n : Other(i) \in 1 .. n /\ Other(Other(i)) = i /\ g[Other(i)] = f[i]
  OBVIOUS
<1> HIDE DEF Other
<1>2. \A i \in F : Other(i) \in G
  BY <1>1
<1>3. \A i \in G : Other(i) \in F
  <2>1. ASSUME NEW i \in G PROVE Other(i) \in F
    <3>1. i \in 1 .. n /\ g[i] = v
      OBVIOUS
    <3>2. Other(i) \in 1 .. n /\ Other(Other(i)) = i /\ g[Other(Other(i))] = f[Other(i)]
      BY <1>1, <3>1
    <3> QED
      BY <3>1, <3>2
  <2> QED
    BY <2>1
<1>4. \A i \in F \cup G : Other(Other(i)) = i
  BY <1>1
<1>5. IsFiniteSet(F)
  <2>1. IsFiniteSet(1 .. n)
    BY FS_Interval
  <2> QED
    BY <2>1, FS_Subset
<1> HIDE DEF F, G
<1>6. bijection \in Bijection(F, G)
  <2>1. bijection \in [F -> G]
    BY <1>2
  <2>2. \A a, b \in F : bijection[a] = bijection[b] => a = b
    BY <1>4
  <2>3. \A t \in G : \E a \in F : bijection[a] = t
    BY <1>3, <1>4
  <2> HIDE DEF bijection
  <2> QED
    BY <2>1, <2>2, <2>3 DEF Bijection, Injection, Surjection, IsInjective
<1>7. Cardinality(G) = Cardinality(F)
  BY <1>5, <1>6, FS_Bijection DEF ExistsBijection
<1> QED
  BY <1>7 DEF HowMany, F, G

LEMMA ItemsExchanged ==
  ASSUME TypeOK, NEW s \in Sorters, NEW t \in Sorters, NEW m1, NEW m2, HasSizes(m1), HasSizes(m2),
         NEW i \in 0 .. N - 1, NEW j \in 0 .. N - 1, Exchanged(t, i, j, m1, m2), NEW v
  PROVE  HowMany(Items(s, m2), v) = HowMany(Items(s, m1), v)
<1>1. N \in Nat /\ i + 1 \in 1 .. N /\ j + 1 \in 1 .. N
  BY FirstWords, SMT
<1>2. CASE s = t
  <2>1. /\ Items(s, m2)[i + 1] = Items(s, m1)[j + 1] /\ Items(s, m2)[j + 1] = Items(s, m1)[i + 1]
    <3>1. /\ First(s) + (i + 1) - 1 = First(s) + i
          /\ First(s) + (j + 1) - 1 = First(s) + j
      <4>1. First(s) \in Int /\ i \in Int /\ j \in Int
        BY FirstWords
      <4> QED
        BY <4>1, SMT
    <3> QED
      BY <1>1, <1>2, <3>1, ItemsOf DEF Exchanged
  <2>2. \A k \in 1 .. N : k # i + 1 /\ k # j + 1 => Items(s, m2)[k] = Items(s, m1)[k]
    <3>1. ASSUME NEW k \in 1 .. N, k # i + 1, k # j + 1
          PROVE  m2[First(s) + k - 1] = m1[First(s) + k - 1]
      <4>1. k - 1 \in 0 .. N - 1 /\ First(s) \in Int /\ i \in Int /\ j \in Int /\ k \in Int
        BY <1>1, FirstWords, SMT
      <4>2. First(s) + (k - 1) \in 0 .. 2 * Room + 1
        BY <4>1, FirstWords
      <4>3. /\ First(s) + (k - 1) = First(s) + k - 1
            /\ First(s) + k - 1 # First(s) + i /\ First(s) + k - 1 # First(s) + j
        BY <3>1, <4>1, SMT
      <4> QED
        BY <1>2, <4>2, <4>3 DEF Exchanged
    <3> QED
      BY <3>1, ItemsOf
  <2> DEFINE f == Items(s, m1)
             g == Items(s, m2)
  <2>3. DOMAIN f = 1 .. N /\ DOMAIN g = 1 .. N
    BY ItemsOf
  <2> HIDE DEF f, g
  <2>4. /\ g[i + 1] = f[j + 1] /\ g[j + 1] = f[i + 1]
        /\ \A k \in 1 .. N : k # i + 1 /\ k # j + 1 => g[k] = f[k]
    BY <2>1, <2>2 DEF f, g
  <2>5. HowMany(g, v) = HowMany(f, v)
    BY <1>1, <2>3, <2>4, ExchangeKeepsItems
  <2> QED
    BY <2>5 DEF f, g
<1>3. CASE s # t
  <2>1. \A k \in 1 .. N : m2[First(s) + k - 1] = m1[First(s) + k - 1]
    <3>1. ASSUME NEW k \in 1 .. N PROVE m2[First(s) + k - 1] = m1[First(s) + k - 1]
      <4>1. k - 1 \in 0 .. N - 1 /\ First(s) \in Int /\ k \in Int
        BY <1>1, FirstWords, SMT
      <4>2. First(s) + (k - 1) \in 0 .. 2 * Room + 1
        BY <4>1, FirstWords
      <4>3. First(s) + (k - 1) = First(s) + k - 1
        BY <4>1, SMT
      <4>4. \/ First(s) = 0 /\ First(t) = Room + 1
            \/ First(s) = Room + 1 /\ First(t) = 0
        BY <1>3, FirstWords DEF Sorters
      <4>5. First(s) + k - 1 # First(t) + i /\ First(s) + k - 1 # First(t) + j
        <5>1. N <= Room /\ Room \in Nat /\ N \in Nat
          BY FirstWords
        <5> QED
          BY <4>1, <4>4, <5>1, SMT
      <4> QED
        BY <4>2, <4>3, <4>5 DEF Exchanged
    <3> QED
      BY <3>1
  <2>2. Items(s, m2) = Items(s, m1)
    <3>1. /\ Items(s, m1) = [k \in 1 .. N |-> m1[First(s) + k - 1]]
          /\ Items(s, m2) = [k \in 1 .. N |-> m2[First(s) + k - 1]]
      BY ItemsOf
    <3> QED
      BY <2>1, <3>1, Zenon
  <2> QED
    BY <2>2
<1> QED
  BY <1>2, <1>3

\* The insertion loops' registers as numbers.
LEMMA InsertingNumbers ==
  ASSUME Control, pc = inner_loop_insertion_sort
  PROVE  /\ Inserting /\ regs.s0 = 0 /\ regs.s1 = N /\ regs.s2 \in Nat /\ regs.s2 < N
         /\ regs.t1 \in Int /\ -1 <= regs.t1 /\ regs.t1 < regs.s2 /\ regs.s3 \in Int
         /\ Hole = regs.t1 + 1 /\ Hole \in 0 .. N - 1 /\ Hole \in 0 .. 2 * Room + 1
         /\ Hole \notin {Room, 2 * Room + 1}
<1>1. Inserting /\ TypeOK
  BY Places DEF Control
<1>2. regs.s2 < N /\ regs.t1 \in -1 .. regs.s2 - 1
  BY <1>1, Labels6 DEF Inserting
<1>3. regs.s0 = 0 /\ regs.s1 = N /\ regs.s2 \in Nat
  BY <1>1, Addresses DEF Inserting
<1>4. regs.t1 \in Int /\ regs.s3 \in Int
  BY <1>1 DEF TypeOK, Register
<1>5. -1 <= regs.t1 /\ regs.t1 < regs.s2
  BY <1>2, <1>3, <1>4, SMT
<1>6. Hole = regs.t1 + 1
  BY <1>3, <1>4, SMT DEF Hole
<1>7. N \in Nat /\ N <= Room /\ Room \in Nat
  BY <1>1, FirstWords
<1> QED
  BY <1>1, <1>2, <1>3, <1>4, <1>5, <1>6, <1>7, SMT

\* The words and items of asm6.s's insertion: its array is at address 0.
LEMMA InsertionItem ==
  ASSUME TypeOK, NEW i \in 0 .. N - 1
  PROVE  Item(0, i) = memory[i] /\ memory[i] \in Int /\ i \in 0 .. 2 * Room + 1 /\ i \in Int
<1>1. mainInsertion \in Sorters /\ mainInsertion.array = 0 /\ mainInsertion.array \div 4 = 0
  BY Addresses, SorterLabels DEF Sorters
<1>2. Item(0, i) = memory[0 + i] /\ Item(0, i) \in Int /\ 0 + i \in 0 .. 2 * Room + 1
  BY <1>1, ItemLoaded
<1>3. 0 + i = i /\ i \in Int
  BY FirstWords, SMT
<1> QED
  BY <1>2, <1>3

\* What the two steps of the inner loop do to the memory.
LEMMA ShiftedWords ==
  ASSUME Control, ShiftItem
  PROVE  /\ regs.t1 \in 0 .. N - 1 /\ regs.t1 + 1 \in 0 .. N - 1
         /\ memory' = [memory EXCEPT ![regs.t1 + 1] = memory[regs.t1]]
         /\ regs' = [regs EXCEPT !.t1 = regs.t1 - 1] /\ regs' \in Register
         /\ memory[regs.t1] > regs.s3 /\ pc' = pc /\ before' = before
<1>1. /\ pc = inner_loop_insertion_sort /\ ~ KeyBelongsAfter(regs.t1)
      /\ memory' = [memory EXCEPT ![Hole] = Item(regs.s0, regs.t1)]
      /\ regs' = [regs EXCEPT !.t1 = regs.t1 - 1] /\ pc' = pc /\ before' = before
  BY DEF ShiftItem, NextIndex, Hole
<1>2. TypeOK /\ regs \in Register
  BY DEF Control, TypeOK
<1>3. /\ regs.s0 = 0 /\ Hole = regs.t1 + 1 /\ regs.t1 \in Int /\ regs.s3 \in Int
      /\ regs.s2 \in Nat /\ regs.s2 < N /\ regs.t1 < regs.s2 /\ Hole \in 0 .. N - 1
  BY <1>1, InsertingNumbers
<1>4. regs.t1 >= 0 /\ ~ Item(0, regs.t1) <= regs.s3
  BY <1>1, <1>3 DEF KeyBelongsAfter
<1>5. regs.t1 \in 0 .. N - 1
  BY <1>2, <1>3, <1>4, FirstWords, SMT
<1>6. Item(0, regs.t1) = memory[regs.t1] /\ memory[regs.t1] \in Int
  BY <1>2, <1>5, InsertionItem
<1>7. memory[regs.t1] > regs.s3
  BY <1>3, <1>4, <1>6, SMT
<1>8. regs.t1 - 1 \in Int
  BY <1>3, SMT
<1>9. regs' \in Register
  BY <1>1, <1>2, <1>8 DEF Register
<1> QED
  BY <1>1, <1>3, <1>5, <1>6, <1>7, <1>9

LEMMA InsertedWords ==
  ASSUME Control, InsertKey
  PROVE  /\ pc = inner_loop_insertion_sort
         /\ memory' = [memory EXCEPT ![Hole] = regs.s3]
         /\ regs' = [regs EXCEPT !.t1 = regs.t1 + 1, !.s2 = regs.s2 + 1] /\ regs' \in Register
         /\ regs'.s2 = regs.s2 + 1
         /\ regs.t1 >= 0 => memory[regs.t1] <= regs.s3
         /\ pc' = outer_loop_insertion_sort /\ before' = before
<1>1. /\ pc = inner_loop_insertion_sort /\ KeyBelongsAfter(regs.t1)
      /\ memory' = [memory EXCEPT ![(regs.s0 + 4 * (regs.t1 + 1)) \div 4] = regs.s3]
      /\ regs' = [regs EXCEPT !.t1 = regs.t1 + 1, !.s2 = regs.s2 + 1]
      /\ pc' = outer_loop_insertion_sort /\ before' = before
  BY DEF InsertKey, InsertsAt
<1>2. TypeOK /\ regs \in Register
  BY DEF Control, TypeOK
<1>3. /\ regs.s0 = 0 /\ Hole = regs.t1 + 1 /\ regs.t1 \in Int /\ regs.s3 \in Int
      /\ regs.s2 \in Nat /\ regs.s2 < N /\ regs.t1 < regs.s2
  BY <1>1, InsertingNumbers
<1>4. (regs.s0 + 4 * (regs.t1 + 1)) \div 4 = Hole
  BY <1>3, SMT
<1>5. ASSUME regs.t1 >= 0 PROVE memory[regs.t1] <= regs.s3
  <2>1. regs.t1 \in 0 .. N - 1
    BY <1>2, <1>3, <1>5, FirstWords, SMT
  <2>2. Item(0, regs.t1) = memory[regs.t1]
    BY <1>2, <2>1, InsertionItem
  <2> QED
    BY <1>1, <1>3, <1>5, <2>2 DEF KeyBelongsAfter
<1>6. regs.t1 + 1 \in Int /\ regs.s2 + 1 \in Int
  BY <1>3, SMT
<1>7. regs' \in Register /\ regs'.s2 = regs.s2 + 1
  BY <1>1, <1>2, <1>6 DEF Register
<1> QED
  BY <1>1, <1>4, <1>5, <1>7

LEMMA TakenWords ==
  ASSUME Control, TakeKey
  PROVE  /\ pc = outer_loop_insertion_sort /\ pc' = inner_loop_insertion_sort
         /\ regs.s2 \in 0 .. N - 1 /\ memory' = memory /\ before' = before
         /\ regs' = [regs EXCEPT !.s3 = memory[regs.s2], !.t1 = regs.s2 - 1]
         /\ regs' \in Register /\ regs'.s3 = memory[regs.s2] /\ regs'.t1 = regs.s2 - 1
         /\ regs'.s2 = regs.s2 /\ regs'.s0 = 0
<1>1. /\ pc = outer_loop_insertion_sort /\ pc' = inner_loop_insertion_sort
      /\ regs.s2 < regs.s1 /\ memory' = memory /\ before' = before
      /\ regs' = [regs EXCEPT !.s3 = Item(regs.s0, regs.s2), !.t1 = regs.s2 - 1]
  BY DEF TakeKey
<1>2. TypeOK /\ regs \in Register /\ Inserting
  BY <1>1, Places DEF Control, TypeOK
<1>3. regs.s0 = 0 /\ regs.s1 = N /\ regs.s2 \in Nat
  BY <1>2, Addresses DEF Inserting
<1>4. regs.s2 \in 0 .. N - 1 /\ regs.s2 - 1 \in Int
  BY <1>1, <1>2, <1>3, FirstWords, SMT
<1>5. Item(0, regs.s2) = memory[regs.s2] /\ memory[regs.s2] \in Int
  BY <1>2, <1>4, InsertionItem
<1>6. regs' = [regs EXCEPT !.s3 = memory[regs.s2], !.t1 = regs.s2 - 1]
  BY <1>1, <1>3, <1>5
<1>7. /\ regs' \in Register /\ regs'.s3 = memory[regs.s2] /\ regs'.t1 = regs.s2 - 1
      /\ regs'.s2 = regs.s2 /\ regs'.s0 = regs.s0
  BY <1>2, <1>4, <1>5, <1>6 DEF Register
<1> QED
  BY <1>1, <1>3, <1>4, <1>6, <1>7

LEMMA SwappedWords ==
  ASSUME Control, SwapMinimum
  PROVE  /\ pc = inner_loop_selection_sort /\ pc' = outer_loop_selection_sort /\ before' = before
         /\ regs.s2 \in 0 .. N - 1 /\ regs.s3 \in 0 .. N - 1
         /\ Exchanged(mainSelection, regs.s2, regs.s3, memory, memory')
         /\ regs' = [regs EXCEPT !.s2 = regs.s2 + 1] /\ regs'.s2 = regs.s2 + 1
<1> DEFINE i == (regs.s0 + 4 * regs.s2) \div 4
           m == (regs.s0 + 4 * regs.s3) \div 4
<1>1. /\ pc = inner_loop_selection_sort /\ pc' = outer_loop_selection_sort /\ before' = before
      /\ memory' = [memory EXCEPT ![i] = memory[m], ![m] = memory[i]]
      /\ regs' = [regs EXCEPT !.s2 = regs.s2 + 1]
  BY DEF SwapMinimum
<1>2. TypeOK /\ regs \in Register /\ Selecting
  BY <1>1, Places DEF Control, TypeOK
<1>3. /\ regs.s0 = mainSelection.array /\ mainSelection \in Sorters
      /\ regs.s2 \in Nat /\ regs.s3 \in Int /\ regs.s2 < N - 1 /\ regs.s3 \in regs.s2 .. N - 1
  BY <1>1, <1>2, SorterLabels, Labels6 DEF Selecting, Sorters, Register
<1>4. regs.s2 \in 0 .. N - 1 /\ regs.s3 \in 0 .. N - 1 /\ regs.s2 + 1 \in Int
  BY <1>2, <1>3, FirstWords, SMT
<1>5. /\ i = First(mainSelection) + regs.s2 /\ m = First(mainSelection) + regs.s3
      /\ i \in 0 .. 2 * Room + 1 /\ m \in 0 .. 2 * Room + 1
  BY <1>2, <1>3, <1>4, ItemLoaded DEF First
<1>6. memory \in [0 .. 2 * Room + 1 -> Int]
  BY <1>2 DEF TypeOK, HasSizes, Data6
<1> HIDE DEF i, m
<1>7. /\ memory'[i] = memory[m] /\ memory'[m] = memory[i]
      /\ \A word \in 0 .. 2 * Room + 1 : word # i /\ word # m => memory'[word] = memory[word]
  BY <1>1, <1>5, <1>6
<1>8. Exchanged(mainSelection, regs.s2, regs.s3, memory, memory')
  BY <1>5, <1>7 DEF Exchanged
<1>9. regs'.s2 = regs.s2 + 1
  BY <1>1, <1>2 DEF Register
<1> QED
  BY <1>1, <1>4, <1>8, <1>9

LEMMA FilledType == Control => HasSizes(Filled)
<1> SUFFICES ASSUME Control PROVE HasSizes(Filled)
  OBVIOUS
<1>1. memory \in [0 .. 2 * Room + 1 -> Int] /\ HasSizes(memory)
  BY DEF Control, TypeOK, HasSizes, Data6
<1>2. CASE pc = inner_loop_insertion_sort
  <2>1. /\ Filled = [memory EXCEPT ![Hole] = regs.s3] /\ regs.s3 \in Int
        /\ Hole \in 0 .. 2 * Room + 1 /\ Hole \notin {Room, 2 * Room + 1}
    BY <1>2, InsertingNumbers DEF Filled
  <2> QED
    BY <1>1, <2>1 DEF HasSizes, Data6
<1>3. CASE pc # inner_loop_insertion_sort
  BY <1>1, <1>3 DEF Filled
<1> QED
  BY <1>2, <1>3

\* Where the functions return to.
LEMMA PrintReturns ==
  ASSUME Control, PrintDone
  PROVE  \E s \in Sorters :
           /\ Printing(s) /\ pc' \in {s.afterPrint, s.afterPrintSorted} /\ stack[4] = pc'
<1>1. /\ pc = print_loop
      /\ regs' = [regs EXCEPT !.s2 = AtSP(0), !.s1 = AtSP(4), !.s0 = AtSP(8), !.ra = AtSP(12)]
      /\ pc' = regs'.ra
  BY DEF PrintDone, JrRa
<1>2. PICK s \in Sorters : Printing(s)
  BY <1>1, Places
<1>3. PICK line \in {s.afterPrint, s.afterPrintSorted} :
        stack = <<before.regs.s2, before.regs.s1, Timed, line>> \o OwnFrame(s)
  BY <1>2 DEF Printing
<1>4. /\ before.regs.s1 \in Int /\ before.regs.s2 \in Int /\ Timed \in Int /\ line \in Int
      /\ OwnFrame(s) \in Seq(Int)
  BY OwnFrameType DEF Control, TypeOK, Timed
<1>5. AtSP(12) = line
  <2> DEFINE a == before.regs.s2
             b == before.regs.s1
             c == Timed
             rest == OwnFrame(s)
  <2>1. /\ a \in Int /\ b \in Int /\ c \in Int /\ line \in Int
        /\ rest \in Seq(Int) /\ stack = <<a, b, c, line>> \o rest
    BY <1>3, <1>4
  <2> HIDE DEF a, b, c, rest
  <2> QED
    BY <2>1, FourWords, Zenon
<1>6. AtSP(12) = stack[4]
  BY SMT DEF AtSP
<1>7. pc' = line
  BY <1>1, <1>5 DEF Control, TypeOK, Register
<1> QED
  BY <1>2, <1>5, <1>6, <1>7

LEMMA InsertionReturns ==
  ASSUME Control, InsertionFinished
  PROVE  Inserting /\ pc' = mainInsertion.afterSort
<1>1. /\ pc = outer_loop_insertion_sort
      /\ regs' = [regs EXCEPT !.s3 = AtSP(0), !.s2 = AtSP(4), !.s1 = AtSP(8), !.s0 = AtSP(12),
                              !.ra = AtSP(16)]
      /\ pc' = regs'.ra
  BY DEF InsertionFinished, SavedS3, JrRa
<1>2. Inserting
  BY <1>1, Places
<1> DEFINE a == before.regs.s3
           b == before.regs.s2
           c == before.regs.s1
           d == Timed
           e == mainInsertion.afterSort
           rest == OwnFrame(mainInsertion)
<1>3. mainInsertion \in Sorters /\ CallOK /\ Timed \in Int
  BY DEF Sorters, Control, TypeOK, Timed
<1>4. a \in Int /\ b \in Int /\ c \in Int /\ d \in Int /\ e \in Int /\ rest \in Seq(Int)
  BY <1>3, OwnFrameType
<1>5. stack = <<a, b, c, d, e>> \o rest
  BY <1>2 DEF Inserting
<1> HIDE DEF a, b, c, d, e, rest
<1>6. AtSP(16) = e
  BY <1>4, <1>5, FiveWords
<1>7. pc' = e
  BY <1>1, <1>6 DEF Control, TypeOK, Register
<1> QED
  BY <1>2, <1>7 DEF e

LEMMA SelectionReturns ==
  ASSUME Control, SelectionFinished
  PROVE  Selecting /\ pc' = mainSelection.afterSort
<1>1. /\ pc = outer_loop_selection_sort
      /\ regs' = [regs EXCEPT !.s4 = AtSP(0), !.s3 = AtSP(4), !.s2 = AtSP(8), !.s1 = AtSP(12),
                              !.s0 = AtSP(16), !.ra = AtSP(20)]
      /\ pc' = regs'.ra
  BY DEF SelectionFinished, JrRa
<1>2. Selecting
  BY <1>1, Places
<1> DEFINE w == <<before.regs.s4, before.regs.s3, before.regs.s2, before.regs.s1, Timed,
                  mainSelection.afterSort>>
           rest == OwnFrame(mainSelection)
<1>3. mainSelection \in Sorters /\ CallOK /\ Timed \in Int
  BY DEF Sorters, Control, TypeOK, Timed
<1>4. rest \in Seq(Int) /\ stack = w \o rest
  BY <1>2, <1>3, OwnFrameType DEF Selecting
<1>5. w \in Seq(Int)
  <2>1. /\ before.regs.s4 \in Int /\ before.regs.s3 \in Int /\ before.regs.s2 \in Int
        /\ before.regs.s1 \in Int /\ mainSelection.afterSort \in Int
    BY <1>3, OwnFrameType
  <2> QED
    BY <1>3, <2>1, SMT
<1>6. Len(w) = 6 /\ w[6] = mainSelection.afterSort
  BY SMT
<1> HIDE DEF w, rest
<1>7. AtSP(20) = w[6]
  BY <1>4, <1>5, <1>6, SixWords
<1>8. pc' = mainSelection.afterSort
  BY <1>1, <1>6, <1>7 DEF Control, TypeOK, Register
<1> QED
  BY <1>2, <1>8

\* The four steps of a sorter.
LEMMA SorterReturns ==
  ASSUME Control, NEW s \in Sorters,
         StartSorter(s) \/ CallSort(s) \/ PrintSorted(s) \/ ReportTime(s)
  PROVE  /\ before' = before /\ memory' = memory /\ Started(s) /\ regs' \in Register
         /\ \/ StartSorter(s) /\ pc = s.line /\ pc' = print_array /\ regs'.ra = s.afterPrint
               /\ console' = console
            \/ CallSort(s) /\ pc = s.afterPrint /\ pc' = s.sort /\ console' = console
            \/ PrintSorted(s) /\ pc = s.afterSort /\ pc' = print_array
               /\ regs'.ra = s.afterPrintSorted /\ console' = console
            \/ ReportTime(s) /\ pc = s.afterPrintSorted /\ pc' = ReturnsTo(s)
               /\ console' = Append(console, 1)
<1>1. before' = before /\ memory' = memory /\ regs \in Register
  BY DEF StartSorter, CallSort, PrintSorted, ReportTime, Control, TypeOK
<1>2. regs' \in Register
  BY SorterControl DEF Control, TypeOK
<1>3. CASE StartSorter(s)
  <2>1. /\ pc = s.line /\ pc' = print_array /\ console' = console /\ Started(s)
        /\ regs' = [WithArray(s, [regs EXCEPT !.s0 = clock]) EXCEPT !.ra = s.afterPrint]
    BY <1>3, Places DEF StartSorter, Jal
  <2>2. regs'.ra = s.afterPrint
    BY <1>1, <2>1 DEF WithArray, Register
  <2> QED
    BY <1>1, <1>2, <1>3, <2>1, <2>2
<1>4. CASE CallSort(s)
  <2>1. InSorter(s) /\ pc = s.afterPrint /\ pc' = s.sort /\ console' = console
    BY <1>4, Places DEF CallSort, Jal
  <2> QED
    BY <1>1, <1>2, <1>4, <2>1 DEF InSorter
<1>5. CASE PrintSorted(s)
  <2>1. /\ InSorter(s) /\ pc = s.afterSort /\ pc' = print_array /\ console' = console
        /\ regs' = [WithArray(s, regs) EXCEPT !.ra = s.afterPrintSorted]
    BY <1>5, Places DEF PrintSorted, Jal
  <2>2. regs'.ra = s.afterPrintSorted
    BY <1>1, <2>1 DEF WithArray, Register
  <2> QED
    BY <1>1, <1>2, <1>5, <2>1, <2>2 DEF InSorter
<1>6. CASE ReportTime(s)
  <2>1. /\ InSorter(s) /\ pc = s.afterPrintSorted /\ pc' = regs'.ra
        /\ regs' = [regs EXCEPT !.s0 = AtSP(0), !.ra = AtSP(4)]
        /\ console' = Append(console, clock - regs.s0)
    BY <1>6, Places DEF ReportTime, JrRa
  <2>2. AtSP(4) = ReturnsTo(s)
    BY <2>1, OwnFrameType, TwoWords DEF InSorter, OwnFrame, Control, TypeOK
  <2>3. pc' = ReturnsTo(s)
    BY <1>1, <2>1, <2>2 DEF Register
  <2>4. clock - regs.s0 = 1
    BY <2>1, SMT DEF InSorter, Timed, Control, TypeOK
  <2> QED
    BY <1>1, <1>2, <1>6, <2>1, <2>3, <2>4 DEF InSorter
<1> QED
  BY <1>3, <1>4, <1>5, <1>6

\* A step leaves the words as they are, or exchanges two items of an array.
LEMMA FilledStep ==
  ASSUME Control, [CodeAsm6]_<<call, clock>>
  PROVE  /\ before' = before
         /\ \/ Filled' = Filled
            \/ \E t \in Sorters, i \in 0 .. N - 1, j \in 0 .. N - 1 :
                 Exchanged(t, i, j, Filled, Filled')
<1>1. CASE ShiftItem
  <2> DEFINE t == regs.t1
             key == regs.s3
  <2>1. /\ t \in 0 .. N - 1 /\ t + 1 \in 0 .. N - 1 /\ before' = before /\ pc' = pc
        /\ memory' = [memory EXCEPT ![t + 1] = memory[t]]
        /\ regs' = [regs EXCEPT !.t1 = t - 1] /\ regs' \in Register
    BY <1>1, ShiftedWords
  <2>2. /\ pc = inner_loop_insertion_sort /\ Hole = t + 1 /\ t \in Int /\ regs.s0 = 0
    BY <1>1, InsertingNumbers DEF ShiftItem
  <2>3. regs'.t1 = t - 1 /\ regs'.s3 = key /\ regs'.s0 = 0
    BY <2>1, <2>2 DEF Register, Control, TypeOK
  <2>4. Hole' = t
    <3>1. Hole' = (regs'.s0 + 4 * regs'.t1 + 4) \div 4
      BY DEF Hole
    <3> QED
      BY <2>2, <2>3, <3>1, SMT
  <2>5. /\ Filled = [memory EXCEPT ![t + 1] = key]
        /\ Filled' = [[memory EXCEPT ![t + 1] = memory[t]] EXCEPT ![t] = key]
    BY <2>1, <2>2, <2>3, <2>4 DEF Filled
  <2>6. memory \in [0 .. 2 * Room + 1 -> Int] /\ t \in 0 .. 2 * Room + 1 /\ t + 1 \in 0 .. 2 * Room + 1
    BY <2>1, InsertionItem DEF Control, TypeOK, HasSizes, Data6
  <2>7. t # t + 1
    BY <2>2, SMT
  <2> DEFINE u == t + 1
             m1 == Filled
             m2 == Filled'
  <2> HIDE DEF t, key, u, m1, m2
  <2>8. m1 = [memory EXCEPT ![u] = key] /\ m2 = [[memory EXCEPT ![u] = memory[t]] EXCEPT ![t] = key]
    BY <2>5 DEF u, m1, m2
  <2>9. /\ m2[t] = m1[u] /\ m2[u] = m1[t]
        /\ \A word \in 0 .. 2 * Room + 1 : word # t /\ word # u => m2[word] = m1[word]
    BY <2>6, <2>7, <2>8 DEF u
  <2>10. First(mainInsertion) + t = t /\ First(mainInsertion) + u = u /\ mainInsertion \in Sorters
    BY <2>2, FirstWords, SMT DEF Control, u, Sorters
  <2>11. Exchanged(mainInsertion, t, u, m1, m2)
    BY <2>9, <2>10 DEF Exchanged
  <2>12. t \in 0 .. N - 1 /\ u \in 0 .. N - 1
    BY <2>1 DEF u
  <2> QED
    BY <2>1, <2>10, <2>11, <2>12 DEF m1, m2
<1>2. CASE InsertKey
  <2>1. Filled = memory' /\ Filled' = memory' /\ before' = before
    BY <1>2, InsertedWords, Labels6 DEF Filled
  <2> QED
    BY <2>1
<1>3. CASE TakeKey
  <2>1. /\ pc = outer_loop_insertion_sort /\ pc' = inner_loop_insertion_sort
        /\ regs.s2 \in 0 .. N - 1 /\ memory' = memory /\ before' = before
        /\ regs'.s3 = memory[regs.s2] /\ regs'.t1 = regs.s2 - 1 /\ regs'.s0 = 0
    BY <1>3, TakenWords
  <2>2. regs.s2 \in Int /\ regs.s2 \in 0 .. 2 * Room + 1
    BY <2>1, InsertionItem DEF Control
  <2>3. Hole' = regs.s2
    <3>1. Hole' = (regs'.s0 + 4 * regs'.t1 + 4) \div 4
      BY DEF Hole
    <3> QED
      BY <2>1, <2>2, <3>1, SMT
  <2>4. Filled' = [memory EXCEPT ![regs.s2] = memory[regs.s2]]
    BY <2>1, <2>3 DEF Filled
  <2>5. memory \in [0 .. 2 * Room + 1 -> Int]
    BY DEF Control, TypeOK, HasSizes, Data6
  <2>6. Filled' = memory /\ Filled = memory
    BY <2>1, <2>2, <2>4, <2>5, Labels6 DEF Filled
  <2> QED
    BY <2>1, <2>6
<1>4. CASE SwapMinimum
  <2>1. /\ Filled = memory /\ Filled' = memory' /\ before' = before
        /\ regs.s2 \in 0 .. N - 1 /\ regs.s3 \in 0 .. N - 1
        /\ Exchanged(mainSelection, regs.s2, regs.s3, memory, memory')
    BY <1>4, SwappedWords, Labels6 DEF Filled
  <2> QED
    BY <2>1 DEF Sorters
<1>5. CASE UNCHANGED <<call, clock>>
  BY <1>5 DEF call, machine, Filled, Hole
<1>6. ASSUME /\ before' = before /\ memory' = memory
             /\ pc # inner_loop_insertion_sort /\ pc' # inner_loop_insertion_sort
      PROVE  Filled' = Filled
  BY <1>6 DEF Filled
<1>7. CASE CallInsertion \/ CallSelection \/ ExitProgram
  <2>1. /\ before' = before /\ memory' = memory
        /\ pc \in {main, AfterInsertion, AfterSelection}
        /\ pc' \in {mainInsertion.line, mainSelection.line, Exit}
    BY <1>7 DEF CallInsertion, CallSelection, ExitProgram, Jal
  <2> QED
    BY <1>6, <2>1, Labels6, SorterLabels
<1>8. CASE \E s \in Sorters : StartSorter(s) \/ CallSort(s) \/ PrintSorted(s) \/ ReportTime(s)
  <2>1. PICK s \in Sorters : StartSorter(s) \/ CallSort(s) \/ PrintSorted(s) \/ ReportTime(s)
    BY <1>8
  <2>2. /\ before' = before /\ memory' = memory
        /\ pc \in {s.line, s.afterPrint, s.afterSort, s.afterPrintSorted}
        /\ pc' \in {print_array, s.sort, ReturnsTo(s)}
    BY <2>1, SorterReturns
  <2>3. pc # inner_loop_insertion_sort
    BY <2>2, Labels6, SorterLabels, SMT DEF Sorters
  <2>4. s.sort # inner_loop_insertion_sort
    BY Labels6, SorterLabels DEF Sorters
  <2>5. ReturnsTo(s) # inner_loop_insertion_sort
    BY Labels6 DEF ReturnsTo
  <2> QED
    BY <1>6, <2>2, <2>3, <2>4, <2>5, Labels6
<1>9. CASE PrintArray \/ PrintItem
  <2>1. /\ before' = before /\ memory' = memory /\ pc \in {print_array, print_loop}
        /\ pc' = print_loop
    BY <1>9 DEF PrintArray, PrintItem
  <2> QED
    BY <1>6, <2>1, Labels6
<1>10. CASE PrintDone
  <2>1. before' = before /\ memory' = memory /\ pc = print_loop
    BY <1>10 DEF PrintDone
  <2>2. \E s \in Sorters : pc' \in {s.afterPrint, s.afterPrintSorted}
    BY <1>10, PrintReturns
  <2> QED
    BY <1>6, <2>1, <2>2, Labels6, SorterLabels, SMT DEF Sorters
<1>11. CASE InsertionSort \/ SelectionSort \/ SelectFrom \/ CompareItem
  <2>1. /\ before' = before /\ memory' = memory
        /\ pc \in {insertion_sort, selection_sort, outer_loop_selection_sort,
                   inner_loop_selection_sort}
        /\ pc' \in {outer_loop_insertion_sort, outer_loop_selection_sort,
                    inner_loop_selection_sort}
    BY <1>11 DEF InsertionSort, SelectionSort, SelectFrom, CompareItem
  <2> QED
    BY <1>6, <2>1, Labels6
<1>12. CASE InsertionFinished
  <2>1. /\ before' = before /\ memory' = memory /\ pc = outer_loop_insertion_sort
        /\ pc' = mainInsertion.afterSort
    BY <1>12, InsertionReturns DEF InsertionFinished
  <2> QED
    BY <1>6, <2>1, Labels6, SorterLabels
<1>13. CASE SelectionFinished
  <2>1. /\ before' = before /\ memory' = memory /\ pc = outer_loop_selection_sort
        /\ pc' = mainSelection.afterSort
    BY <1>13, SelectionReturns DEF SelectionFinished
  <2> QED
    BY <1>6, <2>1, Labels6, SorterLabels
<1> QED
  BY <1>1, <1>2, <1>3, <1>4, <1>5, <1>7, <1>8, <1>9, <1>10, <1>11, <1>12, <1>13 DEF CodeAsm6

LEMMA InitLossless == InitAsm6 => Lossless
<1> SUFFICES ASSUME InitAsm6 PROVE Lossless
  OBVIOUS
<1>1. memory = before.memory
  BY DEF InitAsm6, Called
<1>2. pc \in {main} \cup {s.line : s \in Sorters}
  BY StartsAssumption DEF InitAsm6, Called
<1>3. Filled = memory
  BY <1>2, Labels6, SorterLabels, SMT DEF Filled, Sorters
<1> QED
  BY <1>1, <1>3 DEF Lossless

LEMMA LosslessStep ==
  ASSUME Control, Control', Lossless, [CodeAsm6]_<<call, clock>>
  PROVE  Lossless'
<1>1. before' = before /\ N' = N
  BY FilledStep DEF N
<1>2. CASE Filled' = Filled
  BY <1>1, <1>2 DEF Lossless, Inside
<1>3. CASE \E t \in Sorters, i \in 0 .. N - 1, j \in 0 .. N - 1 :
             Exchanged(t, i, j, Filled, Filled')
  <2>1. PICK t \in Sorters, i \in 0 .. N - 1, j \in 0 .. N - 1 :
          Exchanged(t, i, j, Filled, Filled')
    BY <1>3
  <2>2. HasSizes(Filled) /\ HasSizes(Filled') /\ TypeOK
    <3>1. HasSizes(Filled)'
      BY FilledType, PTL
    <3>2. HasSizes(Filled)' => HasSizes(Filled')
      BY <1>1, Zenon DEF HasSizes
    <3> QED
      BY <3>1, <3>2, FilledType DEF Control
  <2>3. ASSUME NEW s \in Sorters, NEW v \in Values
        PROVE  HowMany(Items(s, Filled'), v) = HowMany(Items(s, before.memory), v)
    <3>1. HowMany(Items(s, Filled'), v) = HowMany(Items(s, Filled), v)
      BY <2>1, <2>2, ItemsExchanged
    <3> QED
      BY <3>1 DEF Lossless
  <2>4. ASSUME NEW word \in 0 .. 2 * Room + 1, \A s \in Sorters : word \notin Inside(s)
        PROVE  Filled'[word] = before.memory[word]
    <3>1. word # First(t) + i /\ word # First(t) + j
      BY <2>4 DEF Inside
    <3> QED
      BY <2>1, <2>4, <3>1 DEF Exchanged, Lossless
  <2> QED
    BY <1>1, <2>3, <2>4 DEF Lossless, Inside
<1> QED
  BY <1>2, <1>3, FilledStep

LEMMA NothingLostOfLossless == Control /\ Lossless => NothingLost
<1> SUFFICES ASSUME Control, Lossless PROVE NothingLost
  OBVIOUS
<1> DEFINE inside(s) == {s.array \div 4 + i : i \in 0 .. before.memory[s.size \div 4] - 1}
<1>1. \A s \in Sorters : inside(s) = Inside(s)
  <2>1. ASSUME NEW s \in Sorters PROVE before.memory[s.size \div 4] = N
    <3>1. s.size \div 4 \in {Room, 2 * Room + 1}
      BY Addresses, SorterLabels DEF Sorters
    <3> QED
      BY <3>1 DEF Control, TypeOK, CallOK, HasSizes
  <2> QED
    BY <2>1 DEF Inside, First
<1>2. DOMAIN memory = 0 .. 2 * Room + 1
  BY DEF Control, TypeOK, HasSizes, Data6
<1>3. ASSUME NEW word \in DOMAIN memory \ UNION {inside(s) : s \in Sorters}
      PROVE  memory[word] = before.memory[word]
  <2>1. word \in 0 .. 2 * Room + 1 /\ \A s \in Sorters : word \notin Inside(s)
    BY <1>1, <1>2, <1>3
  <2>2. Filled[word] = before.memory[word]
    BY <2>1 DEF Lossless
  <2>3. Filled[word] = memory[word]
    <3>1. CASE pc = inner_loop_insertion_sort
      <4>1. Hole \in 0 .. N - 1 /\ Hole \in Int
        BY <3>1, InsertingNumbers, FirstWords DEF Control
      <4>2. Hole \in Inside(mainInsertion) /\ mainInsertion \in Sorters
        <5>1. First(mainInsertion) + Hole = Hole
          BY <4>1, FirstWords, SMT DEF Control
        <5> QED
          BY <4>1, <5>1 DEF Inside, Sorters
      <4> QED
        BY <1>2, <2>1, <3>1, <4>2 DEF Filled
    <3>2. CASE pc # inner_loop_insertion_sort
      BY <3>2 DEF Filled
    <3> QED
      BY <3>1, <3>2
  <2> QED
    BY <2>2, <2>3
<1>4. \A s \in Sorters, v \in Values :
        HowMany(Items(s, Filled), v) = HowMany(Items(s, before.memory), v)
  BY DEF Lossless
<1> QED
  BY <1>3, <1>4, Zenon DEF NothingLost, Filled, Hole

LEMMA LosslessInvariant == Spec => []Lossless
<1>1. InitAsm6 => Lossless
  BY InitLossless
<1>2. Control /\ Control' /\ Lossless /\ [CodeAsm6]_<<call, clock>> => Lossless'
  BY LosslessStep
<1> QED
  BY <1>1, <1>2, ControlInvariant, PTL DEF Spec

\* Sorting loses and doubles no item at any time, if the key that insertion_sort holds
\* counts, and writes no word outside the arrays.
THEOREM ItemsAreKept == Spec => []NothingLost
<1>1. Control /\ Lossless => NothingLost
  BY NothingLostOfLossless
<1> QED
  BY <1>1, ControlInvariant, LosslessInvariant, PTL

-----------------------------------------------------------------------------
(* Where the program is, and where each action takes it. *)

\* While an array is printed, the place to which the printer will return.
Place == IF pc = print_array THEN regs.ra ELSE IF pc = print_loop THEN stack[4] ELSE pc

LEMMA MainPlace ==
  ASSUME Control, CallInsertion \/ CallSelection \/ ExitProgram
  PROVE  /\ before' = before /\ memory' = memory /\ console' = console /\ before.pc = main
         /\ Place = pc /\ Place' = pc'
         /\ \/ Place = main /\ Place' = mainInsertion.line
            \/ Place = AfterInsertion /\ Place' = mainSelection.line
            \/ Place = AfterSelection /\ Place' = Exit
<1>1. /\ before' = before /\ memory' = memory /\ console' = console
      /\ \/ pc = main /\ pc' = mainInsertion.line
         \/ pc = AfterInsertion /\ pc' = mainSelection.line
         \/ pc = AfterSelection /\ pc' = Exit
  BY DEF CallInsertion, CallSelection, ExitProgram, Jal
<1>2. pc \notin {print_array, print_loop} /\ pc' \notin {print_array, print_loop}
  BY <1>1, Labels6, SorterLabels
<1>3. Place = pc /\ Place' = pc'
  BY <1>2 DEF Place
<1> QED
  BY <1>1, <1>3, Places

LEMMA SorterPlace ==
  ASSUME Control, NEW s \in Sorters,
         StartSorter(s) \/ CallSort(s) \/ PrintSorted(s) \/ ReportTime(s)
  PROVE  /\ before' = before /\ memory' = memory /\ Started(s) /\ Place = pc
         /\ \/ /\ Place = s.line /\ Place' = s.afterPrint /\ pc' = print_array
               /\ console' = console
            \/ Place = s.afterPrint /\ Place' = s.sort /\ pc' = s.sort /\ console' = console
            \/ /\ Place = s.afterSort /\ Place' = s.afterPrintSorted /\ pc' = print_array
               /\ console' = console
            \/ /\ Place = s.afterPrintSorted /\ Place' = ReturnsTo(s) /\ pc' = ReturnsTo(s)
               /\ console' = Append(console, 1)
<1>1. /\ before' = before /\ memory' = memory /\ Started(s)
      /\ \/ pc = s.line /\ pc' = print_array /\ regs'.ra = s.afterPrint /\ console' = console
         \/ pc = s.afterPrint /\ pc' = s.sort /\ console' = console
         \/ /\ pc = s.afterSort /\ pc' = print_array /\ regs'.ra = s.afterPrintSorted
            /\ console' = console
         \/ /\ pc = s.afterPrintSorted /\ pc' = ReturnsTo(s) /\ console' = Append(console, 1)
  BY SorterReturns, Zenon
<1>2. pc \notin {print_array, print_loop}
  BY <1>1, Labels6, SorterLabels, SMT DEF Sorters
<1>3. /\ pc' = s.sort \/ pc' = ReturnsTo(s) => Place' = pc'
      /\ pc' = print_array => Place' = regs'.ra
  <2>1. s.sort \notin {print_array, print_loop} /\ ReturnsTo(s) \notin {print_array, print_loop}
    BY Labels6, SorterLabels, SMT DEF Sorters, ReturnsTo
  <2> QED
    BY <2>1 DEF Place
<1>4. Place = pc
  BY <1>2 DEF Place
<1> QED
  BY <1>1, <1>3, <1>4

LEMMA PrintPlace ==
  ASSUME Control, PrintArray \/ PrintItem \/ PrintDone
  PROVE  before' = before /\ memory' = memory /\ Place' = Place
<1>1. before' = before /\ memory' = memory
  BY DEF PrintArray, PrintItem, PrintDone
<1>2. CASE PrintArray
  <2>1. /\ pc = print_array /\ pc' = print_loop
        /\ stack' = <<regs.s2, regs.s1, regs.s0, regs.ra>> \o stack
    BY <1>2 DEF PrintArray, Pushed
  <2>2. PICK s \in Sorters : InSorter(s)
    BY <2>1, Places
  <2>3. stack \in Seq(Int)
    BY <2>2, OwnFrameType DEF InSorter, Control, TypeOK
  <2>4. stack'[4] = regs.ra
    <3>1. <<regs.s2, regs.s1, regs.s0, regs.ra>> \in Seq(Int)
      <4>1. regs.s2 \in Int /\ regs.s1 \in Int /\ regs.s0 \in Int /\ regs.ra \in Int
        BY DEF Control, TypeOK, Register
      <4> QED
        BY <4>1, SMT
    <3>2. Len(<<regs.s2, regs.s1, regs.s0, regs.ra>>) = 4 /\ 4 \in 1 .. 4
      BY SMT
    <3>3. (<<regs.s2, regs.s1, regs.s0, regs.ra>> \o stack)[4]
             = <<regs.s2, regs.s1, regs.s0, regs.ra>>[4]
      BY <2>3, <3>1, <3>2, FrameOnStack
    <3> QED
      BY <2>1, <3>3
  <2>5. print_loop # print_array
    BY Labels6
  <2> QED
    BY <1>1, <2>1, <2>4, <2>5 DEF Place
<1>3. CASE PrintItem
  <2>1. pc = print_loop /\ pc' = pc /\ stack' = stack
    BY <1>3 DEF PrintItem
  <2>2. print_loop # print_array
    BY Labels6
  <2> QED
    BY <1>1, <2>1, <2>2 DEF Place
<1>4. CASE PrintDone
  <2>1. pc = print_loop
    BY <1>4 DEF PrintDone
  <2>2. PICK s \in Sorters : pc' \in {s.afterPrint, s.afterPrintSorted} /\ stack[4] = pc'
    BY <1>4, PrintReturns
  <2>3. pc' \notin {print_array, print_loop}
    BY <2>2, Labels6, SorterLabels, SMT DEF Sorters
  <2>4. print_loop # print_array
    BY Labels6
  <2> QED
    BY <1>1, <2>1, <2>2, <2>3, <2>4 DEF Place
<1> QED
  BY <1>2, <1>3, <1>4

LEMMA LoopPlace ==
  ASSUME Control,
         \/ InsertionSort \/ TakeKey \/ ShiftItem \/ InsertKey \/ InsertionFinished
         \/ SelectionSort \/ SelectFrom \/ CompareItem \/ SwapMinimum \/ SelectionFinished
  PROVE  /\ before' = before /\ console' = console /\ Place = pc /\ Place' = pc'
         /\ InsertionSort => pc = mainInsertion.sort /\ pc' = outer_loop_insertion_sort
         /\ TakeKey => pc = outer_loop_insertion_sort /\ pc' = inner_loop_insertion_sort
         /\ ShiftItem => pc = inner_loop_insertion_sort /\ pc' = inner_loop_insertion_sort
         /\ InsertKey => pc = inner_loop_insertion_sort /\ pc' = outer_loop_insertion_sort
         /\ InsertionFinished => pc = outer_loop_insertion_sort /\ pc' = mainInsertion.afterSort
         /\ SelectionSort => pc = mainSelection.sort /\ pc' = outer_loop_selection_sort
         /\ SelectFrom => pc = outer_loop_selection_sort /\ pc' = inner_loop_selection_sort
         /\ CompareItem => pc = inner_loop_selection_sort /\ pc' = inner_loop_selection_sort
         /\ SwapMinimum => pc = inner_loop_selection_sort /\ pc' = outer_loop_selection_sort
         /\ SelectionFinished => pc = outer_loop_selection_sort /\ pc' = mainSelection.afterSort
<1>1. before' = before /\ console' = console
  BY DEF InsertionSort, TakeKey, ShiftItem, InsertKey, InsertionFinished,
         SelectionSort, SelectFrom, CompareItem, SwapMinimum, SelectionFinished
<1>2. /\ InsertionSort => pc = mainInsertion.sort /\ pc' = outer_loop_insertion_sort
      /\ TakeKey => pc = outer_loop_insertion_sort /\ pc' = inner_loop_insertion_sort
      /\ ShiftItem => pc = inner_loop_insertion_sort /\ pc' = inner_loop_insertion_sort
      /\ InsertKey => pc = inner_loop_insertion_sort /\ pc' = outer_loop_insertion_sort
      /\ SelectionSort => pc = mainSelection.sort /\ pc' = outer_loop_selection_sort
      /\ SelectFrom => pc = outer_loop_selection_sort /\ pc' = inner_loop_selection_sort
      /\ CompareItem => pc = inner_loop_selection_sort /\ pc' = inner_loop_selection_sort
      /\ SwapMinimum => pc = inner_loop_selection_sort /\ pc' = outer_loop_selection_sort
  BY SorterLabels DEF InsertionSort, TakeKey, ShiftItem, InsertKey,
         SelectionSort, SelectFrom, CompareItem, SwapMinimum
<1>3. /\ InsertionFinished => pc = outer_loop_insertion_sort /\ pc' = mainInsertion.afterSort
      /\ SelectionFinished => pc = outer_loop_selection_sort /\ pc' = mainSelection.afterSort
  BY InsertionReturns, SelectionReturns DEF InsertionFinished, SelectionFinished
<1>4. pc \notin {print_array, print_loop} /\ pc' \notin {print_array, print_loop}
  BY <1>2, <1>3, Labels6, SorterLabels
<1>5. Place = pc /\ Place' = pc'
  BY <1>4 DEF Place
<1> QED
  BY <1>1, <1>2, <1>3, <1>5

\* What is printed, and for whom.
LEMMA Printer ==
  ASSUME Control, pc \in {print_array, print_loop}
  PROVE  \E s \in Sorters :
           /\ Started(s) /\ Place \in {s.afterPrint, s.afterPrintSorted}
           /\ pc = print_array => regs.a0 = s.array /\ regs.a1 = N
           /\ pc = print_loop => regs.s0 = s.array /\ regs.s1 = N /\ regs.s2 \in 0 .. N
<1>1. CASE pc = print_array
  <2>1. PICK s \in Sorters : /\ InSorter(s) /\ regs.ra \in {s.afterPrint, s.afterPrintSorted}
                             /\ regs.a0 = s.array /\ regs.a1 = N
    BY <1>1, Places
  <2>2. print_array # print_loop
    BY Labels6
  <2> QED
    BY <1>1, <2>1, <2>2 DEF InSorter, Place
<1>2. CASE pc = print_loop
  <2>1. PICK s \in Sorters : Printing(s)
    BY <1>2, Places
  <2>2. PICK line \in {s.afterPrint, s.afterPrintSorted} :
          stack = <<before.regs.s2, before.regs.s1, Timed, line>> \o OwnFrame(s)
    BY <2>1 DEF Printing
  <2>3. /\ before.regs.s1 \in Int /\ before.regs.s2 \in Int /\ Timed \in Int /\ line \in Int
        /\ OwnFrame(s) \in Seq(Int)
    BY OwnFrameType DEF Control, TypeOK, Timed
  <2>4. AtSP(12) = line
    <3> DEFINE a == before.regs.s2
               b == before.regs.s1
               c == Timed
               rest == OwnFrame(s)
    <3>1. /\ a \in Int /\ b \in Int /\ c \in Int /\ line \in Int
          /\ rest \in Seq(Int) /\ stack = <<a, b, c, line>> \o rest
      BY <2>2, <2>3
    <3> HIDE DEF a, b, c, rest
    <3> QED
      BY <3>1, FourWords, Zenon
  <2>5. AtSP(12) = stack[4]
    BY SMT DEF AtSP
  <2>6. print_array # print_loop
    BY Labels6
  <2> QED
    BY <1>2, <2>1, <2>4, <2>5, <2>6 DEF Printing, Place
<1> QED
  BY <1>1, <1>2

-----------------------------------------------------------------------------
(* The order of mainInsertion's array. *)

InsertionLoops == {outer_loop_insertion_sort, inner_loop_insertion_sort}
\* Until insertion_sort has been entered.
BeforeInsertion ==
  {main, mainInsertion.line, mainInsertion.afterPrint, mainInsertion.sort}

\* The first n items are in order; the same without the one at h.
Up(m, n) == \A i, j \in 0 .. N - 1 : i <= j /\ j < n => m[i] <= m[j]
UpBut(m, n, h) ==
  \A i, j \in 0 .. N - 1 : i <= j /\ j < n /\ i # h /\ j # h => m[i] <= m[j]
\* The items before the one from which insertion_sort starts.
WasUp == Up(before.memory, before.regs.s2 + 1)

InsertionOrder ==
  /\ Place \in BeforeInsertion => \A i \in 0 .. N - 1 : memory[i] = before.memory[i]
  /\ pc = outer_loop_insertion_sort => (Up(memory, regs.s2) <=> WasUp)
  /\ pc = inner_loop_insertion_sort =>
       /\ UpBut(memory, regs.s2 + 1, Hole) <=> WasUp
       /\ \A i \in 0 .. N - 1 : Hole < i /\ i <= regs.s2 => memory[i] > regs.s3
  /\ Started(mainInsertion) /\ Place \notin BeforeInsertion \cup InsertionLoops =>
       (Up(memory, N) <=> WasUp)

\* Steps outside the loops.
LEMMA InsertionQuiet ==
  ASSUME InsertionOrder, before' = before, pc' \notin InsertionLoops,
         \A i \in 0 .. N - 1 : memory'[i] = memory[i],
         Place' \in BeforeInsertion => Place \in BeforeInsertion,
         Place' \notin BeforeInsertion /\ Started(mainInsertion) =>
           Place \notin BeforeInsertion \cup InsertionLoops
  PROVE  InsertionOrder'
<1>1. N' = N /\ (Started(mainInsertion)' <=> Started(mainInsertion)) /\ (WasUp' <=> WasUp)
  BY DEF N, Started, WasUp, Up
<1>2. Up(memory, N)' <=> Up(memory, N)
  BY <1>1 DEF Up
<1> QED
  BY <1>1, <1>2 DEF InsertionOrder, InsertionLoops

\* Every place is one of these.
LEMMA PlaceLabels ==
  /\ InsertionLoops = {6130, 6141} /\ BeforeInsertion = {6032, 6045, 6064, 6117}
  /\ \A s \in Sorters :
       /\ s = mainInsertion \/ s = mainSelection
       /\ ReturnsTo(s) \in {6000, 6036, 6042}
BY Labels6, SorterLabels, SMT
   DEF InsertionLoops, BeforeInsertion, Sorters, ReturnsTo

\* selection_sort does not touch the other array.
LEMMA SelectionKeepsItems ==
  ASSUME Control, SelectionSort \/ SelectFrom \/ CompareItem \/ SwapMinimum \/ SelectionFinished,
         NEW i \in 0 .. N - 1
  PROVE  memory'[i] = memory[i]
<1>1. CASE SwapMinimum
  <2>1. /\ Exchanged(mainSelection, regs.s2, regs.s3, memory, memory')
        /\ regs.s2 \in 0 .. N - 1 /\ regs.s3 \in 0 .. N - 1
    BY <1>1, SwappedWords
  <2>2. /\ First(mainSelection) = Room + 1 /\ regs.s2 \in Int /\ regs.s3 \in Int
        /\ N <= Room /\ N \in Nat /\ Room \in Nat
        /\ i \in 0 .. 2 * Room + 1 /\ i \in Int
    BY <2>1, FirstWords, InsertionItem DEF Control
  <2>3. i # First(mainSelection) + regs.s2 /\ i # First(mainSelection) + regs.s3
    BY <2>1, <2>2, SMT
  <2> QED
    BY <2>1, <2>2, <2>3 DEF Exchanged
<1>2. CASE SelectionSort \/ SelectFrom \/ CompareItem \/ SelectionFinished
  BY <1>2 DEF SelectionSort, SelectFrom, CompareItem, SelectionFinished
<1> QED
  BY <1>1, <1>2

LEMMA InsertionOrderQuietStep ==
  ASSUME Control, InsertionOrder,
         \/ CallInsertion \/ CallSelection \/ ExitProgram
         \/ \E s \in Sorters : StartSorter(s) \/ CallSort(s) \/ PrintSorted(s) \/ ReportTime(s)
         \/ PrintArray \/ PrintItem \/ PrintDone
         \/ SelectionSort \/ SelectFrom \/ CompareItem \/ SwapMinimum \/ SelectionFinished
  PROVE  InsertionOrder'
<1>1. CASE CallInsertion \/ CallSelection \/ ExitProgram
  <2>1. /\ before' = before /\ memory' = memory /\ Place' = pc'
        /\ \/ Place = main /\ Place' = mainInsertion.line
           \/ Place = AfterInsertion /\ Place' = mainSelection.line
           \/ Place = AfterSelection /\ Place' = Exit
    BY <1>1, MainPlace
  <2>2. /\ pc' \notin InsertionLoops
        /\ Place' \in BeforeInsertion => Place \in BeforeInsertion
        /\ Place' \notin BeforeInsertion => Place \notin BeforeInsertion \cup InsertionLoops
    BY <2>1, Labels6, SorterLabels, PlaceLabels
  <2> QED
    BY <2>1, <2>2, InsertionQuiet
<1>2. CASE \E s \in Sorters : StartSorter(s) \/ CallSort(s) \/ PrintSorted(s) \/ ReportTime(s)
  <2>1. PICK s \in Sorters : StartSorter(s) \/ CallSort(s) \/ PrintSorted(s) \/ ReportTime(s)
    BY <1>2
  <2>2. /\ before' = before /\ memory' = memory
        /\ \/ Place = s.line /\ Place' = s.afterPrint /\ pc' = print_array
           \/ Place = s.afterPrint /\ Place' = s.sort /\ pc' = s.sort
           \/ Place = s.afterSort /\ Place' = s.afterPrintSorted /\ pc' = print_array
           \/ Place = s.afterPrintSorted /\ Place' = ReturnsTo(s) /\ pc' = ReturnsTo(s)
    BY <2>1, SorterPlace
  <2>3. /\ pc' \notin InsertionLoops
        /\ Place' \in BeforeInsertion => Place \in BeforeInsertion
        /\ Place' \notin BeforeInsertion => Place \notin BeforeInsertion \cup InsertionLoops
    <3>1. CASE s = mainInsertion
      BY <2>2, <3>1, Labels6, SorterLabels, PlaceLabels
    <3>2. CASE s = mainSelection
      BY <2>2, <3>2, Labels6, SorterLabels, PlaceLabels
    <3> QED
      BY <3>1, <3>2, PlaceLabels
  <2> QED
    BY <2>2, <2>3, InsertionQuiet
<1>3. CASE PrintArray \/ PrintItem \/ PrintDone
  <2>1. before' = before /\ memory' = memory /\ Place' = Place
    BY <1>3, PrintPlace
  <2>2. PICK s \in Sorters : Place \in {s.afterPrint, s.afterPrintSorted}
    BY <1>3, Printer DEF PrintArray, PrintItem, PrintDone
  <2>3. Place \notin InsertionLoops
    BY <2>2, Labels6, SorterLabels, PlaceLabels, SMT
  <2>4. pc' = print_loop \/ \E t \in Sorters : pc' \in {t.afterPrint, t.afterPrintSorted}
    BY <1>3, PrintReturns DEF PrintArray, PrintItem
  <2>5. pc' \notin InsertionLoops
    BY <2>4, Labels6, SorterLabels, PlaceLabels, SMT
  <2> QED
    BY <2>1, <2>3, <2>5, InsertionQuiet
<1>4. CASE SelectionSort \/ SelectFrom \/ CompareItem \/ SwapMinimum \/ SelectionFinished
  <2>1. /\ before' = before /\ Place = pc /\ Place' = pc'
        /\ pc \in {6310, 6326, 6334} /\ pc' \in {6326, 6334, 6258}
    BY <1>4, LoopPlace, Labels6, SorterLabels
  <2>2. \A i \in 0 .. N - 1 : memory'[i] = memory[i]
    BY <1>4, SelectionKeepsItems
  <2>3. /\ pc' \notin InsertionLoops /\ Place' \notin BeforeInsertion
        /\ Place \notin BeforeInsertion \cup InsertionLoops
    BY <2>1, PlaceLabels
  <2> QED
    BY <2>1, <2>2, <2>3, InsertionQuiet
<1> QED
  BY <1>1, <1>2, <1>3, <1>4

\* An item is moved up into the hole.
LEMMA HoleMoves ==
  ASSUME N \in Nat, NEW m1, NEW m2, NEW n \in Int, NEW t \in 0 .. N - 1,
         t + 1 \in 0 .. N - 1, t + 1 < n,
         m2[t + 1] = m1[t], \A i \in 0 .. N - 1 : i # t + 1 => m2[i] = m1[i]
  PROVE  UpBut(m2, n, t) <=> UpBut(m1, n, t + 1)
<1>1. t \in Int
  BY SMT
<1>2. ASSUME UpBut(m2, n, t), NEW i \in 0 .. N - 1, NEW j \in 0 .. N - 1,
             i <= j, j < n, i # t + 1, j # t + 1
      PROVE  m1[i] <= m1[j]
  <2> DEFINE at(k) == IF k = t THEN t + 1 ELSE k
  <2>1. m2[at(i)] = m1[i] /\ m2[at(j)] = m1[j]
    BY <1>2
  <2>2. /\ at(i) \in 0 .. N - 1 /\ at(j) \in 0 .. N - 1 /\ at(i) # t /\ at(j) # t
        /\ at(i) <= at(j) /\ at(j) < n
    BY <1>1, <1>2, SMT
  <2> HIDE DEF at
  <2>3. m2[at(i)] <= m2[at(j)]
    BY <1>2, <2>2 DEF UpBut
  <2> QED
    BY <2>1, <2>3
<1>3. ASSUME UpBut(m1, n, t + 1), NEW i \in 0 .. N - 1, NEW j \in 0 .. N - 1,
             i <= j, j < n, i # t, j # t
      PROVE  m2[i] <= m2[j]
  <2> DEFINE at(k) == IF k = t + 1 THEN t ELSE k
  <2>1. m1[at(i)] = m2[i] /\ m1[at(j)] = m2[j]
    BY <1>3
  <2>2. /\ at(i) \in 0 .. N - 1 /\ at(j) \in 0 .. N - 1 /\ at(i) # t + 1 /\ at(j) # t + 1
        /\ at(i) <= at(j) /\ at(j) < n
    BY <1>1, <1>3, SMT
  <2> HIDE DEF at
  <2>3. m1[at(i)] <= m1[at(j)]
    BY <1>3, <2>2 DEF UpBut
  <2> QED
    BY <2>1, <2>3
<1> QED
  BY <1>2, <1>3 DEF UpBut

\* The key is put into the hole.
LEMMA HoleFilled ==
  ASSUME N \in Nat, NEW m1, NEW m2, NEW n \in Int, NEW h \in 0 .. N - 1, h < n,
         NEW key \in Int, \A i \in 0 .. N - 1 : m1[i] \in Int,
         m2[h] = key, \A i \in 0 .. N - 1 : i # h => m2[i] = m1[i],
         h > 0 => m1[h - 1] <= key,
         \A i \in 0 .. N - 1 : h < i /\ i < n => m1[i] > key
  PROVE  Up(m2, n) <=> UpBut(m1, n, h)
<1>1. ASSUME Up(m2, n) PROVE UpBut(m1, n, h)
  BY <1>1 DEF Up, UpBut
<1>2. ASSUME UpBut(m1, n, h), NEW i \in 0 .. N - 1, NEW j \in 0 .. N - 1, i <= j, j < n
      PROVE  m2[i] <= m2[j]
  <2>1. CASE i # h /\ j # h
    BY <1>2, <2>1 DEF UpBut
  <2>2. CASE i = h /\ j = h
    BY <2>2, SMT
  <2>3. CASE i = h /\ j # h
    <3>1. h < j /\ j < n
      BY <1>2, <2>3, SMT
    <3>2. m1[j] > key /\ m1[j] \in Int /\ m2[j] = m1[j] /\ m2[i] = key
      BY <2>3, <3>1
    <3> QED
      BY <3>2, SMT
  <2>4. CASE i # h /\ j = h
    <3>1. h > 0 /\ h - 1 \in 0 .. N - 1 /\ i <= h - 1 /\ h - 1 < n /\ h - 1 # h
      BY <1>2, <2>4, SMT
    <3>2. m1[i] <= m1[h - 1] /\ m1[h - 1] <= key
      BY <1>2, <2>4, <3>1 DEF UpBut
    <3>3. m1[i] \in Int /\ m1[h - 1] \in Int /\ m2[i] = m1[i] /\ m2[j] = key
      BY <2>4, <3>1
    <3> QED
      BY <3>2, <3>3, SMT
  <2> QED
    BY <2>1, <2>2, <2>3, <2>4
<1> QED
  BY <1>1, <1>2 DEF Up

LEMMA InsertionOrderStep ==
  ASSUME Control, InsertionOrder,
         InsertionSort \/ TakeKey \/ ShiftItem \/ InsertKey \/ InsertionFinished
  PROVE  InsertionOrder'
<1>1. before' = before /\ Place = pc /\ Place' = pc' /\ TypeOK
  BY LoopPlace DEF Control
<1>2. N' = N /\ (WasUp' <=> WasUp) /\ (Started(mainInsertion)' <=> Started(mainInsertion))
  BY <1>1 DEF N, WasUp, Up, Started
<1>3. N \in Nat /\ \A i \in 0 .. N - 1 : memory[i] \in Int /\ i \in Int
  BY <1>1, FirstWords, InsertionItem
<1>4. CASE InsertionSort
  <2>1. /\ pc = mainInsertion.sort /\ pc' = outer_loop_insertion_sort /\ memory' = memory
        /\ regs' = [regs EXCEPT !.s0 = regs.a0, !.s1 = regs.a1, !.s2 = regs.s2 + 1]
    BY <1>4, LoopPlace DEF InsertionSort
  <2>2. InSorter(mainInsertion)
    BY <2>1, Places DEF Sorters
  <2>3. regs'.s2 = before.regs.s2 + 1
    <3>1. regs.s2 = before.regs.s2
      BY <1>1, <2>2, KeptFields DEF InSorter, TypeOK, CallOK
    <3> QED
      BY <1>1, <2>1, <3>1 DEF TypeOK, Register
  <2>4. \A i \in 0 .. N - 1 : memory[i] = before.memory[i]
    BY <1>1, <2>1, PlaceLabels, SorterLabels, Labels6 DEF InsertionOrder
  <2>5. Up(memory, regs.s2)' <=> WasUp
    BY <1>1, <1>2, <2>1, <2>3, <2>4 DEF Up, WasUp
  <2>6. pc' # inner_loop_insertion_sort /\ pc' \notin BeforeInsertion /\ pc' \in InsertionLoops
    BY <2>1, PlaceLabels, Labels6
  <2> QED
    BY <1>1, <1>2, <2>1, <2>5, <2>6 DEF InsertionOrder
<1>5. CASE TakeKey
  <2>1. /\ pc = outer_loop_insertion_sort /\ pc' = inner_loop_insertion_sort
        /\ regs.s2 \in 0 .. N - 1 /\ memory' = memory
        /\ regs'.t1 = regs.s2 - 1 /\ regs'.s2 = regs.s2 /\ regs'.s0 = 0
    BY <1>5, TakenWords
  <2>2. Hole' = regs.s2 /\ regs.s2 \in Int
    <3>1. Hole' = (regs'.s0 + 4 * regs'.t1 + 4) \div 4 /\ regs.s2 \in Int
      BY <1>3, <2>1 DEF Hole
    <3> QED
      BY <2>1, <3>1, SMT
  <2>3. UpBut(memory, regs.s2 + 1, regs.s2) <=> Up(memory, regs.s2)
    <3>1. \A i, j \in 0 .. N - 1 :
            i <= j => (j < regs.s2 + 1 /\ i # regs.s2 /\ j # regs.s2 <=> j < regs.s2)
      BY <1>3, <2>2, SMT
    <3> QED
      BY <3>1, Zenon DEF UpBut, Up
  <2>4. Up(memory, regs.s2) <=> WasUp
    BY <2>1 DEF InsertionOrder
  <2>5. UpBut(memory, regs.s2 + 1, Hole)' <=> WasUp
    BY <1>2, <2>1, <2>2, <2>3, <2>4 DEF UpBut
  <2>6. \A i \in 0 .. N' - 1 : Hole' < i /\ i <= regs'.s2 => memory'[i] > regs'.s3
    BY <1>2, <1>3, <2>1, <2>2, SMT
  <2>7. pc' # outer_loop_insertion_sort /\ pc' \notin BeforeInsertion /\ pc' \in InsertionLoops
    BY <2>1, PlaceLabels, Labels6
  <2> QED
    BY <1>1, <1>2, <2>5, <2>6, <2>7 DEF InsertionOrder
<1>6. CASE ShiftItem
  <2> DEFINE t == regs.t1
             n == regs.s2 + 1
  <2>1. /\ t \in 0 .. N - 1 /\ t + 1 \in 0 .. N - 1 /\ pc' = pc
        /\ memory' = [memory EXCEPT ![t + 1] = memory[t]]
        /\ regs' = [regs EXCEPT !.t1 = t - 1] /\ regs' \in Register /\ memory[t] > regs.s3
    BY <1>6, ShiftedWords
  <2>2. /\ pc = inner_loop_insertion_sort /\ Hole = t + 1 /\ t \in Int /\ regs.s0 = 0
        /\ t < regs.s2 /\ regs.s2 \in Nat /\ regs.s3 \in Int
    BY <1>6, InsertingNumbers DEF ShiftItem
  <2>3. regs'.t1 = t - 1 /\ regs'.s3 = regs.s3 /\ regs'.s0 = 0 /\ regs'.s2 = regs.s2
    BY <1>1, <2>1, <2>2 DEF Register, TypeOK
  <2>4. Hole' = t
    <3>1. Hole' = (regs'.s0 + 4 * regs'.t1 + 4) \div 4
      BY DEF Hole
    <3> QED
      BY <2>2, <2>3, <3>1, SMT
  <2>5. n \in Int /\ t + 1 < n
    BY <2>2, SMT
  <2>6. /\ memory'[t + 1] = memory[t]
        /\ \A i \in 0 .. N - 1 : i # t + 1 => memory'[i] = memory[i]
    <3>1. memory \in [0 .. 2 * Room + 1 -> Int] /\ t + 1 \in 0 .. 2 * Room + 1
      BY <1>1, <2>1, InsertionItem DEF TypeOK, HasSizes, Data6
    <3>2. \A i \in 0 .. N - 1 : i \in 0 .. 2 * Room + 1
      BY <1>1, InsertionItem
    <3> DEFINE u == t + 1
               old == memory[t]
    <3>3. memory' = [memory EXCEPT ![u] = old] /\ u \in 0 .. 2 * Room + 1
      BY <2>1, <3>1
    <3> HIDE DEF u, old
    <3>4. memory'[u] = old /\ \A i \in 0 .. N - 1 : i # u => memory'[i] = memory[i]
      BY <3>1, <3>2, <3>3
    <3> QED
      BY <3>4 DEF u, old
  <2>7. UpBut(memory', n, t) <=> UpBut(memory, n, t + 1)
    <3> DEFINE m2 == memory'
    <3>1. m2[t + 1] = memory[t] /\ \A i \in 0 .. N - 1 : i # t + 1 => m2[i] = memory[i]
      BY <2>6
    <3> HIDE DEF m2, n, t
    <3>2. UpBut(m2, n, t) <=> UpBut(memory, n, t + 1)
      BY <1>3, <2>1, <2>5, <3>1, HoleMoves
    <3> QED
      BY <3>2 DEF m2
  <2>8. UpBut(memory, n, t + 1) <=> WasUp
    BY <2>2 DEF InsertionOrder
  <2>9. UpBut(memory, regs.s2 + 1, Hole)' <=> WasUp
    BY <1>2, <2>3, <2>4, <2>7, <2>8 DEF UpBut
  <2>10. ASSUME NEW i \in 0 .. N' - 1, Hole' < i, i <= regs'.s2 PROVE memory'[i] > regs'.s3
    <3>1. i \in 0 .. N - 1 /\ i \in Int /\ t < i /\ i <= regs.s2
      BY <1>2, <1>3, <2>3, <2>4, <2>10
    <3>2. CASE i = t + 1
      BY <2>1, <2>3, <2>6, <3>2
    <3>3. CASE i # t + 1
      <4>1. Hole < i
        BY <2>2, <3>1, <3>3, SMT
      <4>2. memory[i] > regs.s3
        BY <2>2, <3>1, <4>1 DEF InsertionOrder
      <4> QED
        BY <2>3, <2>6, <3>1, <3>3, <4>2
    <3> QED
      BY <3>2, <3>3
  <2>11. pc' # outer_loop_insertion_sort /\ pc' \notin BeforeInsertion /\ pc' \in InsertionLoops
    BY <2>1, <2>2, PlaceLabels, Labels6
  <2> QED
    BY <1>1, <1>2, <2>9, <2>10, <2>11 DEF InsertionOrder
<1>7. CASE InsertKey
  <2>1. /\ pc = inner_loop_insertion_sort /\ memory' = [memory EXCEPT ![Hole] = regs.s3]
        /\ regs'.s2 = regs.s2 + 1
        /\ regs.t1 >= 0 => memory[regs.t1] <= regs.s3
        /\ pc' = outer_loop_insertion_sort
    BY <1>7, InsertedWords
  <2>2. /\ Hole = regs.t1 + 1 /\ regs.t1 \in Int /\ regs.t1 < regs.s2 /\ regs.s2 \in Nat
        /\ regs.s3 \in Int /\ Hole \in 0 .. N - 1
    BY <2>1, InsertingNumbers
  <2> DEFINE h == Hole
             key == regs.s3
             n == regs.s2 + 1
             m2 == memory'
  <2>3. n \in Int /\ h < n /\ (h > 0 => memory[h - 1] <= key)
    <3>1. Hole - 1 = regs.t1 /\ (Hole > 0 => regs.t1 >= 0) /\ regs.s2 + 1 \in Int /\ Hole < regs.s2 + 1
      BY <2>2, SMT
    <3>2. Hole > 0 => memory[Hole - 1] <= regs.s3
      BY <2>1, <3>1
    <3> QED
      BY <3>1, <3>2
  <2>4. m2[h] = key /\ \A i \in 0 .. N - 1 : i # h => m2[i] = memory[i]
    <3>1. memory \in [0 .. 2 * Room + 1 -> Int] /\ \A i \in 0 .. N - 1 : i \in 0 .. 2 * Room + 1
      BY <1>1, InsertionItem DEF TypeOK, HasSizes, Data6
    <3> HIDE DEF h, key
    <3> QED
      BY <2>1, <2>2, <3>1 DEF h, key
  <2>5. \A i \in 0 .. N - 1 : h < i /\ i < n => memory[i] > key
    <3>1. \A i \in 0 .. N - 1 : i < regs.s2 + 1 => i <= regs.s2
      BY <1>3, <2>2, SMT
    <3> QED
      BY <2>1, <3>1 DEF InsertionOrder
  <2>6. h \in 0 .. N - 1 /\ key \in Int
    BY <2>2
  <2>7. UpBut(memory, n, h) <=> WasUp
    BY <2>1 DEF InsertionOrder
  <2> HIDE DEF h, key, n, m2
  <2>8. Up(m2, n) <=> UpBut(memory, n, h)
    BY <1>3, <2>3, <2>4, <2>5, <2>6, HoleFilled
  <2>9. Up(memory, regs.s2)' <=> Up(m2, n)
    <3>1. memory' = m2 /\ regs'.s2 = n /\ N' = N
      BY <1>2, <2>1 DEF m2, n
    <3> QED
      BY <3>1, Zenon DEF Up
  <2>10. pc' # inner_loop_insertion_sort /\ pc' \notin BeforeInsertion /\ pc' \in InsertionLoops
    BY <2>1, PlaceLabels, Labels6
  <2> QED
    BY <1>1, <1>2, <2>7, <2>8, <2>9, <2>10 DEF InsertionOrder
<1>8. CASE InsertionFinished
  <2>1. /\ pc = outer_loop_insertion_sort /\ pc' = mainInsertion.afterSort /\ memory' = memory
        /\ regs.s2 >= regs.s1 /\ Inserting
    BY <1>8, LoopPlace, InsertionReturns DEF InsertionFinished
  <2>2. regs.s1 = N /\ regs.s2 \in Nat
    BY <2>1 DEF Inserting
  <2>3. Up(memory, regs.s2) <=> Up(memory, N)
    <3>1. \A j \in 0 .. N - 1 : j < N /\ j < regs.s2
      BY <1>3, <2>1, <2>2, SMT
    <3> QED
      BY <3>1, Zenon DEF Up
  <2>4. Up(memory, regs.s2) <=> WasUp
    BY <2>1 DEF InsertionOrder
  <2>5. Up(memory, N)' <=> WasUp
    BY <1>2, <2>1, <2>3, <2>4 DEF Up
  <2>6. pc' \notin BeforeInsertion \cup InsertionLoops
    BY <2>1, PlaceLabels, SorterLabels
  <2> QED
    BY <1>1, <1>2, <2>5, <2>6 DEF InsertionOrder, InsertionLoops
<1> QED
  BY <1>4, <1>5, <1>6, <1>7, <1>8

LEMMA InsertionOrderNext ==
  Control /\ InsertionOrder /\ [CodeAsm6]_<<call, clock>> => InsertionOrder'
<1> SUFFICES ASSUME Control, InsertionOrder, [CodeAsm6]_<<call, clock>> PROVE InsertionOrder'
  OBVIOUS
<1>1. CASE InsertionSort \/ TakeKey \/ ShiftItem \/ InsertKey \/ InsertionFinished
  BY <1>1, InsertionOrderStep
<1>2. CASE \/ CallInsertion \/ CallSelection \/ ExitProgram
           \/ \E s \in Sorters : StartSorter(s) \/ CallSort(s) \/ PrintSorted(s) \/ ReportTime(s)
           \/ PrintArray \/ PrintItem \/ PrintDone
           \/ SelectionSort \/ SelectFrom \/ CompareItem \/ SwapMinimum \/ SelectionFinished
  BY <1>2, InsertionOrderQuietStep
<1>3. CASE UNCHANGED <<call, clock>>
  BY <1>3 DEF call, machine, InsertionOrder, Place, N, Up, UpBut, WasUp, Started, Hole
<1> QED
  BY <1>1, <1>2, <1>3 DEF CodeAsm6

LEMMA InitInsertionOrder == InitAsm6 => InsertionOrder
<1> SUFFICES ASSUME InitAsm6 PROVE InsertionOrder
  OBVIOUS
<1>1. memory = before.memory /\ pc = before.pc /\ pc \in {main} \cup {s.line : s \in Sorters}
  BY StartsAssumption DEF InitAsm6, Called
<1>2. /\ pc \notin {print_array, print_loop} /\ pc \notin InsertionLoops
      /\ pc \in BeforeInsertion \/ pc = mainSelection.line
  BY <1>1, Labels6, SorterLabels, PlaceLabels, SMT DEF Sorters
<1>3. Place = pc
  BY <1>2 DEF Place
<1>4. pc = mainSelection.line => ~ Started(mainInsertion)
  BY <1>1, Labels6, SorterLabels DEF Started
<1> QED
  BY <1>1, <1>2, <1>3, <1>4 DEF InsertionOrder, InsertionLoops

\* Sequences of items that are in order.
LEMMA AscendingItems ==
  ASSUME TypeOK, NEW m, HasSizes(m), NEW n \in Int
  PROVE  Ascending([i \in (1 .. n) \cap DOMAIN Items(mainInsertion, m) |->
                      Items(mainInsertion, m)[i]]) <=> Up(m, n)
<1> DEFINE items == Items(mainInsertion, m)
           part == [i \in (1 .. n) \cap DOMAIN items |-> items[i]]
<1>1. N \in Nat /\ First(mainInsertion) = 0 /\ mainInsertion \in Sorters
  BY FirstWords DEF Sorters
<1>2. DOMAIN items = 1 .. N /\ \A i \in 1 .. N : items[i] = m[First(mainInsertion) + i - 1]
  BY <1>1, ItemsOf
<1>3. \A i \in 1 .. N : items[i] = m[i - 1]
  <2>1. \A i \in 1 .. N : First(mainInsertion) + i - 1 = i - 1
    BY <1>1, SMT
  <2> QED
    BY <1>2, <2>1
<1> HIDE DEF items
<1>4. DOMAIN part = (1 .. n) \cap (1 .. N)
  BY <1>2
<1>5. \A i \in (1 .. n) \cap (1 .. N) : part[i] = m[i - 1]
  BY <1>2, <1>3
<1> HIDE DEF part
<1>6. ASSUME Ascending(part), NEW i \in 0 .. N - 1, NEW j \in 0 .. N - 1, i <= j, j < n
      PROVE  m[i] <= m[j]
  <2>1. /\ i + 1 \in (1 .. n) \cap (1 .. N) /\ j + 1 \in (1 .. n) \cap (1 .. N)
        /\ i + 1 <= j + 1 /\ (i + 1) - 1 = i /\ (j + 1) - 1 = j
    BY <1>1, <1>6, SMT
  <2>2. part[i + 1] <= part[j + 1]
    BY <1>4, <1>6, <2>1 DEF Ascending
  <2>3. part[i + 1] = m[(i + 1) - 1] /\ part[j + 1] = m[(j + 1) - 1]
    BY <1>5, <2>1
  <2> QED
    BY <2>1, <2>2, <2>3
<1>7. ASSUME Up(m, n), NEW i \in DOMAIN part, NEW j \in DOMAIN part, i <= j
      PROVE  part[i] <= part[j]
  <2>1. i - 1 \in 0 .. N - 1 /\ j - 1 \in 0 .. N - 1 /\ i - 1 <= j - 1 /\ j - 1 < n
    BY <1>1, <1>4, <1>7, SMT
  <2>2. m[i - 1] <= m[j - 1]
    BY <1>7, <2>1 DEF Up
  <2> QED
    BY <1>4, <1>5, <2>2
<1>8. Ascending(part) <=> Up(m, n)
  BY <1>6, <1>7 DEF Ascending, Up
<1> QED
  BY <1>8 DEF part, items

LEMMA SortsOfOrder == Control /\ InsertionOrder => SortsFromCallersIndex
<1> SUFFICES ASSUME Control, InsertionOrder, pc \in {mainInsertion.afterSort, Exit}
             PROVE  LET initial == Items(mainInsertion, before.memory)
                        passed == 1 .. before.regs.s2 + 1
                    IN  Ascending(Items(mainInsertion, memory))
                          <=> Ascending([i \in passed \cap DOMAIN initial |-> initial[i]])
  BY DEF SortsFromCallersIndex
<1>1. TypeOK /\ HasSizes(memory) /\ HasSizes(before.memory) /\ before.regs.s2 + 1 \in Int
  BY DEF Control, TypeOK, CallOK, Register
<1>2. pc \in {6068, 6043}
  BY Labels6, SorterLabels
<1>3. Place = pc /\ Place \notin BeforeInsertion \cup InsertionLoops
  <2>1. pc # print_array /\ pc # print_loop
    BY <1>2, Labels6
  <2> QED
    BY <1>2, <2>1, PlaceLabels DEF Place
<1>4. Started(mainInsertion)
  <2>1. CASE pc = mainInsertion.afterSort
    <3>1. InSorter(mainInsertion)
      BY <2>1, Places DEF Sorters
    <3> QED
      BY <3>1 DEF InSorter
  <2>2. CASE pc = Exit
    <3>1. ~ Inserting /\ ~ Selecting
      BY <2>2, Labels6 DEF Inserting, Selecting
    <3>2. \A s \in Sorters : ~ Printing(s) /\ ~ InSorter(s)
      <4>1. \A s \in Sorters :
              pc \notin {s.afterPrint, s.afterSort, s.afterPrintSorted, print_array, print_loop,
                         s.sort}
        BY <2>2, Labels6, SorterLabels, SMT DEF Sorters
      <4> QED
        BY <4>1 DEF Printing, InSorter
    <3>3. AtRest
      BY <3>1, <3>2 DEF Control
    <3>4. \A s \in Sorters : pc # s.line
      BY <2>2, Labels6, SorterLabels, SMT DEF Sorters
    <3>5. Exit # Caller(6)
      BY Labels6
    <3> QED
      BY <2>2, <3>3, <3>4, <3>5 DEF AtRest, Started
  <2> QED
    BY <2>1, <2>2
<1>5. Up(memory, N) <=> WasUp
  BY <1>3, <1>4 DEF InsertionOrder
<1>6. Ascending([i \in (1 .. before.regs.s2 + 1) \cap DOMAIN Items(mainInsertion, before.memory)
                   |-> Items(mainInsertion, before.memory)[i]]) <=> WasUp
  BY <1>1, AscendingItems DEF WasUp
<1>7. Ascending(Items(mainInsertion, memory)) <=> Up(memory, N)
  <2> DEFINE items == Items(mainInsertion, memory)
             part == [i \in (1 .. N) \cap DOMAIN items |-> items[i]]
  <2>1. Ascending(part) <=> Up(memory, N)
    BY <1>1, FirstWords, AscendingItems
  <2>2. DOMAIN items = 1 .. N /\ items = [i \in 1 .. N |-> memory[First(mainInsertion) + i - 1]]
    BY <1>1, ItemsOf DEF Sorters
  <2> HIDE DEF items
  <2>3. part = items
    BY <2>2
  <2> QED
    BY <2>1, <2>3 DEF items
<1> QED
  BY <1>5, <1>6, <1>7, Zenon

LEMMA InsertionOrderInvariant == Spec => []InsertionOrder
<1>1. InitAsm6 => InsertionOrder
  BY InitInsertionOrder
<1>2. Control /\ InsertionOrder /\ [CodeAsm6]_<<call, clock>> => InsertionOrder'
  BY InsertionOrderNext
<1> QED
  BY <1>1, <1>2, ControlInvariant, PTL DEF Spec

\* insertion_sort puts its array in order exactly if the items before the index from
\* which it starts, one more than its caller's $s2, were in order.
THEOREM InsertionSorts == Spec => []SortsFromCallersIndex
<1>1. Control /\ InsertionOrder => SortsFromCallersIndex
  BY SortsOfOrder
<1> QED
  BY <1>1, ControlInvariant, InsertionOrderInvariant, PTL

-----------------------------------------------------------------------------
(* The order of mainSelection's array. *)

SelectionLoops == {outer_loop_selection_sort, inner_loop_selection_sort}
\* From where selection_sort has returned.
Selected ==
  {mainSelection.afterSort, mainSelection.afterPrintSorted, AfterSelection, Exit, Caller(6)}

Word(m, i) == m[First(mainSelection) + i]

\* The first n items are in order, and none of the others is smaller.
Least(m, n) == \A p, q \in 0 .. N - 1 : p < n /\ p <= q => Word(m, p) <= Word(m, q)

SelectionOrder ==
  /\ Place \notin Selected \cup SelectionLoops =>
       \A i \in 0 .. N - 1 : Word(memory, i) = Word(before.memory, i)
  /\ pc = outer_loop_selection_sort => Least(memory, regs.s2)
  /\ pc = inner_loop_selection_sort =>
       /\ Least(memory, regs.s2)
       /\ \A q \in 0 .. N - 1 :
            regs.s2 <= q /\ q < regs.s4 => Word(memory, regs.s3) <= Word(memory, q)
  /\ Started(mainSelection) /\ Place \in Selected => Least(memory, N)

LEMMA SelectedLabels ==
  /\ SelectionLoops = {6326, 6334} /\ Selected = {6258, 6262, 6042, 6043, 6000}
BY Labels6, SorterLabels DEF SelectionLoops, Selected

LEMMA SelectionQuiet ==
  ASSUME SelectionOrder, before' = before, pc' \notin SelectionLoops,
         \A i \in 0 .. N - 1 : Word(memory', i) = Word(memory, i),
         Place' \notin Selected \cup SelectionLoops => Place \notin Selected \cup SelectionLoops,
         Place' \in Selected /\ Started(mainSelection) => Place \in Selected
  PROVE  SelectionOrder'
<1>1. N' = N /\ (Started(mainSelection)' <=> Started(mainSelection))
  BY DEF N, Started
<1>2. Least(memory, N)' <=> Least(memory, N)
  BY <1>1, Zenon DEF Least
<1>3. Place' \notin Selected \cup SelectionLoops =>
        \A i \in 0 .. N' - 1 : Word(memory', i) = Word(before'.memory, i)
  BY <1>1 DEF SelectionOrder
<1> QED
  BY <1>1, <1>2, <1>3 DEF SelectionOrder, SelectionLoops

LEMMA WordType ==
  ASSUME TypeOK, NEW i \in 0 .. N - 1
  PROVE  /\ Word(memory, i) \in Int /\ Item(array2, i) = Word(memory, i)
         /\ First(mainSelection) + i \in 0 .. 2 * Room + 1 /\ First(mainSelection) = Room + 1
         /\ i \in Int
<1>1. mainSelection \in Sorters /\ mainSelection.array = array2
  BY SorterLabels DEF Sorters
<1>2. Item(array2, i) = memory[First(mainSelection) + i] /\ Item(array2, i) \in Int
  BY <1>1, ItemLoaded DEF First
<1> QED
  BY <1>1, <1>2, FirstWords DEF Word

LEMMA SelectionOrderQuietStep ==
  ASSUME Control, SelectionOrder,
         \/ CallInsertion \/ CallSelection \/ ExitProgram
         \/ \E s \in Sorters : StartSorter(s) \/ CallSort(s) \/ PrintSorted(s) \/ ReportTime(s)
         \/ PrintArray \/ PrintItem \/ PrintDone
         \/ InsertionSort \/ TakeKey \/ ShiftItem \/ InsertKey \/ InsertionFinished
  PROVE  SelectionOrder'
<1>1. CASE CallInsertion \/ CallSelection \/ ExitProgram
  <2>1. /\ before' = before /\ memory' = memory /\ Place' = pc'
        /\ \/ Place = main /\ Place' = mainInsertion.line
           \/ Place = AfterInsertion /\ Place' = mainSelection.line
           \/ Place = AfterSelection /\ Place' = Exit
    BY <1>1, MainPlace
  <2>2. /\ pc' \notin SelectionLoops
        /\ Place' \notin Selected => Place \notin Selected \cup SelectionLoops
        /\ Place' \in Selected => Place \in Selected
    BY <2>1, Labels6, SorterLabels, SelectedLabels
  <2> QED
    BY <2>1, <2>2, SelectionQuiet
<1>2. CASE \E s \in Sorters : StartSorter(s) \/ CallSort(s) \/ PrintSorted(s) \/ ReportTime(s)
  <2>1. PICK s \in Sorters : StartSorter(s) \/ CallSort(s) \/ PrintSorted(s) \/ ReportTime(s)
    BY <1>2
  <2>2. /\ before' = before /\ memory' = memory /\ Started(s)
        /\ \/ Place = s.line /\ Place' = s.afterPrint /\ pc' = print_array
           \/ Place = s.afterPrint /\ Place' = s.sort /\ pc' = s.sort
           \/ Place = s.afterSort /\ Place' = s.afterPrintSorted /\ pc' = print_array
           \/ Place = s.afterPrintSorted /\ Place' = ReturnsTo(s) /\ pc' = ReturnsTo(s)
    BY <2>1, SorterPlace
  <2>3. /\ pc' \notin SelectionLoops
        /\ Place' \notin Selected => Place \notin Selected \cup SelectionLoops
        /\ Place' \in Selected /\ Started(mainSelection) => Place \in Selected
    <3>1. CASE s = mainInsertion
      <4>1. \/ ReturnsTo(s) = 6036
            \/ ReturnsTo(s) = 6000 /\ ~ Started(mainSelection)
        BY <2>2, <3>1, Labels6, SorterLabels DEF ReturnsTo, Started
      <4> QED
        BY <2>2, <3>1, <4>1, Labels6, SorterLabels, SelectedLabels
    <3>2. CASE s = mainSelection
      <4>1. ReturnsTo(s) \in {6000, 6042}
        BY <3>2, Labels6, SorterLabels, SMT DEF ReturnsTo
      <4> QED
        BY <2>2, <3>2, <4>1, Labels6, SorterLabels, SelectedLabels
    <3> QED
      BY <3>1, <3>2, PlaceLabels
  <2> QED
    BY <2>2, <2>3, SelectionQuiet
<1>3. CASE PrintArray \/ PrintItem \/ PrintDone
  <2>1. before' = before /\ memory' = memory /\ Place' = Place
    BY <1>3, PrintPlace
  <2>2. pc' = print_loop \/ \E t \in Sorters : pc' \in {t.afterPrint, t.afterPrintSorted}
    BY <1>3, PrintReturns DEF PrintArray, PrintItem
  <2>3. pc' \notin SelectionLoops
    BY <2>2, Labels6, SorterLabels, PlaceLabels, SelectedLabels, SMT
  <2> QED
    BY <2>1, <2>3, SelectionQuiet
<1>4. CASE InsertionSort \/ TakeKey \/ ShiftItem \/ InsertKey \/ InsertionFinished
  <2>1. /\ before' = before /\ Place = pc /\ Place' = pc'
        /\ pc \in {6117, 6130, 6141} /\ pc' \in {6130, 6141, 6068}
    BY <1>4, LoopPlace, Labels6, SorterLabels
  <2>2. ASSUME NEW i \in 0 .. N - 1 PROVE Word(memory', i) = Word(memory, i)
    <3>1. /\ memory \in [0 .. 2 * Room + 1 -> Int] /\ First(mainSelection) + i \in 0 .. 2 * Room + 1
          /\ First(mainSelection) = Room + 1 /\ i \in Int /\ 0 <= i
          /\ N \in Nat /\ N <= Room /\ Room \in Nat
      BY WordType, FirstWords, SMT DEF Control, TypeOK, HasSizes, Data6
    <3>2. CASE ShiftItem \/ InsertKey
      <4>1. PICK h \in 0 .. N - 1 : \E v : memory' = [memory EXCEPT ![h] = v]
        <5>1. CASE ShiftItem
          BY <5>1, ShiftedWords
        <5>2. CASE InsertKey
          BY <5>2, InsertedWords, InsertingNumbers
        <5> QED
          BY <3>2, <5>1, <5>2
      <4>2. First(mainSelection) + i # h
        BY <3>1, SMT
      <4> QED
        BY <3>1, <4>1, <4>2 DEF Word
    <3>3. CASE InsertionSort \/ TakeKey \/ InsertionFinished
      BY <3>3 DEF InsertionSort, TakeKey, InsertionFinished
    <3> QED
      BY <1>4, <3>2, <3>3
  <2>3. /\ pc' \notin SelectionLoops /\ Place' \notin Selected
        /\ Place \notin Selected \cup SelectionLoops
    BY <2>1, SelectedLabels
  <2> QED
    BY <2>1, <2>2, <2>3, SelectionQuiet
<1> QED
  BY <1>1, <1>2, <1>3, <1>4

LEMMA SelectionOrderStep ==
  ASSUME Control, SelectionOrder,
         SelectionSort \/ SelectFrom \/ CompareItem \/ SwapMinimum \/ SelectionFinished
  PROVE  SelectionOrder'
<1>1. before' = before /\ Place = pc /\ Place' = pc' /\ TypeOK
  BY LoopPlace DEF Control
<1>2. N' = N /\ (Started(mainSelection)' <=> Started(mainSelection))
  BY <1>1 DEF N, Started
<1>3. N \in Nat /\ \A i \in 0 .. N - 1 : Word(memory, i) \in Int /\ i \in Int
  BY <1>1, FirstWords, WordType
<1>4. CASE SelectionSort
  <2>1. /\ pc' = outer_loop_selection_sort /\ regs' = [regs EXCEPT !.s0 = regs.a0, !.s1 = regs.a1, !.s2 = 0]
    BY <1>4 DEF SelectionSort
  <2>2. regs'.s2 = 0
    BY <1>1, <2>1 DEF TypeOK, Register
  <2>3. Least(memory, regs.s2)'
    <3>1. \A p \in 0 .. N - 1 : ~ p < 0
      BY <1>3, SMT
    <3> QED
      BY <1>2, <2>2, <3>1 DEF Least
  <2>4. pc' # inner_loop_selection_sort /\ pc' \notin Selected /\ pc' \in SelectionLoops
    BY <2>1, SelectedLabels, Labels6
  <2> QED
    BY <1>1, <2>3, <2>4 DEF SelectionOrder
<1>5. CASE SelectFrom \/ CompareItem
  <2>1. Selecting /\ pc' = inner_loop_selection_sort /\ memory' = memory
    BY <1>5, Places DEF SelectFrom, CompareItem
  <2>2. /\ regs.s0 = array2 /\ regs.s1 = N /\ regs.s2 \in Nat /\ regs.s2 \in Int
        /\ regs.s3 \in Int /\ regs.s4 \in Int
    <3>1. regs.s0 = array2 /\ regs.s1 = N /\ regs.s2 \in Nat
      BY <2>1 DEF Selecting
    <3> QED
      BY <1>1, <3>1 DEF TypeOK, Register
  <2>3. Least(memory, regs.s2)
    BY <1>5 DEF SelectionOrder, SelectFrom, CompareItem
  <2>4. /\ regs'.s2 = regs.s2
        /\ \A q \in 0 .. N - 1 :
             regs'.s2 <= q /\ q < regs'.s4 => Word(memory, regs'.s3) <= Word(memory, q)
    <3>1. CASE SelectFrom
      <4>1. regs' = [regs EXCEPT !.s3 = regs.s2, !.s4 = regs.s2 + 1]
        BY <3>1 DEF SelectFrom
      <4>2. regs'.s2 = regs.s2 /\ regs'.s3 = regs.s2 /\ regs'.s4 = regs.s2 + 1
        BY <1>1, <4>1 DEF TypeOK, Register
      <4>3. \A q \in 0 .. N - 1 : regs.s2 <= q /\ q < regs.s2 + 1 => q = regs.s2
        BY <1>3, <2>2, SMT
      <4>4. \A q \in 0 .. N - 1 : Word(memory, q) <= Word(memory, q)
        BY <1>3, SMT
      <4> QED
        BY <4>2, <4>3, <4>4
    <3>2. CASE CompareItem
      <4>1. /\ pc = inner_loop_selection_sort /\ regs.s4 < N
            /\ regs' = [regs EXCEPT !.s3 = IndexOfMinimum, !.s4 = regs.s4 + 1]
        BY <2>2, <3>2 DEF CompareItem
      <4>2. regs.s2 < N - 1 /\ regs.s3 \in regs.s2 .. N - 1 /\ regs.s4 \in regs.s2 + 1 .. N
        BY <2>1, <4>1, Labels6 DEF Selecting
      <4>3. regs.s3 \in 0 .. N - 1 /\ regs.s4 \in 0 .. N - 1
        BY <1>3, <2>2, <4>1, <4>2, SMT
      <4>4. /\ Item(regs.s0, regs.s3) = Word(memory, regs.s3)
            /\ Item(regs.s0, regs.s4) = Word(memory, regs.s4)
        BY <1>1, <2>2, <4>3, WordType
      <4>5. IndexOfMinimum = IF Word(memory, regs.s4) < Word(memory, regs.s3)
                             THEN regs.s4 ELSE regs.s3
        BY <4>4 DEF IndexOfMinimum
      <4>6. regs'.s2 = regs.s2 /\ regs'.s3 = IndexOfMinimum /\ regs'.s4 = regs.s4 + 1
        BY <1>1, <4>1 DEF TypeOK, Register
      <4>7. ASSUME NEW q \in 0 .. N - 1, regs.s2 <= q, q < regs.s4 + 1
            PROVE  Word(memory, IndexOfMinimum) <= Word(memory, q)
        <5>1. q < regs.s4 \/ q = regs.s4
          BY <1>3, <2>2, <4>7, SMT
        <5>2. q < regs.s4 => Word(memory, regs.s3) <= Word(memory, q)
          BY <4>1, <4>7 DEF SelectionOrder
        <5>3. /\ Word(memory, q) \in Int /\ Word(memory, regs.s3) \in Int
              /\ Word(memory, regs.s4) \in Int
          BY <1>3, <4>3
        <5> HIDE DEF Word
        <5> DEFINE a == Word(memory, regs.s3)
                   b == Word(memory, regs.s4)
                   c == Word(memory, q)
        <5>4. Word(memory, IndexOfMinimum) = IF b < a THEN b ELSE a
          BY <4>5
        <5>5. (q < regs.s4 => a <= c) /\ (q = regs.s4 => c = b) /\ a \in Int /\ b \in Int /\ c \in Int
          BY <5>2, <5>3
        <5> HIDE DEF a, b, c
        <5>6. (IF b < a THEN b ELSE a) <= c
          BY <5>1, <5>5, SMT
        <5> QED
          BY <5>4, <5>6 DEF c
      <4> QED
        BY <4>6, <4>7
    <3> QED
      BY <1>5, <3>1, <3>2
  <2>5. Least(memory, regs.s2)'
    BY <1>2, <2>1, <2>3, <2>4 DEF Least
  <2>6. pc' # outer_loop_selection_sort /\ pc' \notin Selected /\ pc' \in SelectionLoops
    BY <2>1, SelectedLabels, Labels6
  <2> QED
    BY <1>1, <1>2, <2>1, <2>4, <2>5, <2>6 DEF SelectionOrder
<1>6. CASE SwapMinimum
  <2>1. /\ pc = inner_loop_selection_sort /\ pc' = outer_loop_selection_sort
        /\ regs.s2 \in 0 .. N - 1 /\ regs.s3 \in 0 .. N - 1
        /\ Exchanged(mainSelection, regs.s2, regs.s3, memory, memory')
        /\ regs'.s2 = regs.s2 + 1 /\ regs.s4 >= regs.s1 /\ Selecting
    BY <1>6, SwappedWords, Places DEF SwapMinimum
  <2> DEFINE x == regs.s2
             y == regs.s3
             m2 == memory'
  <2>2. /\ regs.s1 = N /\ x \in Int /\ y \in Int /\ regs.s4 \in Int /\ x <= y
    <3>1. regs.s1 = N /\ regs.s3 \in regs.s2 .. N - 1
      BY <2>1, Labels6 DEF Selecting
    <3>2. regs.s2 \in Int /\ regs.s3 \in Int /\ regs.s4 \in Int
      BY <1>1 DEF TypeOK, Register
    <3> QED
      BY <3>1, <3>2, SMT
  <2>3. /\ Word(m2, x) = Word(memory, y) /\ Word(m2, y) = Word(memory, x)
        /\ \A q \in 0 .. N - 1 : q # x /\ q # y => Word(m2, q) = Word(memory, q)
    <3>1. ASSUME NEW q \in 0 .. N - 1, q # x, q # y PROVE Word(m2, q) = Word(memory, q)
      <4>1. First(mainSelection) + q \in 0 .. 2 * Room + 1 /\ First(mainSelection) \in Int /\ q \in Int
        BY <1>1, WordType, FirstWords, SMT
      <4>2. First(mainSelection) + q # First(mainSelection) + x
            /\ First(mainSelection) + q # First(mainSelection) + y
        BY <2>2, <3>1, <4>1, SMT
      <4> QED
        BY <2>1, <4>1, <4>2 DEF Exchanged, Word
    <3> QED
      BY <2>1, <3>1 DEF Exchanged, Word
  <2>4. Least(memory, x)
    BY <2>1 DEF SelectionOrder
  <2>5. \A q \in 0 .. N - 1 : x <= q => Word(memory, y) <= Word(memory, q)
    <3>1. \A q \in 0 .. N - 1 : q < regs.s4
      BY <1>3, <2>1, <2>2, SMT
    <3> QED
      BY <2>1, <3>1 DEF SelectionOrder
  <2>6. x \in 0 .. N - 1 /\ y \in 0 .. N - 1
    BY <2>1
  <2> HIDE DEF x, y, m2
  <2>7. ASSUME NEW p \in 0 .. N - 1, NEW q \in 0 .. N - 1, p < x + 1, p <= q
        PROVE  Word(m2, p) <= Word(m2, q)
    <3> DEFINE at(k) == IF k = x THEN y ELSE IF k = y THEN x ELSE k
    <3>1. Word(m2, p) = Word(memory, at(p)) /\ Word(m2, q) = Word(memory, at(q))
      BY <2>3
    <3>2. at(q) \in 0 .. N - 1
      BY <2>6
    <3>3. CASE p < x
      <4>1. at(p) = p /\ p <= at(q)
        BY <1>3, <2>2, <2>7, <3>3, SMT
      <4> HIDE DEF at
      <4>2. Word(memory, p) <= Word(memory, at(q))
        BY <2>4, <3>2, <3>3, <4>1 DEF Least
      <4> QED
        BY <3>1, <4>1, <4>2
    <3>4. CASE p = x
      <4>1. at(p) = y /\ x <= at(q)
        BY <1>3, <2>2, <2>7, <3>4, SMT
      <4> HIDE DEF at
      <4> QED
        BY <2>5, <3>1, <3>2, <4>1
    <3>5. p < x \/ p = x
      BY <1>3, <2>2, <2>7, SMT
    <3> QED
      BY <3>3, <3>4, <3>5
  <2>8. Least(memory, regs.s2)'
    <3>1. memory' = m2 /\ regs'.s2 = x + 1
      BY <2>1 DEF m2, x
    <3> QED
      BY <1>2, <2>7, <3>1, Zenon DEF Least
  <2>9. pc' # inner_loop_selection_sort /\ pc' \notin Selected /\ pc' \in SelectionLoops
    BY <2>1, SelectedLabels, Labels6
  <2> QED
    BY <1>1, <2>8, <2>9 DEF SelectionOrder
<1>7. CASE SelectionFinished
  <2>1. /\ pc = outer_loop_selection_sort /\ pc' = mainSelection.afterSort /\ memory' = memory
        /\ regs.s2 >= regs.s1 - 1 /\ Selecting
    BY <1>7, LoopPlace, SelectionReturns DEF SelectionFinished
  <2>2. regs.s1 = N /\ regs.s2 \in Nat
    BY <2>1 DEF Selecting
  <2>3. Least(memory, regs.s2)
    BY <2>1 DEF SelectionOrder
  <2>4. ASSUME NEW p \in 0 .. N - 1, NEW q \in 0 .. N - 1, p <= q
        PROVE  Word(memory, p) <= Word(memory, q)
    <3>1. p < regs.s2 \/ p = q
      BY <1>3, <2>1, <2>2, <2>4, SMT
    <3>2. CASE p < regs.s2
      BY <2>3, <2>4, <3>2 DEF Least
    <3>3. CASE p = q
      <4>1. Word(memory, p) \in Int
        BY <1>3
      <4> QED
        BY <3>3, <4>1, SMT
    <3> QED
      BY <3>1, <3>2, <3>3
  <2>5. Least(memory, N)'
    BY <1>2, <2>1, <2>4 DEF Least
  <2>6. pc' \notin SelectionLoops /\ pc' \in Selected
    BY <2>1, SelectedLabels, SorterLabels
  <2> QED
    BY <1>1, <2>5, <2>6 DEF SelectionOrder, SelectionLoops
<1> QED
  BY <1>4, <1>5, <1>6, <1>7

LEMMA SelectionOrderNext ==
  Control /\ SelectionOrder /\ [CodeAsm6]_<<call, clock>> => SelectionOrder'
<1> SUFFICES ASSUME Control, SelectionOrder, [CodeAsm6]_<<call, clock>> PROVE SelectionOrder'
  OBVIOUS
<1>1. CASE SelectionSort \/ SelectFrom \/ CompareItem \/ SwapMinimum \/ SelectionFinished
  BY <1>1, SelectionOrderStep
<1>2. CASE \/ CallInsertion \/ CallSelection \/ ExitProgram
           \/ \E s \in Sorters : StartSorter(s) \/ CallSort(s) \/ PrintSorted(s) \/ ReportTime(s)
           \/ PrintArray \/ PrintItem \/ PrintDone
           \/ InsertionSort \/ TakeKey \/ ShiftItem \/ InsertKey \/ InsertionFinished
  BY <1>2, SelectionOrderQuietStep
<1>3. CASE UNCHANGED <<call, clock>>
  BY <1>3 DEF call, machine, SelectionOrder, Place, N, Least, Word, Started
<1> QED
  BY <1>1, <1>2, <1>3 DEF CodeAsm6

LEMMA SelectionOrderInvariant == Spec => []SelectionOrder
<1>1. InitAsm6 => SelectionOrder
  <2> SUFFICES ASSUME InitAsm6 PROVE SelectionOrder
    OBVIOUS
  <2>1. memory = before.memory /\ pc \in {main} \cup {s.line : s \in Sorters}
    BY StartsAssumption DEF InitAsm6, Called
  <2>2. /\ pc \notin {print_array, print_loop} /\ pc \notin SelectionLoops /\ pc \notin Selected
    BY <2>1, Labels6, SorterLabels, SelectedLabels, SMT DEF Sorters
  <2>3. Place = pc
    BY <2>2 DEF Place
  <2> QED
    BY <2>1, <2>2, <2>3 DEF SelectionOrder, SelectionLoops
<1>2. Control /\ SelectionOrder /\ [CodeAsm6]_<<call, clock>> => SelectionOrder'
  BY SelectionOrderNext
<1> QED
  BY <1>1, <1>2, ControlInvariant, PTL DEF Spec

-----------------------------------------------------------------------------
(* What is printed. *)

\* The numbers that a sorter prints, and what there is before them.
Section(s) == (Items(s, before.memory) \o Items(s, memory)) \o <<1>>
Base(s) == IF s = mainSelection /\ before.pc = main THEN Section(mainInsertion) ELSE << >>

\* The items of the array that print_array has printed.
Printed(s, n) == [i \in 1 .. n |-> memory[First(s) + i - 1]]
Progress(s) == IF pc = print_array THEN << >>
               ELSE IF pc = print_loop THEN Printed(s, regs.s2) ELSE Items(s, memory)

\* From the call of the sorting function to its return.
SortPlaces(s) == {s.sort, s.afterSort} \cup
  (IF s = mainInsertion THEN InsertionLoops ELSE SelectionLoops)

ConsoleOK ==
  /\ Place = main => console = << >>
  /\ \A s \in Sorters :
       /\ Place = s.line => console = Base(s)
       /\ Place = s.afterPrint => console = Base(s) \o Progress(s)
       /\ Place \in SortPlaces(s) => console = Base(s) \o Items(s, before.memory)
       /\ Place = s.afterPrintSorted =>
            console = (Base(s) \o Items(s, before.memory)) \o Progress(s)
       /\ Place = ReturnsTo(s) /\ Started(s) => console = Base(s) \o Section(s)
  /\ Place = Exit => console = Section(mainInsertion) \o Section(mainSelection)

LEMMA SorterPlaces ==
  /\ mainInsertion.line = 6045 /\ mainSelection.line = 6231
  /\ mainInsertion.afterPrint = 6064 /\ mainSelection.afterPrint = 6252
  /\ SortPlaces(mainInsertion) = {6117, 6068, 6130, 6141}
  /\ SortPlaces(mainSelection) = {6310, 6258, 6326, 6334}
  /\ mainInsertion.afterPrintSorted = 6073 /\ mainSelection.afterPrintSorted = 6262
  /\ ReturnsTo(mainInsertion) = IF before.pc = 6045 THEN 6000 ELSE 6036
  /\ ReturnsTo(mainSelection) = IF before.pc = 6231 THEN 6000 ELSE 6042
  /\ main = 6032 /\ Exit = 6043 /\ mainInsertion # mainSelection
<1>1. mainInsertion # mainSelection
  BY SorterLabels
<1> QED
  BY <1>1, Labels6, SorterLabels, PlaceLabels, SelectedLabels DEF SortPlaces, ReturnsTo

\* The program is in one of these places at a time.
AsExpected(t) ==
  \/ Place = t.line /\ console = Base(t)
  \/ Place = t.afterPrint /\ console = Base(t) \o Progress(t)
  \/ Place \in SortPlaces(t) /\ console = Base(t) \o Items(t, before.memory)
  \/ /\ Place = t.afterPrintSorted
     /\ console = (Base(t) \o Items(t, before.memory)) \o Progress(t)
  \/ Place = ReturnsTo(t) /\ Started(t) /\ console = Base(t) \o Section(t)
  \/ Place = Exit /\ console = Section(mainInsertion) \o Section(mainSelection)

LEMMA OnePlace == (\E t \in Sorters : AsExpected(t)) => ConsoleOK
<1> SUFFICES ASSUME NEW t \in Sorters, AsExpected(t) PROVE ConsoleOK
  OBVIOUS
<1>1. \A s \in Sorters : s = mainInsertion \/ s = mainSelection
  BY PlaceLabels
<1>2. ASSUME Place = t.line
      PROVE  /\ Place # main /\ Place # Exit
             /\ \A s \in Sorters :
                  /\ s # t => Place # s.line
                  /\ Place # s.afterPrint /\ Place \notin SortPlaces(s)
                  /\ Place # s.afterPrintSorted /\ Place # ReturnsTo(s)
  BY <1>1, <1>2, SorterPlaces
<1>3. ASSUME Place = t.afterPrint
      PROVE  /\ Place # main /\ Place # Exit
             /\ \A s \in Sorters :
                  /\ s # t => Place # s.afterPrint
                  /\ Place # s.line /\ Place \notin SortPlaces(s)
                  /\ Place # s.afterPrintSorted /\ Place # ReturnsTo(s)
  BY <1>1, <1>3, SorterPlaces
<1>4. ASSUME Place \in SortPlaces(t)
      PROVE  /\ Place # main /\ Place # Exit
             /\ \A s \in Sorters :
                  /\ s # t => Place \notin SortPlaces(s)
                  /\ Place # s.afterPrint /\ Place # s.line
                  /\ Place # s.afterPrintSorted /\ Place # ReturnsTo(s)
  <2>1. \/ t = mainInsertion /\ Place \in {6117, 6068, 6130, 6141}
        \/ t = mainSelection /\ Place \in {6310, 6258, 6326, 6334}
    BY <1>1, <1>4, SorterPlaces
  <2> QED
    BY <1>1, <2>1, SorterPlaces
<1>5. ASSUME Place = t.afterPrintSorted
      PROVE  /\ Place # main /\ Place # Exit
             /\ \A s \in Sorters :
                  /\ s # t => Place # s.afterPrintSorted
                  /\ Place # s.afterPrint /\ Place \notin SortPlaces(s)
                  /\ Place # s.line /\ Place # ReturnsTo(s)
  BY <1>1, <1>5, SorterPlaces
<1>6. ASSUME Place = ReturnsTo(t), Started(t)
      PROVE  /\ Place # main /\ Place # Exit
             /\ \A s \in Sorters :
                  /\ s # t => ~ (Place = ReturnsTo(s) /\ Started(s))
                  /\ Place # s.afterPrint /\ Place \notin SortPlaces(s)
                  /\ Place # s.line /\ Place # s.afterPrintSorted
  BY <1>1, <1>6, SorterPlaces DEF Started
<1>7. ASSUME Place = Exit
      PROVE  /\ Place # main
             /\ \A s \in Sorters :
                  /\ Place # ReturnsTo(s) /\ Place # s.afterPrint /\ Place \notin SortPlaces(s)
                  /\ Place # s.line /\ Place # s.afterPrintSorted
  BY <1>1, <1>7, SorterPlaces
<1> QED
  BY <1>2, <1>3, <1>4, <1>5, <1>6, <1>7, Zenon DEF ConsoleOK, AsExpected

LEMMA SequenceTypes ==
  ASSUME TypeOK, NEW s \in Sorters
  PROVE  /\ Items(s, memory) \in Seq(Int) /\ Items(s, before.memory) \in Seq(Int)
         /\ Section(s) \in Seq(Int) /\ Base(s) \in Seq(Int) /\ << >> \in Seq(Int)
<1>1. HasSizes(memory) /\ HasSizes(before.memory) /\ mainInsertion \in Sorters
  BY DEF TypeOK, CallOK, Sorters
<1>2. \A t \in Sorters : Items(t, memory) \in Seq(Int) /\ Items(t, before.memory) \in Seq(Int)
  BY <1>1, ItemsOf
<1>3. \A t \in Sorters : Section(t) \in Seq(Int)
  <2>1. <<1>> \in Seq(Int)
    BY SMT
  <2>2. \A t \in Sorters : Items(t, before.memory) \o Items(t, memory) \in Seq(Int)
    BY <1>2, ConcatProperties
  <2> QED
    BY <2>1, <2>2, ConcatProperties DEF Section
<1>4. << >> \in Seq(Int)
  BY EmptySeq
<1> QED
  BY <1>1, <1>2, <1>3, <1>4 DEF Base

LEMMA AppendItem ==
  ASSUME NEW items \in Seq(Int), NEW item \in Int
  PROVE  Append(items, item) = items \o <<item>>
BY AppendIsConcat

LEMMA SameMemory ==
  ASSUME before' = before, memory' = memory, NEW s \in Sorters
  PROVE  /\ Items(s, memory)' = Items(s, memory)
         /\ Items(s, before.memory)' = Items(s, before.memory)
         /\ Section(s)' = Section(s) /\ Base(s)' = Base(s)
         /\ ReturnsTo(s)' = ReturnsTo(s) /\ (Started(s)' <=> Started(s))
         /\ SortPlaces(s)' = SortPlaces(s)
<1>1. \A t \in Sorters : /\ Items(t, memory)' = Items(t, memory)
                         /\ Items(t, before.memory)' = Items(t, before.memory)
  BY DEF Items
<1>2. \A t \in Sorters : Section(t)' = Section(t)
  BY <1>1, Zenon DEF Section
<1>3. mainInsertion \in Sorters
  BY DEF Sorters
<1> QED
  BY <1>1, <1>2, <1>3 DEF Base, ReturnsTo, Started, SortPlaces

LEMMA ConsoleMainStep ==
  ASSUME Control, ConsoleOK, CallInsertion \/ CallSelection \/ ExitProgram
  PROVE  ConsoleOK'
<1>1. /\ before' = before /\ memory' = memory /\ console' = console /\ before.pc = main
      /\ \/ Place = main /\ Place' = mainInsertion.line
         \/ Place = AfterInsertion /\ Place' = mainSelection.line
         \/ Place = AfterSelection /\ Place' = Exit
  BY MainPlace
<1>2. /\ mainInsertion \in Sorters /\ mainSelection \in Sorters /\ mainInsertion # mainSelection
      /\ before.pc # mainInsertion.line /\ before.pc # mainSelection.line
  BY <1>1, SorterPlaces DEF Sorters
<1>3. /\ Base(mainInsertion) = << >> /\ Base(mainSelection) = Section(mainInsertion)
      /\ ReturnsTo(mainInsertion) = AfterInsertion /\ ReturnsTo(mainSelection) = AfterSelection
      /\ Started(mainInsertion) /\ Started(mainSelection)
  BY <1>1, <1>2 DEF Base, ReturnsTo, Started
<1>4. << >> \o Section(mainInsertion) = Section(mainInsertion)
  BY <1>2, SequenceTypes, ConcatEmptySeq DEF Control
<1>5. \E t \in Sorters : AsExpected(t)'
  <2>1. CASE Place = main
    <3>1. Place' = mainInsertion.line
      BY <1>1, <2>1, Labels6
    <3>2. console' = Base(mainInsertion)'
      BY <1>1, <1>2, <1>3, <2>1, SameMemory DEF ConsoleOK
    <3> QED
      BY <1>2, <3>1, <3>2 DEF AsExpected
  <2>2. CASE Place = AfterInsertion
    <3>1. Place' = mainSelection.line
      BY <1>1, <2>2, Labels6
    <3>2. console = Base(mainInsertion) \o Section(mainInsertion)
      BY <1>2, <1>3, <2>2 DEF ConsoleOK
    <3>3. console' = Base(mainSelection)'
      BY <1>1, <1>2, <1>3, <1>4, <3>2, SameMemory
    <3> QED
      BY <1>2, <3>1, <3>3 DEF AsExpected
  <2>3. CASE Place = AfterSelection
    <3>1. Place' = Exit
      BY <1>1, <2>3, Labels6
    <3>2. console = Section(mainInsertion) \o Section(mainSelection)
      BY <1>2, <1>3, <2>3 DEF ConsoleOK
    <3>3. console' = (Section(mainInsertion) \o Section(mainSelection))'
      BY <1>1, <1>2, <3>2, SameMemory
    <3> QED
      BY <1>2, <3>1, <3>3 DEF AsExpected
  <2> QED
    BY <1>1, <2>1, <2>2, <2>3
<1>6. ((\E t \in Sorters : AsExpected(t)) => ConsoleOK)'
  BY OnePlace, PTL
<1> QED
  BY <1>5, <1>6, Zenon

\* An array that is printed for the first time is as it was.
LEMMA StillFresh ==
  ASSUME Control, InsertionOrder, SelectionOrder, NEW s \in Sorters, Place = s.afterPrint
  PROVE  Items(s, memory) = Items(s, before.memory)
<1>1. TypeOK /\ HasSizes(memory) /\ HasSizes(before.memory)
  BY DEF Control, TypeOK, CallOK
<1>2. \A i \in 0 .. N - 1 : memory[First(s) + i] = before.memory[First(s) + i]
  <2>1. CASE s = mainInsertion
    <3>1. Place \in BeforeInsertion
      BY <2>1 DEF BeforeInsertion
    <3>2. \A i \in 0 .. N - 1 : First(s) + i = i
      BY <1>1, <2>1, FirstWords, SMT
    <3> QED
      BY <3>1, <3>2 DEF InsertionOrder
  <2>2. CASE s = mainSelection
    <3>1. Place \notin Selected \cup SelectionLoops
      BY <2>2, SelectedLabels, SorterPlaces
    <3> QED
      BY <2>2, <3>1 DEF SelectionOrder, Word
  <2> QED
    BY <2>1, <2>2, PlaceLabels
<1>3. \A k \in 1 .. N : memory[First(s) + k - 1] = before.memory[First(s) + k - 1]
  <2>1. ASSUME NEW k \in 1 .. N PROVE memory[First(s) + k - 1] = before.memory[First(s) + k - 1]
    <3>1. k - 1 \in 0 .. N - 1 /\ k \in Int
      BY <1>1, FirstWords, SMT
    <3>2. First(s) \in Int
      BY <1>1, <3>1, FirstWords
    <3>3. First(s) + (k - 1) = First(s) + k - 1
      BY <3>1, <3>2, SMT
    <3> QED
      BY <1>2, <3>1, <3>3
  <2> QED
    BY <2>1
<1>4. /\ Items(s, memory) = [k \in 1 .. N |-> memory[First(s) + k - 1]]
      /\ Items(s, before.memory) = [k \in 1 .. N |-> before.memory[First(s) + k - 1]]
  BY <1>1, ItemsOf
<1> QED
  BY <1>3, <1>4, Zenon

LEMMA ConsoleSorterStep ==
  ASSUME Control, InsertionOrder, SelectionOrder, ConsoleOK, NEW s \in Sorters,
         StartSorter(s) \/ CallSort(s) \/ PrintSorted(s) \/ ReportTime(s)
  PROVE  ConsoleOK'
<1>1. /\ before' = before /\ memory' = memory /\ Started(s) /\ Place = pc
      /\ \/ /\ Place = s.line /\ Place' = s.afterPrint /\ pc' = print_array
            /\ console' = console
         \/ Place = s.afterPrint /\ Place' = s.sort /\ pc' = s.sort /\ console' = console
         \/ /\ Place = s.afterSort /\ Place' = s.afterPrintSorted /\ pc' = print_array
            /\ console' = console
         \/ /\ Place = s.afterPrintSorted /\ Place' = ReturnsTo(s) /\ pc' = ReturnsTo(s)
            /\ console' = Append(console, 1)
  BY SorterPlace
<1> DEFINE base == Base(s)
           old == Items(s, before.memory)
           new == Items(s, memory)
<1>2. /\ base' = base /\ old' = old /\ new' = new /\ Section(s)' = Section(s)
      /\ ReturnsTo(s)' = ReturnsTo(s) /\ (Started(s)' <=> Started(s)) /\ SortPlaces(s)' = SortPlaces(s)
  BY <1>1, SameMemory
<1>3. base \in Seq(Int) /\ old \in Seq(Int) /\ new \in Seq(Int) /\ base \o old \in Seq(Int)
  <2>1. base \in Seq(Int) /\ old \in Seq(Int) /\ new \in Seq(Int)
    BY SequenceTypes DEF Control
  <2> QED
    BY <2>1, ConcatProperties
<1>4. AsExpected(s)'
  <2>1. CASE Place = s.line /\ Place' = s.afterPrint /\ pc' = print_array /\ console' = console
    <3>1. console = base
      BY <2>1 DEF ConsoleOK
    <3>2. Progress(s)' = << >>
      BY <2>1 DEF Progress
    <3>3. base \o << >> = base
      BY <1>3, ConcatEmptySeq
    <3>4. console' = (Base(s) \o Progress(s))'
      BY <1>2, <2>1, <3>1, <3>2, <3>3
    <3> QED
      BY <2>1, <3>4 DEF AsExpected
  <2>2. CASE Place = s.afterPrint /\ Place' = s.sort /\ console' = console
    <3>1. pc # print_array /\ pc # print_loop
      BY <1>1, <2>2, Labels6, SorterPlaces, PlaceLabels
    <3>2. console = base \o new
      BY <2>2, <3>1 DEF ConsoleOK, Progress
    <3>3. new = old
      BY <2>2, StillFresh
    <3>4. console' = (Base(s) \o Items(s, before.memory))'
      BY <1>2, <2>2, <3>2, <3>3
    <3>5. Place' \in SortPlaces(s)'
      BY <1>2, <2>2 DEF SortPlaces
    <3> QED
      BY <3>4, <3>5 DEF AsExpected
  <2>3. CASE /\ Place = s.afterSort /\ Place' = s.afterPrintSorted /\ pc' = print_array
             /\ console' = console
    <3>1. console = base \o old
      BY <2>3 DEF ConsoleOK, SortPlaces
    <3>2. Progress(s)' = << >>
      BY <2>3 DEF Progress
    <3>3. (base \o old) \o << >> = base \o old
      BY <1>3, ConcatEmptySeq
    <3>4. console' = ((Base(s) \o Items(s, before.memory)) \o Progress(s))'
      BY <1>2, <2>3, <3>1, <3>2, <3>3
    <3> QED
      BY <2>3, <3>4 DEF AsExpected
  <2>4. CASE /\ Place = s.afterPrintSorted /\ Place' = ReturnsTo(s)
             /\ console' = Append(console, 1)
    <3>1. pc # print_array /\ pc # print_loop
      BY <1>1, <2>4, Labels6, SorterPlaces, PlaceLabels
    <3>2. console = (base \o old) \o new
      BY <2>4, <3>1 DEF ConsoleOK, Progress
    <3>3. Append(console, 1) = ((base \o old) \o new) \o <<1>>
      <4> HIDE DEF base, old, new
      <4>1. (base \o old) \o new \in Seq(Int) /\ 1 \in Int
        BY <1>3, ConcatProperties
      <4> QED
        BY <3>2, <4>1, AppendItem
    <3>4. ((base \o old) \o new) \o <<1>> = base \o ((old \o new) \o <<1>>)
      <4> HIDE DEF base, old, new
      <4>1. (base \o old) \o new = base \o (old \o new)
        BY <1>3, SMTT(30)
      <4>2. old \o new \in Seq(Int) /\ <<1>> \in Seq(Int)
        BY <1>3, ConcatProperties, SMT
      <4>3. (base \o (old \o new)) \o <<1>> = base \o ((old \o new) \o <<1>>)
        BY <1>3, <4>2, SMTT(30)
      <4> QED
        BY <4>1, <4>3
    <3>5. console' = base \o Section(s)
      BY <2>4, <3>3, <3>4 DEF Section
    <3>6. console' = (Base(s) \o Section(s))'
      BY <1>2, <3>5
    <3> QED
      BY <1>1, <1>2, <2>4, <3>6 DEF AsExpected
  <2> QED
    BY <1>1, <2>1, <2>2, <2>3, <2>4
<1>5. ((\E t \in Sorters : AsExpected(t)) => ConsoleOK)'
  BY OnePlace, PTL
<1> QED
  BY <1>4, <1>5, Zenon

\* print_array adds what it prints.
LEMMA PrintedMore ==
  ASSUME Control, PrintArray \/ PrintItem \/ PrintDone
  PROVE  \E s \in Sorters :
           /\ Place \in {s.afterPrint, s.afterPrintSorted}
           /\ Progress(s) \in Seq(Int)
           /\ \/ Progress(s)' = Progress(s) /\ console' = console
              \/ \E item \in Int : /\ Progress(s)' = Append(Progress(s), item)
                                  /\ console' = Append(console, item)
<1>1. before' = before /\ memory' = memory /\ Place' = Place /\ print_array # print_loop
  BY PrintPlace, Labels6
<1>2. PICK s \in Sorters :
        /\ Started(s) /\ Place \in {s.afterPrint, s.afterPrintSorted}
        /\ pc = print_array => regs.a0 = s.array /\ regs.a1 = N
        /\ pc = print_loop => regs.s0 = s.array /\ regs.s1 = N /\ regs.s2 \in 0 .. N
  BY Printer DEF PrintArray, PrintItem, PrintDone
<1>3. /\ TypeOK /\ HasSizes(memory) /\ N \in Nat /\ Items(s, memory)' = Items(s, memory)
      /\ Items(s, memory) = [i \in 1 .. N |-> memory[First(s) + i - 1]]
  BY <1>1, ItemsOf, FirstWords, SameMemory DEF Control, TypeOK
<1>4. ASSUME NEW n \in 0 .. N PROVE Printed(s, n) \in Seq(Int) /\ Len(Printed(s, n)) = n
  <2>1. \A i \in 1 .. n : memory[First(s) + i - 1] \in Int
    <3>1. ASSUME NEW i \in 1 .. n PROVE memory[First(s) + i - 1] \in Int
      <4>1. i - 1 \in 0 .. N - 1 /\ i \in Int
        BY <1>3, SMT
      <4>2. First(s) + (i - 1) \in 0 .. 2 * Room + 1 /\ First(s) \in Int
        BY <1>3, <4>1, FirstWords
      <4>3. First(s) + (i - 1) = First(s) + i - 1
        BY <4>1, <4>2, SMT
      <4> QED
        BY <1>3, <4>2, <4>3 DEF HasSizes, Data6
    <3> QED
      BY <3>1
  <2> DEFINE p == Printed(s, n)
  <2>2. p \in [1 .. n -> Int] /\ n \in Nat
    BY <1>3, <2>1, SMT DEF Printed
  <2> HIDE DEF p
  <2>3. p \in Seq(Int) /\ Len(p) = n
    BY <2>2, SMT
  <2> QED
    BY <2>3 DEF p
<1>5. Printed(s, 0) = << >>
  <2>1. 0 \in 0 .. N
    BY <1>3, SMT
  <2> QED
    BY <1>4, <2>1, EmptySeq
<1>6. Printed(s, N) = Items(s, memory)
  BY <1>3 DEF Printed
<1>7. CASE PrintArray
  <2>1. /\ pc = print_array /\ pc' = print_loop /\ console' = console
        /\ regs' = [regs EXCEPT !.s0 = regs.a0, !.s1 = regs.a1, !.s2 = 0]
    BY <1>7 DEF PrintArray
  <2>2. regs'.s2 = 0
    BY <1>3, <2>1 DEF TypeOK, Register
  <2>3. Progress(s)' = Printed(s, 0)
    BY <1>1, <2>1, <2>2 DEF Progress, Printed
  <2>4. Progress(s) = << >>
    BY <2>1 DEF Progress
  <2>5. << >> \in Seq(Int)
    BY EmptySeq
  <2> QED
    BY <1>2, <1>5, <2>1, <2>3, <2>4, <2>5
<1>8. CASE PrintItem
  <2>1. /\ pc = print_loop /\ pc' = pc /\ regs.s2 < regs.s1
        /\ console' = Append(console, Item(regs.s0, regs.s2))
        /\ regs' = [regs EXCEPT !.s2 = regs.s2 + 1]
    BY <1>8 DEF PrintItem
  <2> DEFINE n == regs.s2
             item == memory[First(s) + n]
  <2>2. n \in 0 .. N /\ regs.s1 = N /\ regs.s0 = s.array
    BY <1>2, <2>1
  <2>3. n \in 0 .. N - 1 /\ n + 1 \in 0 .. N /\ n \in Nat
    BY <1>3, <2>1, <2>2, SMT
  <2>4. Item(regs.s0, regs.s2) = item /\ item \in Int
    BY <1>3, <2>2, <2>3, ItemLoaded DEF First
  <2>5. regs'.s2 = n + 1
    BY <1>3, <2>1 DEF TypeOK, Register
  <2>6. Progress(s) = Printed(s, n) /\ Progress(s)' = Printed(s, n + 1)
    BY <1>1, <2>1, <2>5 DEF Progress, Printed
  <2>7. Printed(s, n + 1) = Append(Printed(s, n), item)
    <3> DEFINE p == Printed(s, n)
               longer == Printed(s, n + 1)
               x == item
               extended == Append(p, x)
    <3>1. /\ p \in Seq(Int) /\ Len(p) = n /\ longer \in Seq(Int) /\ Len(longer) = n + 1
          /\ x \in Int
      BY <1>4, <2>2, <2>3, <2>4
    <3>2. /\ \A i \in 1 .. n : p[i] = memory[First(s) + i - 1]
          /\ \A i \in 1 .. n + 1 : longer[i] = memory[First(s) + i - 1]
      BY DEF Printed
    <3>3. First(s) + (n + 1) - 1 = First(s) + n
      <4>1. First(s) \in Int
        BY <1>3, <2>3, FirstWords
      <4> QED
        BY <2>3, <4>1, SMT
    <3>4. longer[n + 1] = x
      <4>1. n + 1 \in 1 .. n + 1
        BY <2>3, SMT
      <4> QED
        BY <3>2, <3>3, <4>1
    <3>5. \A i \in 1 .. n : longer[i] = p[i]
      <4>1. \A i \in 1 .. n : i \in 1 .. n + 1
        BY <2>3, SMT
      <4> QED
        BY <3>2, <4>1
    <3> HIDE DEF n, item, p, longer, x
    <3>6. /\ extended \in Seq(Int) /\ Len(extended) = n + 1
          /\ \A i \in 1 .. n : extended[i] = p[i]
          /\ extended[n + 1] = x
      BY <3>1, AppendProperties
    <3>7. \A i \in 1 .. n + 1 : i \in 1 .. n \/ i = n + 1
      BY <2>3, SMT
    <3> HIDE DEF extended
    <3>8. \A i \in 1 .. n + 1 : longer[i] = extended[i]
      BY <3>4, <3>5, <3>6, <3>7
    <3>9. longer = extended
      BY <3>1, <3>6, <3>8, SeqEqual
    <3> QED
      BY <3>9 DEF extended, longer, p, x
  <2>8. Progress(s) \in Seq(Int)
    BY <1>4, <2>2, <2>6
  <2> QED
    BY <1>2, <2>1, <2>4, <2>6, <2>7, <2>8
<1>9. CASE PrintDone
  <2>1. pc = print_loop /\ regs.s2 >= regs.s1 /\ console' = console
    BY <1>9 DEF PrintDone
  <2>2. regs.s2 = N
    <3>1. regs.s2 \in 0 .. N /\ regs.s1 = N
      BY <1>2, <2>1
    <3> QED
      BY <1>3, <2>1, <3>1, SMT
  <2>3. Progress(s) = Items(s, memory)
    BY <1>1, <1>6, <2>1, <2>2 DEF Progress
  <2>4. pc' # print_array /\ pc' # print_loop
    BY <1>9, PrintReturns, Labels6, SorterPlaces, PlaceLabels
  <2>5. Progress(s)' = Items(s, memory)
    BY <1>3, <2>4 DEF Progress
  <2>6. Items(s, memory) \in Seq(Int)
    BY <1>3, SequenceTypes
  <2> QED
    BY <1>2, <2>1, <2>3, <2>5, <2>6
<1> QED
  BY <1>7, <1>8, <1>9

LEMMA ConsolePrintStep ==
  ASSUME Control, ConsoleOK, PrintArray \/ PrintItem \/ PrintDone
  PROVE  ConsoleOK'
<1>1. before' = before /\ memory' = memory /\ Place' = Place
  BY PrintPlace
<1>2. PICK s \in Sorters :
        /\ Place \in {s.afterPrint, s.afterPrintSorted}
        /\ Progress(s) \in Seq(Int)
        /\ \/ Progress(s)' = Progress(s) /\ console' = console
           \/ \E item \in Int : /\ Progress(s)' = Append(Progress(s), item)
                               /\ console' = Append(console, item)
  BY PrintedMore
<1> DEFINE base == Base(s)
           both == Base(s) \o Items(s, before.memory)
           now == Progress(s)
           next == Progress(s)'
<1>3. base' = base /\ both' = both
  BY <1>1, SameMemory
<1>4. base \in Seq(Int) /\ both \in Seq(Int) /\ now \in Seq(Int)
  <2>1. base \in Seq(Int) /\ Items(s, before.memory) \in Seq(Int)
    BY SequenceTypes DEF Control
  <2> QED
    BY <1>2, <2>1, ConcatProperties
<1>5. ASSUME NEW shown \in Seq(Int), console = shown \o now PROVE console' = shown \o next
  <2>1. CASE next = now /\ console' = console
    BY <1>5, <2>1
  <2>2. ASSUME NEW item \in Int, next = Append(now, item), console' = Append(console, item)
        PROVE  console' = shown \o next
    <3> HIDE DEF now, next
    <3>1. shown \o now \in Seq(Int) /\ <<item>> \in Seq(Int)
      BY <1>4, ConcatProperties, SMT
    <3>2. console' = (shown \o now) \o <<item>> /\ next = now \o <<item>>
      <4>1. /\ Append(now, item) = now \o <<item>>
            /\ Append(shown \o now, item) = (shown \o now) \o <<item>>
        BY <1>4, <3>1, AppendItem
      <4> QED
        BY <1>5, <2>2, <4>1
    <3>3. (shown \o now) \o <<item>> = shown \o (now \o <<item>>)
      BY <1>4, <3>1, SMTT(30)
    <3> QED
      BY <3>2, <3>3
  <2> QED
    BY <1>2, <2>1, <2>2
<1>6. AsExpected(s)'
  <2>1. CASE Place = s.afterPrint
    <3>1. console = base \o now
      BY <2>1 DEF ConsoleOK
    <3>2. console' = (Base(s) \o Progress(s))'
      BY <1>3, <1>4, <1>5, <3>1
    <3> QED
      BY <1>1, <2>1, <3>2 DEF AsExpected
  <2>2. CASE Place = s.afterPrintSorted
    <3>1. console = both \o now
      BY <2>2 DEF ConsoleOK
    <3>2. console' = ((Base(s) \o Items(s, before.memory)) \o Progress(s))'
      BY <1>3, <1>4, <1>5, <3>1
    <3> QED
      BY <1>1, <2>2, <3>2 DEF AsExpected
  <2> QED
    BY <1>2, <2>1, <2>2
<1>7. ((\E t \in Sorters : AsExpected(t)) => ConsoleOK)'
  BY OnePlace, PTL
<1> QED
  BY <1>6, <1>7, Zenon

LEMMA ConsoleLoopStep ==
  ASSUME Control, Control', ConsoleOK, NEW s \in Sorters,
         \/ /\ s = mainInsertion
            /\ InsertionSort \/ TakeKey \/ ShiftItem \/ InsertKey \/ InsertionFinished
         \/ /\ s = mainSelection
            /\ SelectionSort \/ SelectFrom \/ CompareItem \/ SwapMinimum \/ SelectionFinished
  PROVE  ConsoleOK'
<1>1. before' = before /\ console' = console /\ Place = pc /\ Place' = pc'
  BY LoopPlace
<1>2. Place \in SortPlaces(s) /\ Place' \in SortPlaces(s)
  <2>1. CASE s = mainInsertion
    BY <1>1, <2>1, LoopPlace, SorterPlaces DEF SortPlaces, InsertionLoops
  <2>2. CASE s = mainSelection
    BY <1>1, <2>2, LoopPlace, SorterPlaces DEF SortPlaces, SelectionLoops
  <2> QED
    BY <2>1, <2>2, PlaceLabels
<1>3. /\ Items(s, before.memory)' = Items(s, before.memory)
      /\ SortPlaces(s)' = SortPlaces(s)
  BY <1>1 DEF Items, SortPlaces
<1>4. Base(s)' = Base(s)
  <2>1. CASE s = mainInsertion
    BY <2>1, SorterPlaces DEF Base
  <2>2. CASE s = mainSelection
    <3>1. \A i \in 0 .. N - 1 : memory'[i] = memory[i]
      BY <2>2, SelectionKeepsItems, SorterPlaces
    <3>2. N' = N /\ TypeOK /\ HasSizes(memory) /\ HasSizes(memory')
      <4>1. HasSizes(memory)'
        BY DEF Control, TypeOK
      <4>2. N' = N
        BY <1>1 DEF N
      <4> QED
        BY <4>1, <4>2 DEF Control, TypeOK, HasSizes, Data6
    <3>3. \A i \in 1 .. N : memory'[First(mainInsertion) + i - 1]
                              = memory[First(mainInsertion) + i - 1]
      <4>1. ASSUME NEW i \in 1 .. N
            PROVE  memory'[First(mainInsertion) + i - 1] = memory[First(mainInsertion) + i - 1]
        <5>1. First(mainInsertion) + i - 1 \in 0 .. N - 1
          BY <3>2, FirstWords, SMT
        <5> QED
          BY <3>1, <5>1
      <4> QED
        BY <4>1
    <3>4. Items(mainInsertion, memory)' = Items(mainInsertion, memory)
      <4>1. mainInsertion \in Sorters
        BY DEF Sorters
      <4>2. Items(mainInsertion, memory)
              = [i \in 1 .. N |-> memory[First(mainInsertion) + i - 1]]
        BY <3>2, <4>1, ItemsOf
      <4>3. Items(mainInsertion, memory')
              = [i \in 1 .. N |-> memory'[First(mainInsertion) + i - 1]]
        BY <3>2, <4>1, ItemsOf
      <4>4. Items(mainInsertion, memory)' = Items(mainInsertion, memory')
        BY DEF Items
      <4> QED
        BY <3>3, <4>2, <4>3, <4>4
    <3>5. Items(mainInsertion, before.memory)' = Items(mainInsertion, before.memory)
      BY <1>1 DEF Items
    <3>6. Section(mainInsertion)' = Section(mainInsertion)
      BY <3>4, <3>5, Zenon DEF Section
    <3> QED
      BY <1>1, <3>6 DEF Base
  <2> QED
    BY <2>1, <2>2, PlaceLabels
<1>5. AsExpected(s)'
  <2>1. console = Base(s) \o Items(s, before.memory)
    BY <1>2 DEF ConsoleOK
  <2>2. console' = (Base(s) \o Items(s, before.memory))'
    BY <1>1, <1>3, <1>4, <2>1
  <2>3. Place' \in SortPlaces(s)'
    BY <1>2, <1>3
  <2> QED
    BY <2>2, <2>3 DEF AsExpected
<1>6. ((\E t \in Sorters : AsExpected(t)) => ConsoleOK)'
  BY OnePlace, PTL
<1> QED
  BY <1>5, <1>6, Zenon

LEMMA InitConsole == InitAsm6 => ConsoleOK
<1> SUFFICES ASSUME InitAsm6 PROVE ConsoleOK
  OBVIOUS
<1>1. pc = before.pc /\ console = << >> /\ pc \in {main} \cup {s.line : s \in Sorters}
  BY StartsAssumption DEF InitAsm6, Called
<1>2. pc \notin {print_array, print_loop}
  BY <1>1, Labels6, SorterLabels, SMT DEF Sorters
<1>3. Place = pc
  BY <1>2 DEF Place
<1>4. CASE pc = main
  <2>1. \A s \in Sorters :
          /\ Place # s.line /\ Place # s.afterPrint /\ Place \notin SortPlaces(s)
          /\ Place # s.afterPrintSorted /\ Place # ReturnsTo(s)
    BY <1>3, <1>4, SorterPlaces, PlaceLabels
  <2>2. Place # Exit
    BY <1>3, <1>4, SorterPlaces
  <2> QED
    BY <1>1, <2>1, <2>2, Zenon DEF ConsoleOK
<1>5. CASE \E s \in Sorters : pc = s.line
  <2>1. PICK s \in Sorters : pc = s.line
    BY <1>5
  <2>2. Base(s) = << >>
    BY <1>1, <2>1, SorterPlaces, PlaceLabels DEF Base
  <2>3. AsExpected(s)
    BY <1>1, <1>3, <2>1, <2>2 DEF AsExpected
  <2> QED
    BY <2>3, OnePlace
<1> QED
  BY <1>1, <1>4, <1>5

LEMMA ConsoleStep ==
  Control /\ Control' /\ InsertionOrder /\ SelectionOrder /\ ConsoleOK
    /\ [CodeAsm6]_<<call, clock>> => ConsoleOK'
<1> SUFFICES ASSUME Control, Control', InsertionOrder, SelectionOrder, ConsoleOK,
                    [CodeAsm6]_<<call, clock>>
             PROVE  ConsoleOK'
  OBVIOUS
<1>1. CASE CallInsertion \/ CallSelection \/ ExitProgram
  BY <1>1, ConsoleMainStep
<1>2. CASE \E s \in Sorters : StartSorter(s) \/ CallSort(s) \/ PrintSorted(s) \/ ReportTime(s)
  BY <1>2, ConsoleSorterStep
<1>3. CASE PrintArray \/ PrintItem \/ PrintDone
  BY <1>3, ConsolePrintStep
<1>4. CASE \/ InsertionSort \/ TakeKey \/ ShiftItem \/ InsertKey \/ InsertionFinished
           \/ SelectionSort \/ SelectFrom \/ CompareItem \/ SwapMinimum \/ SelectionFinished
  BY <1>4, ConsoleLoopStep DEF Sorters
<1>5. CASE UNCHANGED <<call, clock>>
  <2>1. /\ pc' = pc /\ regs' = regs /\ stack' = stack /\ console' = console
        /\ memory' = memory /\ before' = before
    BY <1>5 DEF call, machine
  <2>2. Place' = Place
    BY <2>1 DEF Place
  <2>3. \A s \in Sorters :
          /\ Items(s, memory)' = Items(s, memory)
          /\ Items(s, before.memory)' = Items(s, before.memory)
          /\ Section(s)' = Section(s) /\ Base(s)' = Base(s)
          /\ ReturnsTo(s)' = ReturnsTo(s) /\ (Started(s)' <=> Started(s))
          /\ SortPlaces(s)' = SortPlaces(s)
    BY <2>1, SameMemory
  <2>4. \A s \in Sorters : Progress(s)' = Progress(s)
    BY <2>1, <2>3 DEF Progress, Printed
  <2>5. mainInsertion \in Sorters /\ mainSelection \in Sorters
    BY DEF Sorters
  <2> QED
    BY <2>1, <2>2, <2>3, <2>4, <2>5, Zenon DEF ConsoleOK
<1> QED
  BY <1>1, <1>2, <1>3, <1>4, <1>5 DEF CodeAsm6

LEMMA ConsoleInvariant == Spec => []ConsoleOK
<1>1. InitAsm6 => ConsoleOK
  BY InitConsole
<1>2. Control /\ Control' /\ InsertionOrder /\ SelectionOrder /\ ConsoleOK
        /\ [CodeAsm6]_<<call, clock>> => ConsoleOK'
  BY ConsoleStep
<1> QED
  BY <1>1, <1>2, ControlInvariant, InsertionOrderInvariant, SelectionOrderInvariant, PTL
     DEF Spec

\* At the end of the program, and when a sorter has been called and returns.
LEMMA AtTheEnd ==
  ASSUME Control, pc \in {Exit, Caller(6)}
  PROVE  /\ Place = pc
         /\ \/ before.pc = main /\ pc = Exit
            \/ \E s \in Sorters :
                 before.pc = s.line /\ Started(s) /\ pc = ReturnsTo(s) /\ Base(s) = << >>
<1>1. pc \in {6043, 6000}
  BY Labels6
<1>2. Place = pc
  BY <1>1, Labels6 DEF Place
<1>3. ~ Inserting /\ ~ Selecting
  BY <1>1, Labels6 DEF Inserting, Selecting
<1>4. \A s \in Sorters : ~ Printing(s) /\ ~ InSorter(s)
  <2>1. \A s \in Sorters :
          pc \notin {s.afterPrint, s.afterSort, s.afterPrintSorted, print_array, print_loop,
                     s.sort}
    BY <1>1, Labels6, SorterLabels, SMT DEF Sorters
  <2> QED
    BY <2>1 DEF Printing, InSorter
<1>5. AtRest
  BY <1>3, <1>4 DEF Control
<1>6. \A s \in Sorters : pc # s.line
  BY <1>1, SorterPlaces, PlaceLabels
<1>7. before.pc \in {main, mainInsertion.line, mainSelection.line}
  BY DEF Control, TypeOK, CallOK
<1>8. CASE before.pc = main
  <2>1. pc \in {main, AfterInsertion, AfterSelection, Exit}
    BY <1>5, <1>6, <1>8 DEF AtRest
  <2>2. pc = Exit
    BY <1>1, <2>1, Labels6
  <2> QED
    BY <1>2, <1>8, <2>2
<1>9. CASE before.pc # main
  <2>1. PICK s \in Sorters : before.pc = s.line
    BY <1>7, <1>9 DEF Sorters
  <2>2. pc = Caller(6)
    BY <1>5, <1>6, <1>9 DEF AtRest
  <2>3. Started(s) /\ ReturnsTo(s) = Caller(6) /\ Base(s) = << >>
    BY <1>9, <2>1 DEF Started, ReturnsTo, Base
  <2> QED
    BY <1>2, <2>1, <2>2, <2>3
<1> QED
  BY <1>8, <1>9

LEMMA AscendingWords ==
  ASSUME TypeOK, Least(memory, N)
  PROVE  Ascending(Items(mainSelection, memory))
<1> DEFINE items == Items(mainSelection, memory)
<1>1. N \in Nat /\ First(mainSelection) \in Int /\ mainSelection \in Sorters
  BY FirstWords DEF Sorters
<1>2. DOMAIN items = 1 .. N /\ \A i \in 1 .. N : items[i] = memory[First(mainSelection) + i - 1]
  BY <1>1, ItemsOf DEF TypeOK
<1> HIDE DEF items
<1>3. \A i \in 1 .. N : items[i] = Word(memory, i - 1) /\ i - 1 \in 0 .. N - 1
  <2>1. \A i \in 1 .. N : First(mainSelection) + i - 1 = First(mainSelection) + (i - 1)
    BY <1>1, SMT
  <2>2. \A i \in 1 .. N : i - 1 \in 0 .. N - 1
    BY <1>1, SMT
  <2> QED
    BY <1>2, <2>1, <2>2 DEF Word
<1>4. ASSUME NEW i \in 1 .. N, NEW j \in 1 .. N, i <= j PROVE items[i] <= items[j]
  <2>1. i - 1 <= j - 1 /\ i - 1 < N
    BY <1>1, <1>4, SMT
  <2>2. Word(memory, i - 1) <= Word(memory, j - 1)
    BY <1>3, <2>1 DEF Least
  <2> QED
    BY <1>3, <2>2
<1>5. Ascending(items)
  BY <1>2, <1>4 DEF Ascending
<1> QED
  BY <1>5 DEF items

LEMMA OutputOfConsole == Control /\ SelectionOrder /\ ConsoleOK => SortedOutput
<1> SUFFICES ASSUME Control, SelectionOrder, ConsoleOK, pc \in {Exit, Caller(6)}
             PROVE  SortedOutput
  BY DEF SortedOutput
<1>1. CASE before.pc = main /\ pc = Exit
  <2>1. Place = Exit
    BY <1>1, AtTheEnd
  <2>2. console = Section(mainInsertion) \o Section(mainSelection)
    BY <2>1 DEF ConsoleOK
  <2>3. Started(mainSelection) /\ Place \in Selected
    BY <1>1, <2>1 DEF Started, Selected
  <2>4. Ascending(Items(mainSelection, memory))
    BY <2>3, AscendingWords DEF SelectionOrder, Control
  <2>5. before.pc # mainInsertion.line /\ before.pc # mainSelection.line
    BY <1>1, SorterPlaces
  <2> DEFINE done == <<mainInsertion, mainSelection>>
  <2>6. Len(done) = 2 /\ done[1] = mainInsertion /\ done[2] = mainSelection
    OBVIOUS
  <2> QED
    BY <1>1, <2>2, <2>4, <2>5, <2>6 DEF SortedOutput, Section
<1>2. ASSUME NEW s \in Sorters, before.pc = s.line, Started(s), pc = ReturnsTo(s), Base(s) = << >>
      PROVE  SortedOutput
  <2>1. Place = ReturnsTo(s)
    BY <1>2, AtTheEnd
  <2>2. console = << >> \o Section(s)
    BY <1>2, <2>1 DEF ConsoleOK
  <2>3. Section(s) \in Seq(Int)
    BY SequenceTypes DEF Control
  <2>4. console = Section(s) \o << >>
    BY <2>2, <2>3, ConcatEmptySeq
  <2>5. s = mainSelection => Ascending(Items(mainSelection, memory))
    <3>1. pc = Caller(6)
      BY <1>2 DEF ReturnsTo
    <3>2. Place \in Selected
      BY <1>2, <2>1, <3>1 DEF Selected
    <3> QED
      BY <1>2, <3>2, AscendingWords DEF SelectionOrder, Control
  <2>6. /\ before.pc # main
        /\ s = mainInsertion => before.pc = mainInsertion.line /\ before.pc # mainSelection.line
        /\ s = mainSelection => before.pc # mainInsertion.line /\ before.pc = mainSelection.line
    BY <1>2, SorterPlaces, PlaceLabels
  <2>7. CASE s = mainInsertion
    BY <2>4, <2>6, <2>7 DEF SortedOutput, Section
  <2>8. CASE s = mainSelection
    BY <2>4, <2>5, <2>6, <2>8 DEF SortedOutput, Section
  <2> QED
    BY <2>7, <2>8, PlaceLabels
<1> QED
  BY <1>1, <1>2, AtTheEnd

\* At the end selection_sort has put its array in order, and the console shows each
\* array as it was and as it has become, in the order of the calls, and a time that
\* was taken from the clock, so that no function has spoilt the $s0 of another.
THEOREM OutputIsSorted == Spec => []SortedOutput
<1>1. Control /\ SelectionOrder /\ ConsoleOK => SortedOutput
  BY OutputOfConsole
<1> QED
  BY <1>1, ControlInvariant, SelectionOrderInvariant, ConsoleInvariant, PTL
=============================================================================
