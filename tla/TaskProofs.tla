----------------------------- MODULE TaskProofs -----------------------------
(***************************************************************************)
(* The tasks of asm1.s and of asm2.s: what the tasks print and leave       *)
(* behind, proved for any data.  Their invariants say at each label what   *)
(* has been printed so far, and which registers the next tasks rely on.    *)
(***************************************************************************)
EXTENDS SelectedTasks, LoopTasks, FunctionProofs

-----------------------------------------------------------------------------
(* asm1.s: four tasks selected by flags *)

\* asm1.s alone.
SpecAsm1 == InitAsm1 /\ [][CodeAsm1]_call

LEMMA Labels1 ==
  /\ studentMain = 1014 /\ LOOP_START = 1047 /\ CONTINUE = 1060 /\ CONTINUE_AGAIN = 1071
  /\ JUMP_SORT = 1108 /\ JUMP_COMPARE = 1141 /\ JUMP_SWAP = 1180 /\ JUMP_PRINT = 1232
  /\ Caller(1) = 1000
BY SMT DEF studentMain, LOOP_START, CONTINUE, CONTINUE_AGAIN, JUMP_SORT, JUMP_COMPARE, JUMP_SWAP,
     JUMP_PRINT, Caller, Line

Data1 == [alpha : Int, bravo : Int, charlie : Int, delta : Int,
          sort : Flags, compare : Flags, swap : Flags, print : Flags]
Flag1 == Flags \cup {Junk}
Registers1 == [ra : Int, fp : Int, t2 : Flag1, t3 : Flag1, t4 : Flag1,
               t5 : Int, t6 : Int, t7 : Int, t9 : Int]

\* The three numbers in another order.
Orders == {p \in [1 .. 3 -> 1 .. 3] : \A k, l \in 1 .. 3 : p[k] = p[l] => k = l}
InOrder(three) ==
  CHOOSE s \in {[k \in 1 .. 3 |-> three[p[k]]] : p \in Orders} : s[1] <= s[2] /\ s[2] <= s[3]
Rearranged(three, u, v, w) ==
  \E i, j, k \in 1 .. 3 : /\ i # j /\ j # k /\ i # k
                          /\ u = three[i] /\ v = three[j] /\ w = three[k]

\* Three numbers have one order.
LEMMA OneOrder ==
  ASSUME NEW three \in [1 .. 3 -> Int], NEW u, NEW v, NEW w, Rearranged(three, u, v, w),
         u <= v, v <= w
  PROVE  InOrder(three) = <<u, v, w>>
<1> DEFINE rearrangements == {[k \in 1 .. 3 |-> three[p[k]]] : p \in Orders}
           up(s) == s[1] <= s[2] /\ s[2] <= s[3]
<1>1. PICK i, j, k \in 1 .. 3 : /\ i # j /\ j # k /\ i # k
                                /\ u = three[i] /\ v = three[j] /\ w = three[k]
  BY DEF Rearranged
<1>2. <<u, v, w>> \in rearrangements
  <2> DEFINE p == [n \in 1 .. 3 |-> IF n = 1 THEN i ELSE IF n = 2 THEN j ELSE k]
  <2>1. p \in Orders
    BY <1>1, SMT DEF Orders
  <2>2. <<u, v, w>> = [n \in 1 .. 3 |-> three[p[n]]]
    BY <1>1, SMT
  <2> QED
    BY <2>1, <2>2
<1>3. ASSUME NEW s \in rearrangements
      PROVE  /\ s = <<s[1], s[2], s[3]>>
             /\ s[1] \in Int /\ s[2] \in Int /\ s[3] \in Int
             /\ s[1] + s[2] + s[3] = three[1] + three[2] + three[3]
             /\ s[1] \in {three[1], three[2], three[3]}
             /\ s[3] \in {three[1], three[2], three[3]}
             /\ up(s) => \A n \in 1 .. 3 : s[1] <= three[n] /\ three[n] <= s[3]
  <2>1. PICK p \in Orders : s = [n \in 1 .. 3 |-> three[p[n]]]
    BY <1>3
  <2>2. /\ p[1] \in {1, 2, 3} /\ p[2] \in {1, 2, 3} /\ p[3] \in {1, 2, 3}
        /\ p[1] # p[2] /\ p[2] # p[3] /\ p[1] # p[3]
    BY <2>1, SMT DEF Orders
  <2>3. /\ s[1] = three[p[1]] /\ s[2] = three[p[2]] /\ s[3] = three[p[3]]
        /\ three[1] \in Int /\ three[2] \in Int /\ three[3] \in Int
    BY <2>1, SMT
  <2>4. s = <<s[1], s[2], s[3]>>
    BY <2>1, SMT
  <2>5. /\ s[1] \in Int /\ s[2] \in Int /\ s[3] \in Int
        /\ s[1] + s[2] + s[3] = three[1] + three[2] + three[3]
        /\ s[1] \in {three[1], three[2], three[3]}
        /\ s[3] \in {three[1], three[2], three[3]}
    BY <2>2, <2>3, SMT
  <2>6. up(s) => \A n \in {1, 2, 3} : s[1] <= three[n] /\ three[n] <= s[3]
    BY <2>2, <2>3, SMT
  <2>7. 1 .. 3 = {1, 2, 3}
    BY SMT
  <2> QED
    BY <2>4, <2>5, <2>6, <2>7
<1> DEFINE t == <<u, v, w>>
<1>4. t[1] = u /\ t[2] = v /\ t[3] = w /\ up(t)
  OBVIOUS
<1>5. t \in rearrangements
  BY <1>2
<1>6. ASSUME NEW s \in rearrangements, up(s)
      PROVE  s = t
  <2> HIDE DEF rearrangements, t
  <2>1. s = <<s[1], s[2], s[3]>> /\ t = <<t[1], t[2], t[3]>>
    BY <1>3, <1>5
  <2>2. s[1] = t[1] /\ s[2] = t[2] /\ s[3] = t[3]
    <3>1. \A n \in {1, 2, 3} : n \in 1 .. 3
      BY SMT
    <3>2. /\ s[1] \in Int /\ s[2] \in Int /\ s[3] \in Int
          /\ t[1] \in Int /\ t[2] \in Int /\ t[3] \in Int
          /\ s[1] + s[2] + s[3] = t[1] + t[2] + t[3]
          /\ s[1] <= t[1] /\ t[1] <= s[1] /\ s[3] <= t[3] /\ t[3] <= s[3]
      BY <1>3, <1>4, <1>5, <1>6, <3>1
    <3> QED
      BY <3>2, SMT
  <2> QED
    BY <2>1, <2>2
<1> HIDE DEF rearrangements, t, up
<1>7. (CHOOSE s \in rearrangements : up(s)) = t
  BY <1>4, <1>5, <1>6
<1> QED
  BY <1>7 DEF InOrder, rearrangements, up, t

-----------------------------------------------------------------------------
(* What asm1.s has printed and written at each of its places. *)

ThreeOf(m) == <<m.alpha, m.bravo, m.charlie>>
FourOf(m) == IF m.swap = 1 THEN <<m.bravo, m.alpha, m.delta, m.charlie>>
                           ELSE ThreeOf(m) \o <<m.delta>>
SortPrinted(m) == IF m.sort = 1 THEN InOrder(ThreeOf(m)) ELSE << >>
ComparePrinted(m) ==
  SortPrinted(m) \o (IF m.compare = 1 THEN <<IF m.charlie < m.bravo THEN MORE ELSE LESS>>
                                      ELSE << >>)
AllPrinted(m) == ComparePrinted(m) \o (IF m.print = 1 THEN FourOf(m) ELSE << >>)
SwapWritten(m) ==
  IF m.swap # 1 THEN m
  ELSE [m EXCEPT !.alpha = m.bravo, !.bravo = m.alpha, !.charlie = m.delta, !.delta = m.charlie]

Frame1 == stack = <<before.regs.fp, Caller(1), Junk, Junk, Junk, Junk>>
FlagsKept(m) == regs.t2 = m.compare /\ regs.t3 = m.swap /\ regs.t4 = m.print
Place1(m) ==
  /\ pc \in {studentMain, LOOP_START, CONTINUE, CONTINUE_AGAIN, JUMP_SORT, JUMP_COMPARE,
             JUMP_SWAP, JUMP_PRINT, Caller(1)}
  /\ pc = studentMain => /\ stack = << >> /\ regs.ra = Caller(1) /\ regs.fp = before.regs.fp
                         /\ memory = m /\ console = << >>
  /\ pc \notin {studentMain, Caller(1)} => Frame1 /\ FlagsKept(m)
  /\ pc \in {LOOP_START, CONTINUE, CONTINUE_AGAIN} =>
       /\ memory = m /\ console = << >> /\ m.sort = 1
       /\ Rearranged(ThreeOf(m), regs.t5, regs.t6, regs.t7)
  /\ pc = CONTINUE => regs.t9 \in {0, 1} /\ (regs.t9 = 0 => regs.t5 <= regs.t6)
  /\ pc = CONTINUE_AGAIN => (regs.t9 = 0 => regs.t5 <= regs.t6 /\ regs.t6 <= regs.t7)
  /\ pc = JUMP_SORT => memory = m /\ console = SortPrinted(m)
  /\ pc = JUMP_COMPARE => memory = m /\ console = ComparePrinted(m)
  /\ pc = JUMP_SWAP => memory = SwapWritten(m) /\ console = ComparePrinted(m)
  /\ pc \in {JUMP_PRINT, Caller(1)} => memory = SwapWritten(m) /\ console = AllPrinted(m)
  /\ pc = Caller(1) => stack = << >> /\ regs.fp = before.regs.fp

Types1 ==
  /\ regs \in Registers1 /\ before.regs.fp \in Int /\ before.memory \in Data1
  /\ console \in Seq(Int)
TaskInv1 == Types1 /\ Place1(before.memory)

LEMMA InitialTasks1 ==
  ASSUME InitAsm1
  PROVE  TaskInv1
<1>1. PICK t \in Triples, sort, compare, swap, print \in Flags :
        Called(studentMain, RegistersAsm1,
               [alpha |-> t[1], bravo |-> t[2], charlie |-> t[3], delta |-> 9,
                sort |-> sort, compare |-> compare, swap |-> swap, print |-> print])
  BY DEF InitAsm1
<1> DEFINE m == [alpha |-> t[1], bravo |-> t[2], charlie |-> t[3], delta |-> 9,
                 sort |-> sort, compare |-> compare, swap |-> swap, print |-> print]
<1>2. m \in Data1
  <2>1. t \in [1 .. 3 -> Int]
    BY TriplesAssumption
  <2>2. t[1] \in Int /\ t[2] \in Int /\ t[3] \in Int
    BY <2>1, SMT
  <2> QED
    BY <2>2, SMT DEF Data1
<1>3. RegistersAsm1 \in Registers1 /\ RegistersAsm1.ra = Caller(1) /\ RegistersAsm1.fp \in Int
  BY Labels1, SMT DEF RegistersAsm1, Registers1, Flag1, Junk
<1>4. /\ pc = studentMain /\ regs = RegistersAsm1 /\ memory = m /\ stack = << >> /\ console = << >>
      /\ before.memory = m /\ before.regs = RegistersAsm1
  BY <1>1 DEF Called
<1> HIDE DEF m
<1>5. Types1
  BY <1>2, <1>3, <1>4 DEF Types1
<1>6. Place1(before.memory)
  BY <1>3, <1>4, Labels1 DEF Place1
<1> QED
  BY <1>5, <1>6 DEF TaskInv1

LEMMA StudentMainStarts ==
  ASSUME TaskInv1, StudentMain
  PROVE  TaskInv1'
<1>0. PICK m : m = before.memory
  OBVIOUS
<1>1. /\ pc = studentMain /\ before' = before /\ memory' = memory /\ console' = console
      /\ stack' = Pushed(<<regs.fp, regs.ra, Junk, Junk, Junk, Junk>>)
      /\ regs' = [regs EXCEPT !.fp = FrameTop,
                    !.t2 = memory.compare, !.t3 = memory.swap, !.t4 = memory.print,
                    !.t5 = memory.alpha, !.t6 = memory.bravo, !.t7 = memory.charlie, !.t9 = 1]
      /\ pc' = IF memory.sort = 1 THEN LOOP_START ELSE JUMP_SORT
  BY DEF StudentMain
<1>2. /\ regs \in Registers1 /\ m \in Data1 /\ memory = m /\ console = << >> /\ stack = << >>
      /\ regs.ra = Caller(1) /\ regs.fp = before.regs.fp /\ before.regs.fp \in Int
  BY <1>0, <1>1, Labels1 DEF TaskInv1, Types1, Place1
<1>3. /\ m.alpha \in Int /\ m.bravo \in Int /\ m.charlie \in Int
      /\ m.compare \in Flag1 /\ m.swap \in Flag1 /\ m.print \in Flag1
  BY <1>2 DEF Data1, Flag1
<1>4. /\ regs' \in Registers1 /\ regs'.t2 = m.compare /\ regs'.t3 = m.swap /\ regs'.t4 = m.print
      /\ regs'.t5 = m.alpha /\ regs'.t6 = m.bravo /\ regs'.t7 = m.charlie
  <2>1. FrameTop \in Int /\ 1 \in Int
    BY DEF FrameTop
  <2>2. regs' = [regs EXCEPT !.fp = FrameTop, !.t2 = m.compare, !.t3 = m.swap, !.t4 = m.print,
                   !.t5 = m.alpha, !.t6 = m.bravo, !.t7 = m.charlie, !.t9 = 1]
    BY <1>1, <1>2
  <2> QED
    BY <1>2, <1>3, <2>1, <2>2 DEF Registers1
<1>5. stack' = <<before.regs.fp, Caller(1), Junk, Junk, Junk, Junk>>
  <2>1. <<regs.fp, regs.ra, Junk, Junk, Junk, Junk>> \in Seq(Int)
    BY <1>2 DEF Registers1, Junk
  <2> QED
    BY <1>1, <1>2, <2>1, FirstFrame
<1>6. Rearranged(ThreeOf(m), regs'.t5, regs'.t6, regs'.t7)
  <2>1. regs'.t5 = ThreeOf(m)[1] /\ regs'.t6 = ThreeOf(m)[2] /\ regs'.t7 = ThreeOf(m)[3]
    BY <1>4 DEF ThreeOf
  <2>2. 1 \in 1 .. 3 /\ 2 \in 1 .. 3 /\ 3 \in 1 .. 3 /\ 1 # 2 /\ 2 # 3 /\ 1 # 3
    BY SMT
  <2> QED
    BY <2>1, <2>2, Zenon DEF Rearranged
<1>7. Types1'
  BY <1>0, <1>1, <1>2, <1>4 DEF Types1
<1>8. before'.memory = m
  BY <1>0, <1>1
<1>9. (pc' = LOOP_START /\ m.sort = 1) \/ (pc' = JUMP_SORT /\ m.sort # 1)
  BY <1>1, <1>2
<1>10. Frame1' /\ FlagsKept(m)'
  BY <1>1, <1>4, <1>5, Labels1 DEF Frame1, FlagsKept, Caller, Line
<1>11. memory' = m /\ console' = << >>
  BY <1>1, <1>2
<1>12. Place1(m)'
  BY <1>6, <1>9, <1>10, <1>11, Labels1 DEF Place1, SortPrinted
<1> QED
  BY <1>7, <1>8, <1>12 DEF TaskInv1

\* What the invariant says in the middle of the function.
LEMMA InTasks1 ==
  ASSUME TaskInv1, NEW m, m = before.memory, pc \notin {studentMain, Caller(1)}
  PROVE  /\ regs \in Registers1 /\ m \in Data1 /\ before.regs.fp \in Int /\ console \in Seq(Int)
         /\ Place1(m) /\ Frame1 /\ FlagsKept(m)
BY DEF TaskInv1, Types1, Place1

LEMMA SettingT9 ==
  ASSUME NEW r \in Registers1, NEW n \in Int,
         NEW s, s = [r EXCEPT !.t9 = n]
  PROVE  /\ s \in Registers1 /\ s.t5 = r.t5 /\ s.t6 = r.t6 /\ s.t7 = r.t7 /\ s.t9 = n
         /\ s.t2 = r.t2 /\ s.t3 = r.t3 /\ s.t4 = r.t4
BY DEF Registers1

LEMMA SortingStep ==
  ASSUME TaskInv1, ComparePair \/ CompareLastPair \/ SortAgain
  PROVE  TaskInv1'
<1>0. PICK m : m = before.memory
  OBVIOUS
<1>1. /\ pc \in {LOOP_START, CONTINUE, CONTINUE_AGAIN}
      /\ before' = before /\ memory' = memory /\ console' = console /\ stack' = stack
  BY DEF ComparePair, CompareLastPair, SortAgain
<1>2. /\ regs \in Registers1 /\ m \in Data1 /\ before.regs.fp \in Int /\ console \in Seq(Int)
      /\ Place1(m) /\ Frame1 /\ FlagsKept(m)
  BY <1>0, <1>1, InTasks1, Labels1
<1>3. /\ memory = m /\ console = << >> /\ m.sort = 1
      /\ Rearranged(ThreeOf(m), regs.t5, regs.t6, regs.t7)
  BY <1>1, <1>2 DEF Place1
<1>4. /\ regs.t5 \in Int /\ regs.t6 \in Int /\ regs.t7 \in Int /\ regs.t9 \in Int
  BY <1>2 DEF Registers1
<1>5. \A u, v, w : Rearranged(ThreeOf(m), u, v, w) => /\ Rearranged(ThreeOf(m), v, u, w)
                                                      /\ Rearranged(ThreeOf(m), u, w, v)
  BY DEF Rearranged
<1>6. /\ regs' \in Registers1 /\ FlagsKept(m)'
      /\ Rearranged(ThreeOf(m), regs'.t5, regs'.t6, regs'.t7)
      /\ \/ pc' = LOOP_START
         \/ pc' = CONTINUE /\ regs'.t9 \in {0, 1} /\ (regs'.t9 = 0 => regs'.t5 <= regs'.t6)
         \/ pc' = CONTINUE_AGAIN /\ (regs'.t9 = 0 => regs'.t5 <= regs'.t6 /\ regs'.t6 <= regs'.t7)
  <2>1. CASE ComparePair
    <3>1. /\ pc' = CONTINUE
          /\ \/ /\ regs.t6 < regs.t5
                /\ regs' = [regs EXCEPT !.t5 = regs.t6, !.t6 = regs.t5, !.t9 = 1]
             \/ ~ regs.t6 < regs.t5 /\ regs' = [regs EXCEPT !.t9 = 0]
      BY <2>1 DEF ComparePair
    <3>2. CASE /\ regs.t6 < regs.t5
               /\ regs' = [regs EXCEPT !.t5 = regs.t6, !.t6 = regs.t5, !.t9 = 1]
      <4>1. /\ regs' \in Registers1 /\ regs'.t9 = 1 /\ regs'.t5 = regs.t6 /\ regs'.t6 = regs.t5
            /\ regs'.t7 = regs.t7
            /\ regs'.t2 = regs.t2 /\ regs'.t3 = regs.t3 /\ regs'.t4 = regs.t4
        <5>1. 1 \in Int
          OBVIOUS
        <5>2. PICK u \in Int, v \in Int : u = regs.t6 /\ v = regs.t5
          BY <1>4
        <5>3. regs' = [regs EXCEPT !.t5 = u, !.t6 = v, !.t9 = 1]
          BY <3>2, <5>2
        <5>4. /\ regs' \in Registers1 /\ regs'.t5 = u /\ regs'.t6 = v /\ regs'.t7 = regs.t7
              /\ regs'.t9 = 1 /\ regs'.t2 = regs.t2 /\ regs'.t3 = regs.t3 /\ regs'.t4 = regs.t4
          BY <1>2, <5>1, <5>3 DEF Registers1
        <5> QED
          BY <5>2, <5>4
      <4> QED
        BY <1>2, <1>3, <1>5, <3>1, <4>1 DEF FlagsKept
    <3>3. CASE ~ regs.t6 < regs.t5 /\ regs' = [regs EXCEPT !.t9 = 0]
      <4>1. /\ regs' \in Registers1 /\ regs'.t9 = 0 /\ regs'.t5 = regs.t5 /\ regs'.t6 = regs.t6
            /\ regs'.t7 = regs.t7 /\ regs.t5 <= regs.t6
            /\ regs'.t2 = regs.t2 /\ regs'.t3 = regs.t3 /\ regs'.t4 = regs.t4
        <5>1. PICK zero \in Int : zero = 0
          OBVIOUS
        <5>2. regs' = [regs EXCEPT !.t9 = zero] /\ regs \in Registers1
          BY <1>2, <3>3, <5>1
        <5>3. regs.t5 <= regs.t6
          BY <1>4, <3>3, SMT
        <5>4. /\ regs' \in Registers1 /\ regs'.t9 = zero /\ regs'.t5 = regs.t5 /\ regs'.t6 = regs.t6
              /\ regs'.t7 = regs.t7
              /\ regs'.t2 = regs.t2 /\ regs'.t3 = regs.t3 /\ regs'.t4 = regs.t4
          BY <5>2, SettingT9
        <5> QED
          BY <5>1, <5>3, <5>4
      <4> QED
        BY <1>2, <1>3, <3>1, <4>1 DEF FlagsKept
    <3> QED
      BY <3>1, <3>2, <3>3
  <2>2. CASE CompareLastPair
    <3>1. /\ pc = CONTINUE /\ pc' = CONTINUE_AGAIN
          /\ \/ /\ ~ regs.t6 < regs.t7
                /\ regs' = [regs EXCEPT !.t6 = regs.t7, !.t7 = regs.t6, !.t9 = regs.t9 + 1]
             \/ regs.t6 < regs.t7 /\ regs' = regs
      BY <2>2 DEF CompareLastPair, Exchanged
    <3>2. regs.t9 \in {0, 1} /\ (regs.t9 = 0 => regs.t5 <= regs.t6)
      BY <1>2, <3>1 DEF Place1
    <3>3. CASE /\ ~ regs.t6 < regs.t7
               /\ regs' = [regs EXCEPT !.t6 = regs.t7, !.t7 = regs.t6, !.t9 = regs.t9 + 1]
      <4>1. /\ regs' \in Registers1 /\ regs'.t9 # 0 /\ regs'.t5 = regs.t5 /\ regs'.t6 = regs.t7
            /\ regs'.t7 = regs.t6
            /\ regs'.t2 = regs.t2 /\ regs'.t3 = regs.t3 /\ regs'.t4 = regs.t4
        <5>1. regs.t9 + 1 \in Int /\ regs.t9 + 1 # 0
          BY <3>2, SMT
        <5>2. PICK n \in Int : n = regs.t9 + 1 /\ n # 0
          BY <5>1
        <5>3. PICK u \in Int, v \in Int : u = regs.t7 /\ v = regs.t6
          BY <1>4
        <5>4. regs' = [regs EXCEPT !.t6 = u, !.t7 = v, !.t9 = n]
          BY <3>3, <5>2, <5>3
        <5>5. /\ regs' \in Registers1 /\ regs'.t5 = regs.t5 /\ regs'.t6 = u /\ regs'.t7 = v
              /\ regs'.t9 = n /\ regs'.t2 = regs.t2 /\ regs'.t3 = regs.t3 /\ regs'.t4 = regs.t4
          BY <1>2, <5>4 DEF Registers1
        <5> QED
          BY <5>2, <5>3, <5>5
      <4> QED
        BY <1>2, <1>3, <1>5, <3>1, <4>1 DEF FlagsKept
    <3>4. CASE regs.t6 < regs.t7 /\ regs' = regs
      BY <1>2, <1>3, <1>4, <3>1, <3>2, <3>4 DEF FlagsKept
    <3> QED
      BY <3>1, <3>3, <3>4
  <2>3. CASE SortAgain
    BY <1>2, <1>3, <2>3 DEF SortAgain, FlagsKept
  <2> QED
    BY <2>1, <2>2, <2>3
<1>7. Types1'
  BY <1>0, <1>1, <1>2, <1>6 DEF Types1
<1>8. before'.memory = m /\ memory' = m /\ console' = << >>
  BY <1>0, <1>1, <1>3
<1>9. Frame1'
  BY <1>1, <1>2 DEF Frame1, Caller, Line
<1>10. Place1(m)'
  BY <1>3, <1>6, <1>8, <1>9, Labels1 DEF Place1
<1> QED
  BY <1>7, <1>8, <1>10 DEF TaskInv1

LEMMA ThreePrinted ==
  ASSUME TaskInv1, SortFinished
  PROVE  TaskInv1'
<1>0. PICK m : m = before.memory
  OBVIOUS
<1>1. /\ pc = CONTINUE_AGAIN /\ regs.t9 = 0 /\ pc' = JUMP_SORT
      /\ console' = console \o <<regs.t5, regs.t6, regs.t7>>
      /\ before' = before /\ memory' = memory /\ regs' = regs /\ stack' = stack
  BY DEF SortFinished
<1>2. /\ regs \in Registers1 /\ m \in Data1 /\ before.regs.fp \in Int /\ console \in Seq(Int)
      /\ Place1(m) /\ Frame1 /\ FlagsKept(m)
  BY <1>0, <1>1, InTasks1, Labels1
<1>3. /\ memory = m /\ console = << >> /\ m.sort = 1
      /\ Rearranged(ThreeOf(m), regs.t5, regs.t6, regs.t7)
      /\ regs.t5 <= regs.t6 /\ regs.t6 <= regs.t7
  BY <1>1, <1>2 DEF Place1
<1>4. ThreeOf(m) \in [1 .. 3 -> Int]
  BY <1>2 DEF Data1, ThreeOf
<1>5. <<regs.t5, regs.t6, regs.t7>> \in Seq(Int)
  BY <1>2 DEF Registers1
<1>6. console' = <<regs.t5, regs.t6, regs.t7>>
  BY <1>1, <1>3, <1>5, ConcatEmptySeq
<1>7. InOrder(ThreeOf(m)) = <<regs.t5, regs.t6, regs.t7>>
  BY <1>3, <1>4, OneOrder
<1>8. console' = SortPrinted(m)
  BY <1>3, <1>6, <1>7 DEF SortPrinted
<1>9. Types1'
  BY <1>0, <1>1, <1>2, <1>5, <1>6 DEF Types1
<1>10. Frame1' /\ FlagsKept(m)'
  BY <1>1, <1>2 DEF Frame1, FlagsKept, Caller, Line
<1>11. before'.memory = m /\ memory' = m
  BY <1>0, <1>1, <1>3
<1>12. Place1(m)'
  <2>1. pc' = JUMP_SORT
    BY <1>1
  <2> QED
    BY <1>8, <1>10, <1>11, <2>1, Labels1 DEF Place1
<1> QED
  BY <1>9, <1>11, <1>12 DEF TaskInv1

LEMMA DataOfTasks1 ==
  ASSUME NEW m \in Data1
  PROVE  /\ m.alpha \in Int /\ m.bravo \in Int /\ m.charlie \in Int /\ m.delta \in Int
         /\ FourOf(m) \in Seq(Int) /\ LESS \in Int /\ MORE \in Int
         /\ FourOf(m) = <<SwapWritten(m).alpha, SwapWritten(m).bravo, SwapWritten(m).charlie,
                          SwapWritten(m).delta>>
<1>1. m.alpha \in Int /\ m.bravo \in Int /\ m.charlie \in Int /\ m.delta \in Int
  BY DEF Data1
<1>2. LESS \in Int /\ MORE \in Int
  BY DEF LESS, MORE
<1>3. FourOf(m) = IF m.swap = 1 THEN <<m.bravo, m.alpha, m.delta, m.charlie>>
                  ELSE <<m.alpha, m.bravo, m.charlie, m.delta>>
  <2>1. PICK a \in Int, b \in Int, c \in Int, d \in Int :
          a = m.alpha /\ b = m.bravo /\ c = m.charlie /\ d = m.delta
    BY <1>1
  <2>2. <<a, b, c>> \in Seq(Int) /\ d \in Int
    OBVIOUS
  <2>3. <<a, b, c>> \o <<d>> = Append(<<a, b, c>>, d)
    BY <2>2, AppendIsConcat
  <2>4. Append(<<a, b, c>>, d) = <<a, b, c, d>>
    <3>1. PICK s, t : s = Append(<<a, b, c>>, d) /\ t = <<a, b, c, d>>
      OBVIOUS
    <3>2. s \in Seq(Int) /\ Len(s) = 4 /\ s[1] = a /\ s[2] = b /\ s[3] = c /\ s[4] = d
      BY <2>2, <3>1, AppendProperties
    <3>3. t \in Seq(Int) /\ Len(t) = 4 /\ t[1] = a /\ t[2] = b /\ t[3] = c /\ t[4] = d
      BY <3>1
    <3>4. \A i \in 1 .. 4 : s[i] = t[i]
      BY <3>2, <3>3, SMT
    <3> QED
      BY <3>1, <3>2, <3>3, <3>4, SeqEqual
  <2> QED
    BY <2>1, <2>3, <2>4 DEF FourOf, ThreeOf
<1>4. CASE m.swap = 1
  <2>1. SwapWritten(m) = [m EXCEPT !.alpha = m.bravo, !.bravo = m.alpha,
                                   !.charlie = m.delta, !.delta = m.charlie]
    BY <1>4 DEF SwapWritten
  <2>2. /\ SwapWritten(m).alpha = m.bravo /\ SwapWritten(m).bravo = m.alpha
        /\ SwapWritten(m).charlie = m.delta /\ SwapWritten(m).delta = m.charlie
    BY <2>1 DEF Data1
  <2> QED
    BY <1>1, <1>2, <1>3, <1>4, <2>2
<1>5. CASE m.swap # 1
  BY <1>1, <1>2, <1>3, <1>5 DEF SwapWritten
<1> QED
  BY <1>4, <1>5

LEMMA ComparisonPrinted ==
  ASSUME TaskInv1, CompareValues
  PROVE  TaskInv1'
<1>0. PICK m : m = before.memory
  OBVIOUS
<1>1. /\ pc = JUMP_SORT /\ pc' = JUMP_COMPARE
      /\ console' = IF regs.t2 # 1 THEN console
                    ELSE Append(console, IF memory.charlie < memory.bravo THEN MORE ELSE LESS)
      /\ before' = before /\ memory' = memory /\ regs' = regs /\ stack' = stack
  BY DEF CompareValues
<1>2. /\ regs \in Registers1 /\ m \in Data1 /\ before.regs.fp \in Int /\ console \in Seq(Int)
      /\ Place1(m) /\ Frame1 /\ FlagsKept(m)
  BY <1>0, <1>1, InTasks1, Labels1
<1>3. memory = m /\ console = SortPrinted(m) /\ regs.t2 = m.compare
  BY <1>1, <1>2, Labels1 DEF Place1, FlagsKept
<1>4. console' = ComparePrinted(m) /\ console' \in Seq(Int)
  <2>1. CASE regs.t2 = 1
    <3>1. PICK word \in Int : word = IF m.charlie < m.bravo THEN MORE ELSE LESS
      BY <1>2, DataOfTasks1
    <3>2. console' = Append(console, word)
      BY <1>1, <1>3, <2>1, <3>1
    <3>3. console' = console \o <<word>> /\ console' \in Seq(Int)
      BY <1>2, <3>1, <3>2, AppendIsConcat, AppendProperties
    <3> QED
      BY <1>3, <2>1, <3>1, <3>3 DEF ComparePrinted
  <2>2. CASE regs.t2 # 1
    BY <1>1, <1>2, <1>3, <2>2, ConcatEmptySeq DEF ComparePrinted
  <2> QED
    BY <2>1, <2>2
<1>5. Types1'
  BY <1>0, <1>1, <1>2, <1>4 DEF Types1
<1>6. Frame1' /\ FlagsKept(m)'
  BY <1>1, <1>2 DEF Frame1, FlagsKept, Caller, Line
<1>7. before'.memory = m /\ memory' = m
  BY <1>0, <1>1, <1>3
<1>8. Place1(m)'
  BY <1>1, <1>4, <1>6, <1>7, Labels1 DEF Place1
<1> QED
  BY <1>5, <1>7, <1>8 DEF TaskInv1

LEMMA WordsSwapped ==
  ASSUME TaskInv1, SwapValues
  PROVE  TaskInv1'
<1>0. PICK m : m = before.memory
  OBVIOUS
<1>1. /\ pc = JUMP_COMPARE /\ pc' = JUMP_SWAP
      /\ memory' = IF regs.t3 # 1 THEN memory
                   ELSE [memory EXCEPT !.alpha = memory.bravo, !.bravo = memory.alpha,
                                       !.charlie = memory.delta, !.delta = memory.charlie]
      /\ before' = before /\ console' = console /\ regs' = regs /\ stack' = stack
  BY DEF SwapValues
<1>2. /\ regs \in Registers1 /\ m \in Data1 /\ before.regs.fp \in Int /\ console \in Seq(Int)
      /\ Place1(m) /\ Frame1 /\ FlagsKept(m)
  BY <1>0, <1>1, InTasks1, Labels1
<1>3. memory = m /\ console = ComparePrinted(m) /\ regs.t3 = m.swap
  BY <1>1, <1>2, Labels1 DEF Place1, FlagsKept
<1>4. memory' = SwapWritten(m) /\ console' = ComparePrinted(m)
  BY <1>1, <1>3 DEF SwapWritten
<1>5. Types1'
  BY <1>0, <1>1, <1>2 DEF Types1
<1>6. Frame1' /\ FlagsKept(m)'
  BY <1>1, <1>2 DEF Frame1, FlagsKept, Caller, Line
<1>7. before'.memory = m
  BY <1>0, <1>1
<1>8. Place1(m)'
  BY <1>1, <1>4, <1>6, Labels1 DEF Place1
<1> QED
  BY <1>5, <1>7, <1>8 DEF TaskInv1

LEMMA FourPrinted ==
  ASSUME TaskInv1, PrintValues
  PROVE  TaskInv1'
<1>0. PICK m : m = before.memory
  OBVIOUS
<1>1. /\ pc = JUMP_SWAP /\ pc' = JUMP_PRINT
      /\ console' = IF regs.t4 # 1 THEN console
                    ELSE console \o <<memory.alpha, memory.bravo, memory.charlie, memory.delta>>
      /\ before' = before /\ memory' = memory /\ regs' = regs /\ stack' = stack
  BY DEF PrintValues
<1>2. /\ regs \in Registers1 /\ m \in Data1 /\ before.regs.fp \in Int /\ console \in Seq(Int)
      /\ Place1(m) /\ Frame1 /\ FlagsKept(m)
  BY <1>0, <1>1, InTasks1, Labels1
<1>3. memory = SwapWritten(m) /\ console = ComparePrinted(m) /\ regs.t4 = m.print
  BY <1>1, <1>2, Labels1 DEF Place1, FlagsKept
<1>4. console' = AllPrinted(m) /\ console' \in Seq(Int)
  <2>1. CASE regs.t4 = 1
    <3>1. console' = console \o FourOf(m)
      BY <1>1, <1>2, <1>3, <2>1, DataOfTasks1
    <3>2. console' \in Seq(Int)
      BY <1>2, <3>1, DataOfTasks1, ConcatProperties
    <3> QED
      BY <1>3, <2>1, <3>1, <3>2 DEF AllPrinted
  <2>2. CASE regs.t4 # 1
    BY <1>1, <1>2, <1>3, <2>2, ConcatEmptySeq DEF AllPrinted
  <2> QED
    BY <2>1, <2>2
<1>5. Types1'
  BY <1>0, <1>1, <1>2, <1>4 DEF Types1
<1>6. Frame1' /\ FlagsKept(m)'
  BY <1>1, <1>2 DEF Frame1, FlagsKept, Caller, Line
<1>7. before'.memory = m /\ memory' = SwapWritten(m)
  BY <1>0, <1>1, <1>3
<1>8. pc' = JUMP_PRINT /\ console' = AllPrinted(m)
  BY <1>1, <1>4
<1>9. Place1(m)'
  BY <1>6, <1>7, <1>8, Labels1 DEF Place1
<1> QED
  BY <1>5, <1>7, <1>9 DEF TaskInv1

LEMMA StudentMainEnds ==
  ASSUME TaskInv1, StudentMainReturns
  PROVE  TaskInv1'
<1>0. PICK m : m = before.memory
  OBVIOUS
<1>1. /\ pc = JUMP_PRINT /\ pc' = regs'.ra
      /\ regs' = [regs EXCEPT !.ra = AtSP(4), !.fp = AtSP(0)] /\ stack' = Popped(24)
      /\ before' = before /\ memory' = memory /\ console' = console
  BY DEF StudentMainReturns, JrRa
<1>2. /\ regs \in Registers1 /\ m \in Data1 /\ before.regs.fp \in Int /\ console \in Seq(Int)
      /\ Place1(m) /\ Frame1 /\ FlagsKept(m)
  BY <1>0, <1>1, InTasks1, Labels1
<1>3. memory = SwapWritten(m) /\ console = AllPrinted(m)
  BY <1>1, <1>2, Labels1 DEF Place1
<1>4. /\ stack[1] = before.regs.fp /\ stack[2] = Caller(1) /\ Len(stack) = 6
  BY <1>2 DEF Frame1
<1>5. stack' = << >>
  <2>1. Popped(24) = SubSeq(stack, 6 + 1, Len(stack)) /\ 6 \in Nat
    BY SMT DEF Popped
  <2> QED
    BY <1>1, <1>4, <2>1, RemovedAll
<1>6. /\ regs' \in Registers1 /\ regs'.ra = Caller(1) /\ regs'.fp = before.regs.fp
  <2>1. PICK u \in Int, v \in Int : u = Caller(1) /\ v = before.regs.fp
    <3>1. Caller(1) \in Int
      BY Labels1
    <3>2. before.regs.fp \in Int
      BY <1>2
    <3> QED
      BY <3>1, <3>2
  <2>2. regs' = [regs EXCEPT !.ra = u, !.fp = v]
    BY <1>1, <1>4, <2>1, Offsets
  <2>3. regs' \in Registers1 /\ regs'.ra = u /\ regs'.fp = v
    BY <1>2, <2>2 DEF Registers1
  <2> QED
    BY <2>1, <2>3
<1>7. Types1'
  BY <1>0, <1>1, <1>2, <1>6 DEF Types1
<1>8. before'.memory = m /\ pc' = Caller(1) /\ memory' = SwapWritten(m) /\ console' = AllPrinted(m)
      /\ regs'.fp = before'.regs.fp
  BY <1>0, <1>1, <1>3, <1>6
<1>9. Place1(m)'
  BY <1>5, <1>8, Labels1 DEF Place1
<1> QED
  BY <1>7, <1>8, <1>9 DEF TaskInv1

LEMMA TasksStep1 ==
  ASSUME TaskInv1, [CodeAsm1]_call
  PROVE  TaskInv1'
<1>1. CASE UNCHANGED call
  <2>1. /\ pc' = pc /\ regs' = regs /\ stack' = stack /\ before' = before
        /\ memory' = memory /\ console' = console
    BY <1>1 DEF call, machine
  <2>2. PICK m : m = before.memory /\ Place1(m)
    BY DEF TaskInv1
  <2>3. Frame1' = Frame1 /\ FlagsKept(m)' = FlagsKept(m)
    BY <2>1 DEF Frame1, FlagsKept, Caller, Line
  <2>4. Place1(m)'
    BY <2>1, <2>2, <2>3 DEF Place1
  <2> QED
    BY <2>1, <2>2, <2>4 DEF TaskInv1, Types1
<1>2. CASE CodeAsm1
  BY <1>2, StudentMainStarts, SortingStep, ThreePrinted, ComparisonPrinted, WordsSwapped,
     FourPrinted, StudentMainEnds DEF CodeAsm1
<1> QED
  BY <1>1, <1>2

\* studentMain of asm1.s prints, for any three numbers and any selection of the
\* tasks, the numbers in order, how the second and the third compare, and the
\* four after the exchange; no task sees what another has done to the registers.
THEOREM TasksAreIndependent == SpecAsm1 => []TasksIndependent
<1>1. InitAsm1 => TaskInv1
  BY InitialTasks1
<1>2. TaskInv1 /\ [CodeAsm1]_call => TaskInv1'
  BY TasksStep1
<1>3. TaskInv1 => TasksIndependent
  <2> SUFFICES ASSUME TaskInv1, pc = Caller(1)
               PROVE  TasksIndependent
    BY DEF TasksIndependent
  <2> DEFINE m == before.memory
  <2>2. /\ m \in Data1 /\ stack = << >> /\ regs.fp = before.regs.fp
        /\ memory = SwapWritten(m) /\ console = AllPrinted(m)
    BY DEF TaskInv1, Types1, Place1
  <2>3. GivenBack({"fp"})
    BY <2>2 DEF GivenBack
  <2>4. FourOf(m) = <<memory.alpha, memory.bravo, memory.charlie, memory.delta>>
    BY <2>2, DataOfTasks1
  <2>5. console = (IF m.sort = 1 THEN InOrder(<<m.alpha, m.bravo, m.charlie>>) ELSE << >>)
                  \o (IF m.compare = 1 THEN <<IF m.charlie < m.bravo THEN MORE ELSE LESS>>
                                      ELSE << >>)
                  \o (IF m.print = 1 THEN FourOf(m) ELSE << >>)
    BY <2>2, Zenon DEF AllPrinted, ComparePrinted, SortPrinted, ThreeOf
  <2>6. FourOf(m) = IF m.swap = 1 THEN <<m.bravo, m.alpha, m.delta, m.charlie>>
                    ELSE <<m.alpha, m.bravo, m.charlie>> \o <<m.delta>>
    BY Zenon DEF FourOf, ThreeOf
  <2> DEFINE three == <<m.alpha, m.bravo, m.charlie>>
             orders == {p \in [1 .. 3 -> 1 .. 3] : \A k, l \in 1 .. 3 : p[k] = p[l] => k = l}
             sorted == CHOOSE s \in {[k \in 1 .. 3 |-> three[p[k]]] : p \in orders} :
                         s[1] <= s[2] /\ s[2] <= s[3]
             four == IF m.swap = 1 THEN <<m.bravo, m.alpha, m.delta, m.charlie>>
                                   ELSE three \o <<m.delta>>
             printed(flag, numbers) == IF flag = 1 THEN numbers ELSE << >>
  <2>7. FourOf(m) = four /\ InOrder(three) = sorted
    BY <2>6, Zenon DEF InOrder, Orders
  <2>8. console = printed(m.sort, sorted)
                  \o printed(m.compare, <<IF m.charlie < m.bravo THEN MORE ELSE LESS>>)
                  \o printed(m.print, four)
    <3> HIDE DEF sorted, four
    <3> QED
      BY <2>5, <2>7, Zenon
  <2>9. four = <<memory.alpha, memory.bravo, memory.charlie, memory.delta>>
    <3> HIDE DEF four
    <3> QED
      BY <2>4, <2>7
  <2> QED
    BY <2>3, <2>8, <2>9, Zenon DEF TasksIndependent
<1> QED
  BY <1>1, <1>2, <1>3, PTL DEF SpecAsm1

-----------------------------------------------------------------------------
(* asm2.s: five tasks with loops *)

\* asm2.s alone.
SpecAsm2 == InitAsm2 /\ [][CodeAsm2]_call

LEMMA Labels2 ==
  /\ studentMain2 = 2021 /\ LOOP = 2064 /\ AFTER_FIB = 2111 /\ LOOPTWO = 2146
  /\ LOOP_SQUARE = 2216 /\ AFTER_COMPARE = 2231 /\ AFTER_SQUARE = 2250
  /\ LOOP_RUNCHECK = 2301 /\ EXIT_LOOP_RUNCHECK = 2335 /\ AFTER_RUN_CHECK = 2394
  /\ LOOP_COUNTWORDS = 2426 /\ AFTER_COUNT_WORDS = 2472 /\ LOOP_FIND_TAIL = 2511
  /\ LOOP_SWAP_CHARS = 2524 /\ AFTER_REVSTRING = 2553 /\ Trapped = 2999 /\ Caller(2) = 2000
BY SMT DEF studentMain2, LOOP, AFTER_FIB, LOOPTWO, LOOP_SQUARE, AFTER_COMPARE, AFTER_SQUARE,
     LOOP_RUNCHECK, EXIT_LOOP_RUNCHECK, AFTER_RUN_CHECK, LOOP_COUNTWORDS, AFTER_COUNT_WORDS,
     LOOP_FIND_TAIL, LOOP_SWAP_CHARS, AFTER_REVSTRING, Trapped, Caller, Line

-----------------------------------------------------------------------------
(* Words printed after others. *)

LEMMA Associated ==
  ASSUME NEW a \in Seq(Int), NEW b \in Seq(Int), NEW c \in Seq(Int)
  PROVE  (a \o b) \o c = a \o (b \o c)
BY ConcatAssociative

LEMMA FirstsOfTable ==
  ASSUME NEW N \in Nat, NEW table \in [1 .. N -> Int], NEW n \in 0 .. N
  PROVE  /\ FirstOf(table, n) \in Seq(Int) /\ Len(FirstOf(table, n)) = n
         /\ \A k \in 1 .. n : FirstOf(table, n)[k] = table[k]
<1> DEFINE s == FirstOf(table, n)
<1>1. n \in Nat /\ \A k \in 1 .. n : k \in 1 .. N
  BY SMT
<1>2. s \in [1 .. n -> Int] /\ \A k \in 1 .. n : s[k] = table[k]
  BY <1>1 DEF FirstOf
<1> HIDE DEF s
<1>3. s \in Seq(Int) /\ Len(s) = n
  BY <1>1, <1>2, SeqDef, LenProperties, SMT
<1> QED
  BY <1>2, <1>3 DEF s

\* The next words of a table are printed.
LEMMA WordsPrinted ==
  ASSUME NEW base \in Seq(Int), NEW N \in Nat, NEW table \in [1 .. N -> Int], NEW n \in 0 .. N,
         NEW words \in Seq(Int), n + Len(words) <= N,
         \A j \in 1 .. Len(words) : words[j] = table[n + j]
  PROVE  /\ (base \o FirstOf(table, n)) \o words = base \o FirstOf(table, n + Len(words))
         /\ n + Len(words) \in 0 .. N
<1> DEFINE s == FirstOf(table, n)
           t == FirstOf(table, n + Len(words))
<1>1. Len(words) \in Nat /\ n + Len(words) \in 0 .. N /\ n \in Nat
  BY LenProperties, SMT
<1>2. /\ s \in Seq(Int) /\ Len(s) = n /\ \A k \in 1 .. n : s[k] = table[k]
      /\ t \in Seq(Int) /\ Len(t) = n + Len(words)
      /\ \A k \in 1 .. n + Len(words) : t[k] = table[k]
  BY <1>1, FirstsOfTable
<1> HIDE DEF s, t
<1>3. \A k \in 1 .. Len(s) : t[k] = s[k]
  BY <1>1, <1>2, SMT
<1>4. \A k \in 1 .. Len(words) : t[Len(s) + k] = words[k]
  <2> TAKE k \in 1 .. Len(words)
  <2>1. n + k \in 1 .. n + Len(words)
    BY <1>1, SMT
  <2> QED
    BY <1>2, <2>1
<1>5. s \o words = t
  BY <1>2, <1>3, <1>4, Joined
<1>6. (base \o s) \o words = base \o (s \o words)
  <2>1. s \in Seq(Int)
    BY <1>2
  <2> QED
    BY <2>1, Associated, Zenon
<1> QED
  BY <1>1, <1>5, <1>6 DEF s, t

LEMMA WordAppended ==
  ASSUME NEW s \in Seq(Int), NEW x \in Int
  PROVE  Append(s, x) = s \o <<x>> /\ <<x>> \in Seq(Int) /\ Len(<<x>>) = 1
<1>1. Append(s, x) = s \o <<x>>
  BY AppendIsConcat
<1>2. <<x>> \in Seq(Int) /\ Len(<<x>>) = 1
  BY SMT
<1> QED
  BY <1>1, <1>2

-----------------------------------------------------------------------------
(* The Fibonacci numbers. *)

\* The recursion has a solution: each number and the next one.
LEMMA FibonacciNumbers ==
  ASSUME NEW n \in Nat
  PROVE  /\ Fibonacci(n) \in [0 .. n -> Nat]
         /\ \A k \in 0 .. n : Fibonacci(n)[k] = IF k < 2 THEN 1 ELSE Fibonacci(n)[k - 1] + Fibonacci(n)[k - 2]
<1> DEFINE Body(f) == [k \in 0 .. n |-> IF k < 2 THEN 1 ELSE f[k - 1] + f[k - 2]]
           F == CHOOSE f : f = Body(f)
           g == [i \in Nat |-> [p \in Nat \X Nat |-> <<p[2], p[1] + p[2]>>]]
<1>1. g \in [Nat -> [Nat \X Nat -> Nat \X Nat]] /\ <<1, 1>> \in Nat \X Nat
  BY SMT
<1>2. \A i \in Nat, p \in Nat \X Nat : g[i][p] = <<p[2], p[1] + p[2]>>
  OBVIOUS
<1> HIDE DEF g
<1>3. PICK pairs : SolvesRecursion(pairs, Nat \X Nat, <<1, 1>>, g)
  BY <1>1, RecursiveFunction
<1> DEFINE f == [k \in 0 .. n |-> pairs[k][1]]
<1>4. /\ pairs \in [Nat -> Nat \X Nat] /\ pairs[0] = <<1, 1>>
      /\ \A i \in Nat : pairs[i + 1] = <<pairs[i][2], pairs[i][1] + pairs[i][2]>>
  <2>1. /\ pairs \in [Nat -> Nat \X Nat] /\ pairs[0] = <<1, 1>>
        /\ \A i \in Nat : pairs[i + 1] = g[i][pairs[i]]
    BY <1>3, Zenon DEF SolvesRecursion
  <2>2. ASSUME NEW i \in Nat
        PROVE  pairs[i + 1] = <<pairs[i][2], pairs[i][1] + pairs[i][2]>>
    <3>1. pairs[i] \in Nat \X Nat
      BY <2>1, Zenon
    <3> QED
      BY <1>2, <2>1, <3>1, Zenon
  <2> QED
    BY <2>1, <2>2
<1>5. f \in [0 .. n -> Nat]
  <2>1. \A k \in 0 .. n : k \in Nat
    BY SMT
  <2> QED
    BY <1>4, <2>1
<1>6. ASSUME NEW k \in 0 .. n
      PROVE  f[k] = IF k < 2 THEN 1 ELSE f[k - 1] + f[k - 2]
  <2>1. CASE k = 0
    BY <1>4, <2>1, SMT
  <2>2. CASE k = 1
    <3>1. pairs[0 + 1] = <<pairs[0][2], pairs[0][1] + pairs[0][2]>> /\ 0 + 1 = 1
      BY <1>4
    <3> QED
      BY <1>4, <2>2, <3>1, SMT
  <2>3. CASE k # 0 /\ k # 1
    <3>1. /\ k - 2 \in Nat /\ k - 1 \in Nat /\ (k - 2) + 1 = k - 1 /\ (k - 1) + 1 = k /\ ~ k < 2
          /\ k - 1 \in 0 .. n /\ k - 2 \in 0 .. n
      BY <2>3, SMT
    <3>2. /\ pairs[k - 1] = <<pairs[k - 2][2], pairs[k - 2][1] + pairs[k - 2][2]>>
          /\ pairs[k] = <<pairs[k - 1][2], pairs[k - 1][1] + pairs[k - 1][2]>>
      BY <1>4, <3>1, Zenon
    <3>3. pairs[k][1] = pairs[k - 2][1] + pairs[k - 2][2] /\ pairs[k - 1][1] = pairs[k - 2][2]
      BY <3>2
    <3>4. pairs[k - 2][1] \in Nat /\ pairs[k - 2][2] \in Nat
      BY <1>4, <3>1
    <3>5. pairs[k][1] = pairs[k - 1][1] + pairs[k - 2][1]
      BY <3>3, <3>4, SMT
    <3> QED
      BY <3>1, <3>5
  <2> QED
    BY <2>1, <2>2, <2>3
<1>7. f = Body(f)
  <2> HIDE DEF f
  <2>1. f = [k \in 0 .. n |-> f[k]]
    BY <1>5
  <2> QED
    BY <1>6, <2>1, Zenon
<1> HIDE DEF f
<1>8. F = Body(F)
  <2> HIDE DEF Body
  <2> QED
    BY <1>7
<1>9. Fibonacci(n) = F
  BY DEF Fibonacci
<1> HIDE DEF F
<1>10. \A k \in 0 .. n : F[k] = IF k < 2 THEN 1 ELSE F[k - 1] + F[k - 2]
  BY <1>8, Zenon
<1> DEFINE P == {k \in Nat : k + 1 <= n => F[k] \in Nat /\ F[k + 1] \in Nat}
<1>11. Nat \subseteq P
  <2>1. 0 \in P
    <3>1. 0 + 1 <= n => 0 \in 0 .. n /\ 0 + 1 \in 0 .. n /\ 0 < 2 /\ 0 + 1 < 2
      BY SMT
    <3> QED
      BY <1>10, <3>1, SMT
  <2>2. ASSUME NEW k \in Nat, k \in P PROVE k + 1 \in P
    <3>1. ASSUME (k + 1) + 1 <= n PROVE F[(k + 1) + 1] \in Nat /\ F[k + 1] \in Nat
      <4>1. /\ k + 1 <= n /\ (k + 1) + 1 \in 0 .. n /\ ~ (k + 1) + 1 < 2
            /\ ((k + 1) + 1) - 1 = k + 1 /\ ((k + 1) + 1) - 2 = k
        BY <3>1, SMT
      <4>2. F[k] \in Nat /\ F[k + 1] \in Nat
        BY <2>2, <4>1
      <4>3. F[(k + 1) + 1] = F[k + 1] + F[k]
        BY <1>10, <4>1
      <4> QED
        BY <4>2, <4>3, SMT
    <3> QED
      BY <3>1
  <2> HIDE DEF P
  <2> QED
    BY <2>1, <2>2, SetInduction
<1>12. \A k \in 0 .. n : F[k] \in Nat
  <2> TAKE k \in 0 .. n
  <2>1. CASE k < n
    <3>1. k \in Nat /\ k + 1 <= n
      BY <2>1, SMT
    <3> QED
      BY <1>11, <3>1
  <2>2. CASE k = n /\ n = 0
    <3>1. F[k] = 1
      BY <1>10, <2>2, SMT
    <3> QED
      BY <3>1
  <2>3. CASE k = n /\ n # 0
    <3>1. n - 1 \in Nat /\ (n - 1) + 1 = n /\ (n - 1) + 1 <= n
      BY <2>3, SMT
    <3>2. n - 1 \in P
      BY <1>11, <3>1
    <3> QED
      BY <2>3, <3>1, <3>2
  <2> QED
    BY <2>1, <2>2, <2>3, SMT
<1>13. F \in [0 .. n -> Nat]
  <2>1. F = [k \in 0 .. n |-> F[k]]
    BY <1>8, Zenon
  <2> QED
    BY <1>12, <2>1
<1> QED
  BY <1>9, <1>10, <1>13

\* They do not decrease.
LEMMA FibonacciGrows ==
  ASSUME NEW n \in Nat, NEW j \in 0 .. n
  PROVE  Fibonacci(n)[j] <= Fibonacci(n)[n]
<1> DEFINE F == Fibonacci(n)
           P == {k \in Nat : j + k <= n => F[j] <= F[j + k]}
<1>1. /\ F \in [0 .. n -> Nat]
      /\ \A k \in 0 .. n : F[k] = IF k < 2 THEN 1 ELSE F[k - 1] + F[k - 2]
  BY FibonacciNumbers
<1> HIDE DEF F
<1>2. 0 \in P
  BY <1>1, SMT
<1>3. ASSUME NEW k \in Nat, k \in P PROVE k + 1 \in P
  <2>1. ASSUME j + (k + 1) <= n PROVE F[j] <= F[j + (k + 1)]
    <3>1. /\ j + k <= n /\ j + (k + 1) \in 0 .. n /\ j + k \in 0 .. n
          /\ (j + (k + 1)) - 1 = j + k
      BY <2>1, SMT
    <3>2. F[j] <= F[j + k] /\ F[j] \in Nat /\ F[j + k] \in Nat
      BY <1>1, <1>3, <3>1
    <3>3. CASE j + (k + 1) < 2
      <4>1. F[j + (k + 1)] = 1 /\ F[j + k] = 1
        BY <1>1, <3>1, <3>3, SMT
      <4> QED
        BY <3>2, <4>1, SMT
    <3>4. CASE ~ j + (k + 1) < 2
      <4>1. (j + (k + 1)) - 2 \in 0 .. n
        BY <3>1, <3>4, SMT
      <4>2. F[(j + (k + 1)) - 2] \in Nat
        BY <1>1, <4>1
      <4>3. F[j + (k + 1)] = F[j + k] + F[(j + (k + 1)) - 2]
        BY <1>1, <3>1, <3>4
      <4> QED
        BY <3>2, <4>2, <4>3, SMT
    <3> QED
      BY <3>3, <3>4
  <2> QED
    BY <2>1
<1> HIDE DEF P
<1>4. Nat \subseteq P
  BY <1>2, <1>3, SetInduction
<1>5. n - j \in Nat /\ j + (n - j) = n /\ j + (n - j) <= n
  BY SMT
<1> QED
  BY <1>4, <1>5 DEF P, F

\* What is printed of them, a number and its value at a time.
LastFibonacci(m) == AtLeast(m.fib, 1)
FibonacciTable(m) ==
  [k \in 1 .. 2 * (LastFibonacci(m) + 1) |->
     IF k % 2 = 1 THEN (k - 1) \div 2 ELSE Fibonacci(LastFibonacci(m))[(k - 2) \div 2]]

LEMMA FibonacciPrinted ==
  ASSUME NEW m, m.fib \in Int
  PROVE  /\ LastFibonacci(m) \in Nat \ {0} /\ 2 * (LastFibonacci(m) + 1) \in Nat
         /\ FibonacciTable(m) \in [1 .. 2 * (LastFibonacci(m) + 1) -> Int]
         /\ \A i \in 0 .. LastFibonacci(m) :
              /\ FibonacciTable(m)[2 * i + 1] = i
              /\ FibonacciTable(m)[2 * i + 2] = Fibonacci(LastFibonacci(m))[i]
<1> DEFINE n == LastFibonacci(m)
           F == Fibonacci(n)
           t == FibonacciTable(m)
<1>1. n \in Nat \ {0} /\ 2 * (n + 1) \in Nat
  BY SMT DEF LastFibonacci, AtLeast
<1>2. F \in [0 .. n -> Nat]
  BY <1>1, FibonacciNumbers
<1>3. t = [k \in 1 .. 2 * (n + 1) |-> IF k % 2 = 1 THEN (k - 1) \div 2 ELSE F[(k - 2) \div 2]]
  BY DEF FibonacciTable
<1> HIDE DEF n, F, t
<1>4. ASSUME NEW k \in 1 .. 2 * (n + 1)
      PROVE  (IF k % 2 = 1 THEN (k - 1) \div 2 ELSE F[(k - 2) \div 2]) \in Int
  <2>1. (k - 1) \div 2 \in Int
    BY <1>1, SMT
  <2>2. k % 2 # 1 => (k - 2) \div 2 \in 0 .. n
    BY <1>1, SMT
  <2> QED
    BY <1>2, <2>1, <2>2
<1>5. t \in [1 .. 2 * (n + 1) -> Int]
  BY <1>3, <1>4
<1>6. ASSUME NEW i \in 0 .. n
      PROVE  t[2 * i + 1] = i /\ t[2 * i + 2] = F[i]
  <2>1. /\ 2 * i + 1 \in 1 .. 2 * (n + 1) /\ 2 * i + 2 \in 1 .. 2 * (n + 1)
        /\ (2 * i + 1) % 2 = 1 /\ (2 * i + 2) % 2 # 1
        /\ ((2 * i + 1) - 1) \div 2 = i /\ ((2 * i + 2) - 2) \div 2 = i
    BY <1>1, SMT
  <2> QED
    BY <1>3, <2>1
<1> QED
  BY <1>1, <1>5, <1>6 DEF n, F, t

-----------------------------------------------------------------------------
(* The square. *)

SquareCharacter(m, row, column) ==
  IF row \in {1, m.size} THEN IF column \in {1, m.size} THEN 43 ELSE 45
                         ELSE IF column \in {1, m.size} THEN 124 ELSE m.fill
SquareTable(m) ==
  [k \in 1 .. AtLeast(m.size, 0) * (m.size + 1) |->
     IF k % (m.size + 1) = 0 THEN Newline
     ELSE SquareCharacter(m, ((k - 1) \div (m.size + 1)) + 1, k % (m.size + 1))]

\* How many characters are printed before column c + 1 of row r + 1.
Before(m, r, c) == r * (m.size + 1) + c

\* The places of row r of n rows of d characters.
PlacesOfRow(r, n, d) ==
  \A c \in 1 .. d : /\ r * d + c \in 1 .. n * d
                    /\ ((r * d + c) - 1) \div d = r
                    /\ (r * d + c) % d = IF c = d THEN 0 ELSE c

LEMMA PlacesInSquare ==
  ASSUME NEW d \in Nat \ {0}, NEW n \in Nat, NEW r \in Nat, r < n
  PROVE  PlacesOfRow(r, n, d)
<1> SUFFICES ASSUME NEW c \in 1 .. d
             PROVE  /\ r * d + c \in 1 .. n * d
                    /\ ((r * d + c) - 1) \div d = r
                    /\ (r * d + c) % d = IF c = d THEN 0 ELSE c
  BY Zenon DEF PlacesOfRow
<1>1. PICK e \in Nat : n = r + 1 + e
  <2>1. n - (r + 1) \in Nat /\ n = r + 1 + (n - (r + 1))
    BY SMT
  <2> QED
    BY <2>1
<1>2. n * d = r * d + d + e * d /\ r * d \in Nat /\ e * d \in Nat
  BY <1>1, SMT
<1>3. r * d + c \in 1 .. n * d
  <2> DEFINE p == r * d
             q == e * d
             s == n * d
  <2>1. s = p + d + q /\ p \in Nat /\ q \in Nat
    BY <1>2
  <2> HIDE DEF p, q, s
  <2>2. p + c \in 1 .. s
    BY <2>1, SMT
  <2> QED
    BY <2>2 DEF p, s
<1>4. (r * d + c) - 1 = d * r + (c - 1) /\ c - 1 \in 0 .. d - 1
  BY SMT
<1>5. (d * r + (c - 1)) \div d = r
  BY SMT
<1>6. CASE c = d
  <2>1. r * d + c = d * (r + 1) + 0
    BY <1>6, SMT
  <2>2. (d * (r + 1) + 0) % d = 0
    BY SMT
  <2> QED
    BY <1>3, <1>4, <1>5, <1>6, <2>1, <2>2
<1>7. CASE c # d
  <2>1. r * d + c = d * r + c /\ c \in 0 .. d - 1
    BY <1>7, SMT
  <2>2. (d * r + c) % d = c
    BY <2>1, SMT
  <2> QED
    BY <1>3, <1>4, <1>5, <1>7, <2>1, <2>2
<1> QED
  BY <1>6, <1>7

LEMMA SquarePrinted ==
  ASSUME NEW m, m.size \in Int, m.fill \in Int
  PROVE  /\ AtLeast(m.size, 0) * (m.size + 1) \in Nat
         /\ SquareTable(m) \in [1 .. AtLeast(m.size, 0) * (m.size + 1) -> Int]
         /\ \A r \in Nat : r < m.size =>
              /\ \A c \in 1 .. m.size :
                   SquareTable(m)[Before(m, r, c)] = SquareCharacter(m, r + 1, c)
              /\ SquareTable(m)[Before(m, r, m.size + 1)] = Newline
              /\ \A c \in 0 .. m.size + 1 :
                   Before(m, r, c) \in 0 .. AtLeast(m.size, 0) * (m.size + 1)
<1> DEFINE N == AtLeast(m.size, 0) * (m.size + 1)
           d == m.size + 1
           item(k) == IF k % d = 0 THEN Newline
                      ELSE SquareCharacter(m, ((k - 1) \div d) + 1, k % d)
           t == SquareTable(m)
<1>1. N \in Nat
  <2>1. CASE m.size < 0
    <3>1. N = 0 * d /\ d \in Int
      BY <2>1 DEF AtLeast
    <3> QED
      BY <3>1, SMT
  <2>2. CASE ~ m.size < 0
    <3>1. N = m.size * d /\ d \in Nat /\ m.size \in Nat
      BY <2>2, SMT DEF AtLeast
    <3> QED
      BY <3>1, SMT
  <2> QED
    BY <2>1, <2>2
<1>2. \A k \in 1 .. N : item(k) \in Int
  BY SMT DEF SquareCharacter, Newline
<1>3. t = [k \in 1 .. N |-> item(k)]
  BY DEF SquareTable
<1>4. t \in [1 .. N -> Int]
  <2> HIDE DEF N, t, item
  <2> QED
    BY <1>2, <1>3
<1>5. ASSUME NEW r \in Nat, r < m.size
      PROVE  /\ \A c \in 1 .. m.size : t[Before(m, r, c)] = SquareCharacter(m, r + 1, c)
             /\ t[Before(m, r, m.size + 1)] = Newline
             /\ \A c \in 0 .. m.size + 1 : Before(m, r, c) \in 0 .. N
  <2>1. m.size \in Nat /\ d \in Nat \ {0} /\ AtLeast(m.size, 0) = m.size /\ r < m.size
    BY <1>5, SMT DEF AtLeast
  <2>2. N = m.size * d
    BY <2>1
  <2>3. \A c \in 1 .. d : /\ r * d + c \in 1 .. m.size * d
                          /\ ((r * d + c) - 1) \div d = r
                          /\ (r * d + c) % d = IF c = d THEN 0 ELSE c
    <3> HIDE DEF d, N, t, item
    <3>1. m.size \in Nat /\ d \in Nat \ {0} /\ r < m.size
      BY <2>1
    <3>2. PlacesOfRow(r, m.size, d)
      BY <3>1, PlacesInSquare
    <3> QED
      BY <3>2, Zenon DEF PlacesOfRow
  <2>4. \A c : Before(m, r, c) = r * d + c
    BY DEF Before
  <2>5. \A c \in 1 .. m.size : c \in 1 .. d /\ c # d /\ c # 0
    BY <2>1, SMT
  <2>6. d \in 1 .. d
    BY <2>1, SMT
  <2> DEFINE place(c) == r * d + c
  <2>7. \A c \in 1 .. d : /\ place(c) \in 1 .. N /\ (place(c) - 1) \div d = r
                          /\ place(c) % d = IF c = d THEN 0 ELSE c
    BY <2>2, <2>3
  <2> HIDE DEF place, N, t
  <2>8. \A c \in 1 .. d : t[place(c)] = item(place(c))
    BY <1>3, <2>7
  <2>9. ASSUME NEW c \in 1 .. m.size PROVE t[place(c)] = SquareCharacter(m, r + 1, c)
    <3>1. c \in 1 .. d /\ place(c) % d = c /\ c # 0 /\ (place(c) - 1) \div d = r
      BY <2>5, <2>7
    <3>2. item(place(c)) = SquareCharacter(m, r + 1, c)
      BY <3>1, Zenon
    <3> QED
      BY <2>8, <3>1, <3>2
  <2>10. t[place(d)] = Newline
    <3>1. place(d) % d = 0
      BY <2>6, <2>7
    <3> QED
      BY <2>6, <2>8, <3>1
  <2>11. ASSUME NEW c \in 0 .. d PROVE place(c) \in 0 .. N
    <3>1. CASE c \in 1 .. d
      BY <1>1, <2>7, <3>1, SMT
    <3>2. CASE c \notin 1 .. d
      <4>1. c = 0 /\ 1 \in 1 .. d
        BY <2>1, <3>2, SMT
      <4>2. place(1) \in 1 .. N
        BY <2>7, <4>1
      <4>3. place(c) = r * d + 0 /\ place(1) = r * d + 1
        BY <4>1 DEF place
      <4>4. r * d \in Nat
        BY <2>1, SMT
      <4> HIDE DEF d
      <4> QED
        BY <1>1, <4>2, <4>3, <4>4, SMT
    <3> QED
      BY <3>1, <3>2
  <2> QED
    BY <2>4, <2>9, <2>10, <2>11 DEF place
<1> QED
  BY <1>1, <1>4, <1>5 DEF N, t

-----------------------------------------------------------------------------
(* What asm2.s has printed and written at each of its places. *)

End(m) == Cardinality(DOMAIN m.str) - 1
Data2 == {m \in [fib : Int, square : Int, size : Int, fill : Int, lr : Int, mid : Int,
                 runCheck : Int, length : Nat, items : UNION {[0 .. n - 1 -> Int] : n \in Nat},
                 countWords : Int, revString : Int,
                 str : UNION {[0 .. n -> Int] : n \in Nat}] :
            /\ m.items \in [0 .. m.length - 1 -> Int]
            /\ End(m) \in Nat /\ m.str \in [0 .. End(m) -> Int]
            /\ \A i \in 0 .. End(m) : m.str[i] = 0 <=> i = End(m)}

Ascends(m) == \A i \in 0 .. m.length - 2 : m.items[i] <= m.items[i + 1]
Descends(m) == \A i \in 0 .. m.length - 2 : m.items[i] >= m.items[i + 1]
InWord(m, i) == m.str[i] \notin {0, Space, Newline}
WordStarts(m, i) == InWord(m, i) /\ (i = 0 \/ ~ InWord(m, i - 1))
WordsBefore(m, n) == {i \in 0 .. n - 1 : WordStarts(m, i)}

FibonacciPart(m) == IF m.fib = 0 THEN << >> ELSE FibonacciTable(m)
SquarePart(m) == IF m.square = 0 THEN << >> ELSE SquareTable(m)
RunPart(m) ==
  IF m.runCheck # 1 THEN << >>
  ELSE (IF Ascends(m) THEN <<ASCENDING>> ELSE << >>)
       \o (IF Descends(m) THEN <<DESCENDING>> ELSE << >>)
       \o (IF Ascends(m) \/ Descends(m) THEN << >> ELSE <<NEITHER>>)
CountPart(m) ==
  IF m.countWords = 1
  THEN <<Cardinality({i \in DOMAIN m.str : WordStarts(m, i)})>> ELSE << >>
Squares(m) == FibonacciPart(m) \o SquarePart(m)
Runs(m) == Squares(m) \o RunPart(m)
All(m) == Runs(m) \o CountPart(m)

\* The string after k exchanges, and whether all of the Fibonacci numbers fit.
Swapped(m, k) ==
  [i \in 0 .. End(m) |-> IF i < End(m) /\ (i < k \/ End(m) - 1 - i < k)
                         THEN m.str[End(m) - 1 - i] ELSE m.str[i]]
Reversed(m) ==
  [i \in 0 .. End(m) |-> IF i <= End(m) - 1 THEN m.str[End(m) - 1 - i] ELSE 0]
Fits(m) == m.fib >= 2 => Fibonacci(LastFibonacci(m))[m.fib] <= Largest

Registers2 == [ra : Int, fp : Int, t0 : Int, t1 : Int, t2 : Int, t3 : Int, t4 : Int, t5 : Int,
               t9 : Int, s1 : Int, s3 : Int, s4 : Int]
Frame2 == stack = <<before.regs.fp, Caller(2), Junk, Junk, Junk, Junk>>
Written(m, s) == memory = [m EXCEPT !.str = s, !.lr = memory.lr, !.mid = memory.mid]

InFibonacci(m) ==
  /\ m.fib # 0 /\ regs.s1 = m.fib
  /\ \E n \in 2 .. LastFibonacci(m) + 1 :
       /\ regs.t3 = n
       /\ regs.t1 = Fibonacci(LastFibonacci(m))[n - 1]
       /\ regs.t2 = Fibonacci(LastFibonacci(m))[n - 2]
       /\ n > 2 => regs.t1 <= Largest
       /\ console = FirstOf(FibonacciTable(m), 2 * n)

Edge(m, r) == r = 0 \/ r = m.size - 1
SquareData(m) == m.square # 0 /\ regs.s3 = m.fill /\ regs.s4 = m.size
BetweenRows(m) ==
  /\ SquareData(m)
  /\ \E r \in 0 .. AtLeast(m.size, 0) :
       /\ regs.t9 = r
       /\ console = FibonacciPart(m) \o FirstOf(SquareTable(m), Before(m, r, 0))
InRow(m) ==
  /\ SquareData(m)
  /\ \E r \in 0 .. AtLeast(m.size, 0) :
       /\ regs.t9 = r /\ r < m.size
       /\ regs.t1 = IF Edge(m, r) THEN 43 ELSE 124
       /\ regs.t2 = IF Edge(m, r) THEN 45 ELSE m.fill
       /\ regs.t3 = m.size - 1 /\ regs.t5 \in 1 .. m.size - 1
       /\ console = FibonacciPart(m) \o FirstOf(SquareTable(m), Before(m, r, regs.t5))
OneCharacter(m) ==
  /\ SquareData(m) /\ m.size = 1 /\ regs.t9 = 0 /\ regs.t1 = 43
  /\ console = FibonacciPart(m) \o FirstOf(SquareTable(m), Before(m, 0, 0))

\* The pairs before item n.
PairsCompared(m, n) ==
  /\ regs.t3 \in Nat /\ regs.t4 \in Nat
  /\ regs.t3 = 0 <=> \A i \in 0 .. n - 1 : m.items[i] <= m.items[i + 1]
  /\ regs.t4 = 0 <=> \A i \in 0 .. n - 1 : m.items[i] >= m.items[i + 1]
InRunCheck(m) ==
  /\ m.runCheck = 1 /\ regs.t9 = m.length - 1 /\ regs.t1 \in 0 .. m.length - 1
  /\ PairsCompared(m, regs.t1)
AfterRunCheck(m) == m.runCheck = 1 /\ PairsCompared(m, m.length - 1)

InCount(m) ==
  /\ m.countWords = 1 /\ regs.t2 \in 0 .. End(m)
  /\ regs.t0 = Cardinality(WordsBefore(m, regs.t2))
  /\ regs.t5 = IF regs.t2 > 0 /\ InWord(m, regs.t2 - 1) THEN 1 ELSE 0

FindsTail(m) ==
  m.revString = 1 /\ regs.t1 = 0 /\ regs.t2 \in 0 .. End(m) /\ memory.str = m.str
Exchanges(m) ==
  /\ m.revString = 1
  /\ regs.t1 \in Nat /\ regs.t2 = End(m) - 1 - regs.t1 /\ regs.t1 <= regs.t2 + 1
  /\ memory.str = Swapped(m, regs.t1)

Tasks2 == {LOOP, AFTER_FIB, LOOPTWO, LOOP_SQUARE, AFTER_COMPARE, AFTER_SQUARE, LOOP_RUNCHECK,
           EXIT_LOOP_RUNCHECK, AFTER_RUN_CHECK, LOOP_COUNTWORDS, AFTER_COUNT_WORDS,
           LOOP_FIND_TAIL, LOOP_SWAP_CHARS, AFTER_REVSTRING}
LastTask == {LOOP_FIND_TAIL, LOOP_SWAP_CHARS, AFTER_REVSTRING, Caller(2)}
Place2(m) ==
  /\ pc \in Tasks2 \cup {studentMain2, Trapped, Caller(2)}
  /\ pc = studentMain2 => /\ stack = << >> /\ regs.ra = Caller(2) /\ regs.fp = before.regs.fp
                          /\ memory = m /\ console = << >>
  /\ pc \in Tasks2 => Frame2
  /\ Written(m, memory.str)
  /\ pc \in Tasks2 \ LastTask => memory.str = m.str
  /\ pc \in (Tasks2 \ {LOOP}) \cup {Caller(2)} => Fits(m)
  /\ pc = LOOP => InFibonacci(m)
  /\ pc = AFTER_FIB => console = FibonacciPart(m)
  /\ pc = LOOPTWO => BetweenRows(m)
  /\ pc = LOOP_SQUARE => InRow(m)
  /\ pc = AFTER_COMPARE => OneCharacter(m)
  /\ pc = AFTER_SQUARE => console = Squares(m)
  /\ pc = LOOP_RUNCHECK => console = Squares(m) /\ InRunCheck(m)
  /\ pc = EXIT_LOOP_RUNCHECK => console = Squares(m) /\ AfterRunCheck(m)
  /\ pc = AFTER_RUN_CHECK => console = Runs(m)
  /\ pc = LOOP_COUNTWORDS => console = Runs(m) /\ InCount(m)
  /\ pc \in {AFTER_COUNT_WORDS} \cup LastTask => console = All(m)
  /\ pc = AFTER_COUNT_WORDS => memory.str = m.str
  /\ pc = LOOP_FIND_TAIL => FindsTail(m)
  /\ pc = LOOP_SWAP_CHARS => Exchanges(m)
  /\ pc \in {AFTER_REVSTRING, Caller(2)} =>
       memory.str = IF m.revString = 1 THEN Reversed(m) ELSE m.str
  /\ pc = Caller(2) => stack = << >> /\ regs.fp = before.regs.fp
  /\ pc = Trapped => ~ Fits(m)

Types2 ==
  /\ regs \in Registers2 /\ before.regs.fp \in Int /\ before.memory \in Data2
  /\ memory.lr \in Int /\ memory.mid \in Int /\ console \in Seq(Int)
TaskInv2 == Types2 /\ Place2(before.memory)

LEMMA Fields2 ==
  ASSUME NEW r \in Registers2
  PROVE  /\ r.ra \in Int /\ r.fp \in Int /\ r.t0 \in Int /\ r.t1 \in Int /\ r.t2 \in Int
         /\ r.t3 \in Int /\ r.t4 \in Int /\ r.t5 \in Int /\ r.t9 \in Int /\ r.s1 \in Int
         /\ r.s3 \in Int /\ r.s4 \in Int
BY DEF Registers2

LEMMA DataFields2 ==
  ASSUME NEW m \in Data2
  PROVE  /\ m.fib \in Int /\ m.square \in Int /\ m.size \in Int /\ m.fill \in Int
         /\ m.runCheck \in Int /\ m.length \in Nat /\ m.countWords \in Int /\ m.revString \in Int
         /\ m.items \in [0 .. m.length - 1 -> Int]
         /\ End(m) \in Nat /\ m.str \in [0 .. End(m) -> Int]
         /\ \A i \in 0 .. End(m) : m.str[i] = 0 <=> i = End(m)
BY DEF Data2

LEMMA WholeTable ==
  ASSUME NEW N \in Nat, NEW table \in [1 .. N -> Int]
  PROVE  FirstOf(table, N) = table /\ table \in Seq(Int) /\ FirstOf(table, 0) = << >>
<1>1. FirstOf(table, N) = table
  BY DEF FirstOf
<1>2. N \in 0 .. N
  BY SMT
<1>3. FirstOf(table, 0) = << >>
  BY SMT DEF FirstOf
<1> QED
  BY <1>1, <1>2, <1>3, FirstsOfTable

LEMMA Parts2 ==
  ASSUME NEW m \in Data2
  PROVE  /\ FibonacciPart(m) \in Seq(Int) /\ SquarePart(m) \in Seq(Int)
         /\ RunPart(m) \in Seq(Int) /\ CountPart(m) \in Seq(Int)
         /\ Squares(m) \in Seq(Int) /\ Runs(m) \in Seq(Int) /\ All(m) \in Seq(Int)
<1>1. FibonacciPart(m) \in Seq(Int)
  <2>1. FibonacciTable(m) \in Seq(Int)
    BY DataFields2, FibonacciPrinted, WholeTable
  <2> QED
    BY <2>1, EmptySeq DEF FibonacciPart
<1>2. SquarePart(m) \in Seq(Int)
  <2>1. SquareTable(m) \in Seq(Int)
    BY DataFields2, SquarePrinted, WholeTable
  <2> QED
    BY <2>1, EmptySeq DEF SquarePart
<1>3. RunPart(m) \in Seq(Int)
  <2>1. /\ <<ASCENDING>> \in Seq(Int) /\ <<DESCENDING>> \in Seq(Int) /\ <<NEITHER>> \in Seq(Int)
        /\ << >> \in Seq(Int)
    BY SMT DEF ASCENDING, DESCENDING, NEITHER
  <2> DEFINE u == IF Ascends(m) THEN <<ASCENDING>> ELSE << >>
             v == IF Descends(m) THEN <<DESCENDING>> ELSE << >>
             w == IF Ascends(m) \/ Descends(m) THEN << >> ELSE <<NEITHER>>
  <2>2. u \in Seq(Int) /\ v \in Seq(Int) /\ w \in Seq(Int)
    BY <2>1, Zenon
  <2> HIDE DEF u, v, w
  <2>3. (u \o v) \o w \in Seq(Int)
    BY <2>2, ConcatProperties
  <2> QED
    BY <2>1, <2>3 DEF RunPart, u, v, w
<1>4. CountPart(m) \in Seq(Int)
  <2> DEFINE S == {i \in DOMAIN m.str : WordStarts(m, i)}
  <2>1. IsFiniteSet(S)
    <3>1. DOMAIN m.str = 0 .. End(m) /\ 0 \in Int /\ End(m) \in Int
      BY DataFields2
    <3>2. IsFiniteSet(0 .. End(m))
      BY <3>1, FS_Interval
    <3> QED
      BY <3>1, <3>2, FS_Subset
  <2>2. Cardinality(S) \in Nat
    BY <2>1, FS_CardinalityType
  <2> HIDE DEF S
  <2>3. <<Cardinality(S)>> \in Seq(Int) /\ << >> \in Seq(Int)
    BY <2>2, SMT
  <2> QED
    BY <2>3, Zenon DEF CountPart, S
<1>5. Squares(m) \in Seq(Int)
  BY <1>1, <1>2, ConcatProperties DEF Squares
<1>6. Runs(m) \in Seq(Int)
  BY <1>3, <1>5, ConcatProperties DEF Runs
<1>7. All(m) \in Seq(Int)
  BY <1>4, <1>6, ConcatProperties DEF All
<1> QED
  BY <1>1, <1>2, <1>3, <1>4, <1>5, <1>6, <1>7

\* What stays as it is in the middle of the function.
LEMMA InTasks2 ==
  ASSUME TaskInv2, NEW m, m = before.memory, pc \in Tasks2
  PROVE  /\ regs \in Registers2 /\ m \in Data2 /\ before.regs.fp \in Int
         /\ memory.lr \in Int /\ memory.mid \in Int /\ console \in Seq(Int)
         /\ Place2(m) /\ Frame2 /\ Written(m, memory.str)
         /\ pc \notin LastTask => memory.str = m.str
         /\ pc # LOOP => Fits(m)
BY DEF TaskInv2, Types2, Place2

LEMMA MemoryFields2 ==
  ASSUME NEW m \in Data2, Written(m, memory.str)
  PROVE  /\ memory.fib = m.fib /\ memory.square = m.square /\ memory.size = m.size
         /\ memory.fill = m.fill /\ memory.runCheck = m.runCheck /\ memory.length = m.length
         /\ memory.items = m.items /\ memory.countWords = m.countWords
         /\ memory.revString = m.revString
BY DEF Data2, Written

LEMMA StaysInTasks ==
  ASSUME TaskInv2, NEW m, m = before.memory, pc \in Tasks2, before' = before, stack' = stack,
         regs' \in Registers2, memory' = memory, console' \in Seq(Int)
  PROVE  /\ Types2' /\ before'.memory = m /\ Frame2' /\ Written(m, memory.str)'
<1>1. /\ regs \in Registers2 /\ m \in Data2 /\ before.regs.fp \in Int
      /\ memory.lr \in Int /\ memory.mid \in Int /\ Frame2 /\ Written(m, memory.str)
  BY InTasks2
<1>2. Types2' /\ before'.memory = m
  BY <1>1 DEF Types2
<1>3. Frame2'
  BY <1>1 DEF Frame2, Caller, Line, Junk
<1>4. Written(m, memory.str)'
  BY <1>1 DEF Written
<1> QED
  BY <1>2, <1>3, <1>4

-----------------------------------------------------------------------------
(* The steps. *)

LEMMA InitialTasks2 ==
  ASSUME InitAsm2
  PROVE  TaskInv2
<1>1. PICK m \in Inputs : Called(studentMain2, RegistersAsm2, m)
  BY DEF InitAsm2
<1>2. IsTaskData(m)
  BY InputsAssumption
<1>3. m \in Data2
  <2>1. /\ End(m) \in Nat
        /\ m \in [fib : Int, square : Int, size : Int, fill : Int, lr : Int, mid : Int,
                  runCheck : Int, length : Nat, items : [0 .. m.length - 1 -> Int],
                  countWords : Int, revString : Int, str : [0 .. End(m) -> Int]]
        /\ \A i \in 0 .. End(m) : m.str[i] = 0 <=> i = End(m)
    BY <1>2, Zenon DEF IsTaskData, End
  <2>2. m.length \in Nat /\ m.items \in [0 .. m.length - 1 -> Int] /\ m.str \in [0 .. End(m) -> Int]
    BY <2>1
  <2>3. /\ m.items \in UNION {[0 .. n - 1 -> Int] : n \in Nat}
        /\ m.str \in UNION {[0 .. n -> Int] : n \in Nat}
    BY <2>1, <2>2, Zenon
  <2> QED
    BY <2>1, <2>2, <2>3 DEF Data2
<1>4. RegistersAsm2 \in Registers2 /\ RegistersAsm2.ra = Caller(2) /\ RegistersAsm2.fp \in Int
  BY Labels2, SMT DEF RegistersAsm2, Registers2, Junk
<1>5. /\ pc = studentMain2 /\ regs = RegistersAsm2 /\ memory = m /\ stack = << >> /\ console = << >>
      /\ before.memory = m /\ before.regs = RegistersAsm2
  BY <1>1 DEF Called
<1>6. m.lr \in Int /\ m.mid \in Int /\ m = [m EXCEPT !.str = m.str, !.lr = m.lr, !.mid = m.mid]
  BY <1>3 DEF Data2
<1>7. Types2
  BY <1>3, <1>4, <1>5, <1>6, EmptySeq DEF Types2
<1>8. Written(m, memory.str)
  BY <1>5, <1>6 DEF Written
<1>9. Place2(m)
  BY <1>4, <1>5, <1>8, Labels2 DEF Place2, Tasks2, LastTask
<1> QED
  BY <1>5, <1>7, <1>9 DEF TaskInv2

LEMMA FirstFour ==
  ASSUME NEW N \in Nat, 4 <= N, NEW table \in [1 .. N -> Int]
  PROVE  FirstOf(table, 4) = <<table[1], table[2], table[3], table[4]>>
<1>1. 1 .. 4 = {1, 2, 3, 4}
  BY SMT
<1>2. FirstOf(table, 4) = [k \in 1 .. 4 |-> table[k]]
  BY DEF FirstOf
<1> QED
  BY <1>2, SMT

LEMMA StudentMain2Starts ==
  ASSUME TaskInv2, StudentMain2
  PROVE  TaskInv2'
<1>0. PICK m : m = before.memory
  OBVIOUS
<1>1. /\ pc = studentMain2 /\ before' = before /\ memory' = memory
      /\ stack' = Pushed(<<regs.fp, regs.ra, Junk, Junk, Junk, Junk>>)
      /\ regs' = [regs EXCEPT !.fp = 20, !.s1 = memory.fib, !.t1 = 1, !.t2 = 1, !.t3 = 2]
      /\ IF memory.fib = 0 THEN pc' = AFTER_FIB /\ console' = console
                           ELSE pc' = LOOP /\ console' = console \o <<0, 1, 1, 1>>
  BY DEF StudentMain2
<1>2. /\ regs \in Registers2 /\ m \in Data2 /\ memory = m /\ console = << >> /\ stack = << >>
      /\ regs.ra = Caller(2) /\ regs.fp = before.regs.fp /\ before.regs.fp \in Int
      /\ memory.lr \in Int /\ memory.mid \in Int /\ Written(m, memory.str)
  BY <1>0, <1>1, Labels2 DEF TaskInv2, Types2, Place2
<1>3. m.fib \in Int
  BY <1>2, DataFields2
<1>4. /\ regs' \in Registers2 /\ regs'.s1 = m.fib /\ regs'.t1 = 1 /\ regs'.t2 = 1
      /\ regs'.t3 = 2
  <2>1. PICK f \in Int, one \in Int, two \in Int, top \in Int :
          f = m.fib /\ one = 1 /\ two = 2 /\ top = 20
    BY <1>3
  <2>2. regs' = [regs EXCEPT !.fp = top, !.s1 = f, !.t1 = one, !.t2 = one, !.t3 = two]
    BY <1>1, <1>2, <2>1
  <2>3. /\ regs' \in Registers2 /\ regs'.s1 = f /\ regs'.t1 = one /\ regs'.t2 = one
        /\ regs'.t3 = two
    BY <1>2, <2>2 DEF Registers2
  <2> QED
    BY <2>1, <2>3
<1>5. stack' = <<before.regs.fp, Caller(2), Junk, Junk, Junk, Junk>>
  <2>1. <<regs.fp, regs.ra, Junk, Junk, Junk, Junk>> \in Seq(Int)
    BY <1>2 DEF Registers2, Junk
  <2> QED
    BY <1>1, <1>2, <2>1, FirstFrame
<1>6. Frame2' /\ Written(m, memory.str)'
  <2>1. Frame2'
    BY <1>1, <1>5 DEF Frame2, Caller, Line, Junk
  <2>2. Written(m, memory.str)'
    BY <1>1, <1>2 DEF Written
  <2> QED
    BY <2>1, <2>2
<1>7. console' \in Seq(Int) /\ (m.fib # 0 => console' = <<0, 1, 1, 1>>)
  <2>1. <<0, 1, 1, 1>> \in Seq(Int)
    BY SMT
  <2>2. << >> \o <<0, 1, 1, 1>> = <<0, 1, 1, 1>>
    BY <2>1, ConcatEmptySeq
  <2> QED
    BY <1>1, <1>2, <2>1, <2>2, EmptySeq
<1>8. Types2' /\ before'.memory = m
  BY <1>0, <1>1, <1>2, <1>4, <1>7 DEF Types2
<1>9. CASE m.fib = 0
  <2>1. pc' = AFTER_FIB /\ console' = FibonacciPart(m) /\ Fits(m)
    BY <1>1, <1>2, <1>9, SMT DEF FibonacciPart, Fits
  <2>2. memory'.str = m.str
    BY <1>1, <1>2
  <2>3. Place2(m)'
    BY <1>6, <2>1, <2>2, Labels2 DEF Place2, Tasks2, LastTask
  <2> QED
    BY <1>8, <2>3 DEF TaskInv2
<1>10. CASE m.fib # 0
  <2> DEFINE L == LastFibonacci(m)
             F == Fibonacci(L)
             T == FibonacciTable(m)
  <2>1. /\ L \in Nat \ {0} /\ T \in [1 .. 2 * (L + 1) -> Int] /\ 2 * (L + 1) \in Nat
        /\ \A i \in 0 .. L : T[2 * i + 1] = i /\ T[2 * i + 2] = F[i]
    BY <1>3, FibonacciPrinted
  <2>2. \A k \in 0 .. L : F[k] = IF k < 2 THEN 1 ELSE F[k - 1] + F[k - 2]
    BY <2>1, FibonacciNumbers
  <2> HIDE DEF L, F, T
  <2>3. F[0] = 1 /\ F[1] = 1 /\ T[1] = 0 /\ T[2] = 1 /\ T[3] = 1 /\ T[4] = 1
    <3>1. /\ 0 \in 0 .. L /\ 1 \in 0 .. L /\ 2 * 0 + 1 = 1 /\ 2 * 0 + 2 = 2 /\ 2 * 1 + 1 = 3
          /\ 2 * 1 + 2 = 4 /\ 0 < 2 /\ 1 < 2
      BY <2>1, SMT
    <3>2. F[0] = 1 /\ F[1] = 1
      BY <2>2, <3>1
    <3>3. T[2 * 0 + 1] = 0 /\ T[2 * 0 + 2] = F[0] /\ T[2 * 1 + 1] = 1 /\ T[2 * 1 + 2] = F[1]
      BY <2>1, <3>1
    <3> QED
      BY <3>1, <3>2, <3>3
  <2>4. FirstOf(T, 4) = <<0, 1, 1, 1>>
    <3>1. 4 <= 2 * (L + 1)
      BY <2>1, SMT
    <3> QED
      BY <2>1, <2>3, <3>1, FirstFour
  <2>5. InFibonacci(m)'
    <3>1. 2 \in 2 .. L + 1 /\ 2 - 1 = 1 /\ 2 - 2 = 0 /\ ~ 2 > 2 /\ 2 * 2 = 4
      BY <2>1, SMT
    <3> QED
      BY <1>4, <1>7, <1>10, <2>3, <2>4, <3>1 DEF InFibonacci, L, F, T
  <2>6. pc' = LOOP /\ memory'.str = m.str
    BY <1>1, <1>2, <1>10
  <2>7. Place2(m)'
    BY <1>6, <2>5, <2>6, Labels2 DEF Place2, Tasks2, LastTask
  <2> QED
    BY <1>8, <2>7 DEF TaskInv2
<1> QED
  BY <1>9, <1>10

LEMMA FibonacciSteps ==
  ASSUME TaskInv2, NextFibonacci \/ FibonacciTraps \/ FibonacciDone
  PROVE  TaskInv2'
<1>0. PICK m : m = before.memory
  OBVIOUS
<1>1. /\ pc = LOOP /\ before' = before /\ memory' = memory /\ stack' = stack
  BY DEF NextFibonacci, FibonacciTraps, FibonacciDone
<1>2. /\ regs \in Registers2 /\ m \in Data2 /\ console \in Seq(Int) /\ Frame2
      /\ Written(m, memory.str) /\ memory.str = m.str /\ InFibonacci(m)
  <2>1. pc \in Tasks2 /\ pc \notin LastTask
    BY <1>1, Labels2 DEF Tasks2, LastTask
  <2> QED
    BY <1>0, <1>1, <2>1, InTasks2 DEF Place2
<1> DEFINE L == LastFibonacci(m)
           F == Fibonacci(L)
           T == FibonacciTable(m)
<1>3. PICK n \in 2 .. L + 1 :
        /\ regs.t3 = n /\ regs.t1 = F[n - 1] /\ regs.t2 = F[n - 2]
        /\ n > 2 => regs.t1 <= Largest
        /\ console = FirstOf(T, 2 * n)
  BY <1>2 DEF InFibonacci
<1>4. m.fib # 0 /\ regs.s1 = m.fib /\ m.fib \in Int
  BY <1>2, DataFields2 DEF InFibonacci
<1>5. /\ L \in Nat \ {0} /\ T \in [1 .. 2 * (L + 1) -> Int] /\ 2 * (L + 1) \in Nat
      /\ \A i \in 0 .. L : T[2 * i + 1] = i /\ T[2 * i + 2] = F[i]
      /\ F \in [0 .. L -> Nat]
      /\ \A k \in 0 .. L : F[k] = IF k < 2 THEN 1 ELSE F[k - 1] + F[k - 2]
  BY <1>4, FibonacciPrinted, FibonacciNumbers
<1>6. L = IF m.fib < 1 THEN 1 ELSE m.fib
  BY DEF LastFibonacci, AtLeast
<1>7. /\ n \in Nat /\ n \in Int /\ ~ n < 2 /\ n <= L + 1 /\ 2 <= n /\ L \in Nat /\ L >= 1
      /\ m.fib \in Int
  <2>1. L \in Nat \ {0}
    BY <1>5
  <2> HIDE DEF L, F, T
  <2> QED
    BY <1>4, <2>1, SMT
<1>8. \A j \in 0 .. L : F[j] <= F[L]
  BY <1>5, FibonacciGrows
<1>9. Fits(m) <=> (m.fib >= 2 => F[m.fib] <= Largest)
  BY DEF Fits
<1> HIDE DEF L, F, T
<1>10. CASE NextFibonacci
  <2>1. /\ regs.s1 >= regs.t3 /\ regs.t1 + regs.t2 <= Largest /\ pc' = pc
        /\ console' = console \o <<regs.t3, regs.t1 + regs.t2>>
        /\ regs' = [regs EXCEPT !.t1 = regs.t1 + regs.t2, !.t2 = regs.t1, !.t3 = regs.t3 + 1]
    BY <1>10 DEF NextFibonacci
  <2>2. /\ n \in 0 .. L /\ n - 1 \in 0 .. L /\ n - 2 \in 0 .. L /\ n + 1 \in 2 .. L + 1
        /\ (n + 1) - 1 = n /\ (n + 1) - 2 = n - 1 /\ 2 * n \in 0 .. 2 * (L + 1)
        /\ 2 * n + 2 <= 2 * (L + 1) /\ 2 * (n + 1) = 2 * n + 2
    <3>1. m.fib >= n
      BY <1>3, <1>4, <2>1
    <3> QED
      BY <1>6, <1>7, <3>1, SMT
  <2>3. F[n] = F[n - 1] + F[n - 2] /\ F[n] \in Int /\ F[n - 1] \in Int
    <3>1. F[n] \in Nat /\ F[n - 1] \in Nat
      BY <1>5, <2>2, Zenon
    <3>2. F[n] = F[n - 1] + F[n - 2]
      BY <1>5, <1>7, <2>2, Zenon
    <3> QED
      BY <3>1, <3>2
  <2>4. regs' = [regs EXCEPT !.t1 = F[n], !.t2 = F[n - 1], !.t3 = n + 1]
    BY <1>3, <2>1, <2>3
  <2>5. /\ regs' \in Registers2 /\ regs'.t1 = F[n] /\ regs'.t2 = F[n - 1] /\ regs'.t3 = n + 1
        /\ regs'.s1 = regs.s1
    <3>1. n + 1 \in Int
      BY <1>7, SMT
    <3>2. PICK u \in Int, v \in Int, w \in Int : u = F[n] /\ v = F[n - 1] /\ w = n + 1
      BY <2>3, <3>1
    <3>3. regs' = [regs EXCEPT !.t1 = u, !.t2 = v, !.t3 = w]
      BY <2>4, <3>2
    <3>4. regs' \in Registers2 /\ regs'.t1 = u /\ regs'.t2 = v /\ regs'.t3 = w /\ regs'.s1 = regs.s1
      BY <1>2, <3>3 DEF Registers2
    <3> QED
      BY <3>2, <3>4
  <2>6. console' = FirstOf(T, 2 * (n + 1))
    <3> DEFINE words == <<n, F[n]>>
    <3>1. words \in Seq(Int) /\ Len(words) = 2 /\ words[1] = n /\ words[2] = F[n]
      BY <1>7, <2>3, SMT
    <3>2. console' = console \o words
      BY <1>3, <2>1, <2>3
    <3> HIDE DEF words
    <3>3. \A j \in 1 .. Len(words) : words[j] = T[2 * n + j]
      <4> TAKE j \in 1 .. Len(words)
      <4>1. j = 1 \/ j = 2
        BY <3>1, SMT
      <4>2. T[2 * n + 1] = n /\ T[2 * n + 2] = F[n]
        BY <1>5, <2>2
      <4> QED
        BY <3>1, <4>1, <4>2
    <3>4. << >> \o FirstOf(T, 2 * n) = FirstOf(T, 2 * n)
      BY <1>5, <2>2, FirstsOfTable, ConcatEmptySeq
    <3>5. << >> \o FirstOf(T, 2 * (n + 1)) = FirstOf(T, 2 * (n + 1))
      <4>1. 2 * (n + 1) \in 0 .. 2 * (L + 1)
        BY <1>7, <2>2, SMT
      <4> QED
        BY <1>5, <4>1, FirstsOfTable, ConcatEmptySeq
    <3>6. (<< >> \o FirstOf(T, 2 * n)) \o words = << >> \o FirstOf(T, 2 * n + 2)
      <4>1. << >> \in Seq(Int) /\ 2 * n + Len(words) <= 2 * (L + 1) /\ 2 * n + Len(words) = 2 * n + 2
        BY <2>2, <3>1, EmptySeq
      <4>2. 2 * n \in 0 .. 2 * (L + 1) /\ 2 * (L + 1) \in Nat /\ words \in Seq(Int)
            /\ T \in [1 .. 2 * (L + 1) -> Int]
        BY <1>5, <2>2, <3>1
      <4>3. (<< >> \o FirstOf(T, 2 * n)) \o words = << >> \o FirstOf(T, 2 * n + Len(words))
        BY <3>3, <4>1, <4>2, WordsPrinted, Zenon
      <4> QED
        BY <4>1, <4>3
    <3> QED
      BY <1>3, <2>2, <3>2, <3>4, <3>5, <3>6
  <2>7. console' \in Seq(Int)
    <3>1. 2 * (n + 1) \in 0 .. 2 * (L + 1)
      BY <1>7, <2>2, SMT
    <3> QED
      BY <1>5, <2>6, <3>1, FirstsOfTable
  <2>8. regs'.t1 <= Largest
    BY <1>3, <2>1, <2>3, <2>5
  <2>9. InFibonacci(m)'
    BY <1>4, <2>2, <2>5, <2>6, <2>8, Zenon DEF InFibonacci, L, F, T
  <2>10. Types2' /\ before'.memory = m /\ Frame2' /\ Written(m, memory.str)'
    BY <1>0, <1>1, <2>5, <2>7, StaysInTasks DEF Tasks2
  <2>11. pc' = LOOP /\ memory'.str = m.str
    BY <1>1, <1>2, <2>1
  <2>12. Place2(m)'
    BY <2>9, <2>10, <2>11, Labels2 DEF Place2, Tasks2, LastTask
  <2> QED
    BY <2>10, <2>12 DEF TaskInv2
<1>11. CASE FibonacciTraps
  <2>1. /\ regs.s1 >= regs.t3 /\ regs.t1 + regs.t2 > Largest /\ pc' = Trapped
        /\ console' = console /\ regs' = regs
    BY <1>11 DEF FibonacciTraps
  <2>2. n \in 0 .. L /\ n - 1 \in 0 .. L /\ n - 2 \in 0 .. L /\ L = m.fib /\ m.fib >= 2
    <3>1. m.fib >= n
      BY <1>3, <1>4, <2>1
    <3> QED
      BY <1>6, <1>7, <3>1, SMT
  <2>3. F[n] = F[n - 1] + F[n - 2] /\ F[n] \in Int
    <3>1. F[n] \in Nat
      BY <1>5, <2>2, Zenon
    <3>2. F[n] = F[n - 1] + F[n - 2]
      BY <1>5, <1>7, <2>2, Zenon
    <3> QED
      BY <3>1, <3>2
  <2>4. ~ Fits(m)
    <3>1. F[n] > Largest /\ F[n] <= F[L] /\ F[L] \in Int /\ Largest \in Nat
      <4>1. L \in 0 .. L
        BY <1>5, SMT
      <4> QED
        BY <1>3, <1>5, <1>8, <2>1, <2>2, <2>3, <4>1, LargestAssumption
    <3> QED
      BY <1>9, <2>2, <2>3, <3>1, SMT
  <2>5. Types2' /\ before'.memory = m /\ Frame2' /\ Written(m, memory.str)'
    BY <1>0, <1>1, <1>2, <2>1, StaysInTasks DEF Tasks2
  <2>6. ~ Fits(m)'
    BY <2>4 DEF Fits
  <2>7. Place2(m)'
    BY <2>1, <2>5, <2>6, Labels2 DEF Place2, Tasks2, LastTask
  <2> QED
    BY <2>5, <2>7 DEF TaskInv2
<1>12. CASE FibonacciDone
  <2>1. regs.s1 < regs.t3 /\ pc' = AFTER_FIB /\ console' = console /\ regs' = regs
    BY <1>12 DEF FibonacciDone
  <2>2. n = L + 1 /\ (m.fib >= 2 => n > 2 /\ n - 1 = m.fib)
    <3>1. PICK f \in Int, l \in Int, k \in Int : f = m.fib /\ l = L /\ k = n
      BY <1>7
    <3>2. f < k /\ l = (IF f < 1 THEN 1 ELSE f) /\ 2 <= k /\ k <= l + 1
      BY <1>3, <1>4, <1>6, <1>7, <2>1, <3>1
    <3>3. k = l + 1 /\ (f >= 2 => k > 2 /\ k - 1 = f)
      BY <3>2, SMT
    <3> QED
      BY <3>1, <3>3
  <2>3. Fits(m)
    BY <1>3, <1>9, <2>2
  <2>4. console' = FibonacciPart(m)
    <3>1. FirstOf(T, 2 * (L + 1)) = T
      BY <1>5, WholeTable
    <3> QED
      BY <1>3, <1>4, <2>1, <2>2, <3>1 DEF FibonacciPart, T
  <2>5. Types2' /\ before'.memory = m /\ Frame2' /\ Written(m, memory.str)'
    BY <1>0, <1>1, <1>2, <2>1, StaysInTasks DEF Tasks2
  <2>6. memory'.str = m.str /\ Fits(m)' /\ console' = FibonacciPart(m)'
    BY <1>1, <1>2, <2>3, <2>4 DEF Fits, FibonacciPart
  <2>7. Place2(m)'
    BY <2>1, <2>5, <2>6, Labels2 DEF Place2, Tasks2, LastTask
  <2> QED
    BY <2>5, <2>7 DEF TaskInv2
<1> QED
  BY <1>10, <1>11, <1>12

LEMMA SquareStarts ==
  ASSUME TaskInv2, StartSquare
  PROVE  TaskInv2'
<1>0. PICK m : m = before.memory
  OBVIOUS
<1>1. /\ pc = AFTER_FIB /\ before' = before /\ memory' = memory /\ stack' = stack
      /\ console' = console
      /\ regs' = [regs EXCEPT !.s3 = memory.fill, !.s4 = memory.size, !.t9 = 0]
      /\ pc' = IF memory.square = 0 THEN AFTER_SQUARE ELSE LOOPTWO
  BY DEF StartSquare
<1>2. /\ regs \in Registers2 /\ m \in Data2 /\ console \in Seq(Int) /\ Frame2 /\ Fits(m)
      /\ Written(m, memory.str) /\ memory.str = m.str /\ console = FibonacciPart(m)
  <2>1. pc \in Tasks2 /\ pc # LOOP /\ pc \notin LastTask
    BY <1>1, Labels2 DEF Tasks2, LastTask
  <2> QED
    BY <1>0, <1>1, <2>1, InTasks2 DEF Place2
<1>3. memory.fill = m.fill /\ memory.size = m.size /\ memory.square = m.square
  BY <1>2, MemoryFields2
<1>4. m.fill \in Int /\ m.size \in Int
  BY <1>2, DataFields2
<1>5. regs' \in Registers2 /\ regs'.s3 = m.fill /\ regs'.s4 = m.size /\ regs'.t9 = 0
  <2>1. PICK u \in Int, v \in Int, w \in Int : u = m.fill /\ v = m.size /\ w = 0
    BY <1>4
  <2>2. regs' = [regs EXCEPT !.s3 = u, !.s4 = v, !.t9 = w]
    BY <1>1, <1>3, <2>1
  <2>3. regs' \in Registers2 /\ regs'.s3 = u /\ regs'.s4 = v /\ regs'.t9 = w
    BY <1>2, <2>2 DEF Registers2
  <2> QED
    BY <2>1, <2>3
<1>6. FibonacciPart(m) \o << >> = FibonacciPart(m)
  BY <1>2, Parts2, ConcatEmptySeq
<1>7. Types2' /\ before'.memory = m /\ Frame2' /\ Written(m, memory.str)'
  BY <1>0, <1>1, <1>2, <1>5, StaysInTasks DEF Tasks2
<1>8. memory'.str = m.str /\ Fits(m)'
  BY <1>1, <1>2 DEF Fits
<1>9. CASE m.square = 0
  <2>1. pc' = AFTER_SQUARE /\ console' = Squares(m)
    BY <1>1, <1>2, <1>3, <1>6, <1>9 DEF Squares, SquarePart
  <2>2. Place2(m)'
    BY <1>7, <1>8, <2>1, Labels2 DEF Place2, Tasks2, LastTask
  <2> QED
    BY <1>7, <2>2 DEF TaskInv2
<1>10. CASE m.square # 0
  <2>1. pc' = LOOPTWO
    BY <1>1, <1>3, <1>10
  <2>2. Before(m, 0, 0) = 0 /\ 0 \in 0 .. AtLeast(m.size, 0)
    BY <1>4, SMT DEF Before, AtLeast
  <2>3. FirstOf(SquareTable(m), 0) = << >>
    BY <1>4, SquarePrinted, WholeTable
  <2>4. console' = FibonacciPart(m) \o FirstOf(SquareTable(m), Before(m, 0, 0))
    BY <1>1, <1>2, <1>6, <2>2, <2>3
  <2>5. BetweenRows(m)'
    BY <1>5, <1>10, <2>2, <2>4, Zenon DEF BetweenRows, SquareData
  <2>6. Place2(m)'
    BY <1>7, <1>8, <2>1, <2>5, Labels2 DEF Place2, Tasks2, LastTask
  <2> QED
    BY <1>7, <2>6 DEF TaskInv2
<1> QED
  BY <1>9, <1>10

\* The first column, the ones up to the last, and the last one of a row.
LEMMA RowCharacters ==
  ASSUME NEW m \in Data2, NEW r \in Nat, r < m.size
  PROVE  /\ SquareCharacter(m, r + 1, 1) = IF Edge(m, r) THEN 43 ELSE 124
         /\ SquareCharacter(m, r + 1, m.size) = IF Edge(m, r) THEN 43 ELSE 124
         /\ \A c \in 2 .. m.size - 1 :
              SquareCharacter(m, r + 1, c) = IF Edge(m, r) THEN 45 ELSE m.fill
<1>1. m.size \in Int
  BY DataFields2
<1>2. r + 1 \in {1, m.size} <=> Edge(m, r)
  BY <1>1, SMT DEF Edge
<1>3. \A c \in 2 .. m.size - 1 : c \notin {1, m.size}
  BY <1>1, SMT
<1> QED
  BY <1>2, <1>3 DEF SquareCharacter

LEMMA ColumnOf ==
  ASSUME NEW d \in Int, NEW l \in Nat, NEW c \in 0 .. d, NEW j \in 1 .. l, c + l <= d + 1
  PROVE  j \in Nat /\ (c + j = d + 1 \/ c + j \in 1 .. d) /\ d + 1 \notin 1 .. d
BY SMT

\* The words are the next characters of the square.
NextOfRow(m, r, c, words) ==
  /\ words \in Seq(Int) /\ c + Len(words) <= m.size + 1
  /\ \A j \in 1 .. Len(words) :
       words[j] = IF c + j = m.size + 1 THEN Newline ELSE SquareCharacter(m, r + 1, c + j)

LEMMA SquareGrows ==
  ASSUME NEW m \in Data2, NEW r \in Nat, r < m.size, NEW c \in 0 .. m.size, NEW words,
         NextOfRow(m, r, c, words)
  PROVE  /\ (FibonacciPart(m) \o FirstOf(SquareTable(m), Before(m, r, c))) \o words
              = FibonacciPart(m) \o FirstOf(SquareTable(m), Before(m, r, c + Len(words)))
         /\ FibonacciPart(m) \o FirstOf(SquareTable(m), Before(m, r, c)) \in Seq(Int)
<1> DEFINE T == SquareTable(m)
           N == AtLeast(m.size, 0) * (m.size + 1)
           p == Before(m, r, c)
<1>0. /\ words \in Seq(Int) /\ c + Len(words) <= m.size + 1
      /\ \A j \in 1 .. Len(words) :
           words[j] = IF c + j = m.size + 1 THEN Newline ELSE SquareCharacter(m, r + 1, c + j)
  BY Zenon DEF NextOfRow
<1>1. /\ N \in Nat /\ T \in [1 .. N -> Int]
      /\ \A k \in 1 .. m.size : T[Before(m, r, k)] = SquareCharacter(m, r + 1, k)
      /\ T[Before(m, r, m.size + 1)] = Newline
      /\ \A k \in 0 .. m.size + 1 : Before(m, r, k) \in 0 .. N
  BY DataFields2, SquarePrinted
<1>2. m.size \in Int /\ FibonacciPart(m) \in Seq(Int)
  BY DataFields2, Parts2
<1>3. Len(words) \in Nat
  BY <1>0, LenProperties
<1>4. \A j \in Nat : Before(m, r, c + j) = p + j /\ p \in Int
  <2>1. r * (m.size + 1) \in Int
    BY <1>2, SMT
  <2> QED
    BY <2>1, SMT DEF Before
<1> HIDE DEF T, N, p
<1>5. p \in 0 .. N /\ p + Len(words) <= N
  <2>1. c \in 0 .. m.size + 1 /\ c + Len(words) \in 0 .. m.size + 1
    BY <1>0, <1>2, <1>3, SMT
  <2>2. Before(m, r, c) \in 0 .. N /\ Before(m, r, c + Len(words)) \in 0 .. N
    BY <1>1, <2>1
  <2>3. p + Len(words) \in 0 .. N
    BY <1>3, <1>4, <2>2
  <2> QED
    BY <1>1, <2>2, <2>3, SMT DEF p
<1>6. \A j \in 1 .. Len(words) : words[j] = T[p + j]
  <2> TAKE j \in 1 .. Len(words)
  <2>1. j \in Nat /\ (c + j = m.size + 1 \/ c + j \in 1 .. m.size) /\ m.size + 1 \notin 1 .. m.size
    <3>1. PICK d \in Int, l \in Nat : d = m.size /\ l = Len(words)
      BY <1>2, <1>3
    <3>2. c \in 0 .. d /\ j \in 1 .. l /\ c + l <= d + 1
      BY <1>0, <3>1
    <3>3. j \in Nat /\ (c + j = d + 1 \/ c + j \in 1 .. d) /\ d + 1 \notin 1 .. d
      BY <3>1, <3>2, ColumnOf
    <3> QED
      BY <3>1, <3>3
  <2>2. T[Before(m, r, c + j)]
          = IF c + j = m.size + 1 THEN Newline ELSE SquareCharacter(m, r + 1, c + j)
    BY <1>1, <2>1
  <2>3. T[p + j] = T[Before(m, r, c + j)]
    BY <1>4, <2>1
  <2> QED
    BY <1>0, <2>2, <2>3
<1>7. (FibonacciPart(m) \o FirstOf(T, p)) \o words = FibonacciPart(m) \o FirstOf(T, p + Len(words))
  BY <1>0, <1>1, <1>2, <1>5, <1>6, WordsPrinted, Zenon
<1>8. FibonacciPart(m) \o FirstOf(T, p) \in Seq(Int)
  <2>1. FirstOf(T, p) \in Seq(Int)
    BY <1>1, <1>5, FirstsOfTable
  <2> QED
    BY <1>2, <2>1, ConcatProperties
<1> QED
  BY <1>3, <1>4, <1>7, <1>8 DEF T, p

LEMMA RowStarts ==
  ASSUME TaskInv2, StartRow
  PROVE  TaskInv2'
<1>0. PICK m : m = before.memory
  OBVIOUS
<1>1. /\ pc = LOOPTWO /\ before' = before /\ stack' = stack /\ regs.t9 < regs.s4
  BY DEF StartRow
<1>2. /\ regs \in Registers2 /\ m \in Data2 /\ console \in Seq(Int) /\ Frame2 /\ Fits(m)
      /\ Written(m, memory.str) /\ memory.str = m.str /\ BetweenRows(m) /\ before.regs.fp \in Int
      /\ memory.lr \in Int /\ memory.mid \in Int
  <2>1. pc \in Tasks2 /\ pc # LOOP /\ pc \notin LastTask
    BY <1>1, Labels2 DEF Tasks2, LastTask
  <2> QED
    BY <1>0, <1>1, <2>1, InTasks2 DEF Place2
<1>3. PICK r \in 0 .. AtLeast(m.size, 0) :
        /\ regs.t9 = r
        /\ console = FibonacciPart(m) \o FirstOf(SquareTable(m), Before(m, r, 0))
  BY <1>2 DEF BetweenRows
<1>4. m.square # 0 /\ regs.s3 = m.fill /\ regs.s4 = m.size /\ m.size \in Int /\ m.fill \in Int
  BY <1>2, DataFields2 DEF BetweenRows, SquareData
<1>5. r \in Nat /\ r < m.size /\ r \in Int
  <2>1. r < m.size
    BY <1>1, <1>3, <1>4
  <2> QED
    BY <2>1, SMT
<1> DEFINE lr == IF Edge(m, r) THEN 43 ELSE 124
           mid == IF Edge(m, r) THEN 45 ELSE m.fill
<1>6. /\ memory' = [memory EXCEPT !.lr = lr, !.mid = mid]
      /\ regs' = [regs EXCEPT !.t1 = lr, !.t2 = mid, !.t3 = m.size - 1, !.t5 = 1]
      /\ IF m.size > 1 THEN pc' = LOOP_SQUARE /\ console' = Append(console, lr)
                       ELSE pc' = AFTER_COMPARE /\ console' = console
  BY <1>3, <1>4 DEF StartRow, Edge
<1>7. lr \in Int /\ mid \in Int
  BY <1>4
<1> HIDE DEF lr, mid
<1>8. PICK u \in Int, v \in Int, w \in Int, one \in Int :
        u = lr /\ v = mid /\ w = m.size - 1 /\ one = 1
  <2>1. m.size - 1 \in Int
    BY <1>4, SMT
  <2> QED
    BY <1>7, <2>1
<1>9. /\ regs' \in Registers2 /\ regs'.t1 = lr /\ regs'.t2 = mid /\ regs'.t3 = m.size - 1
      /\ regs'.t5 = 1 /\ regs'.s3 = m.fill /\ regs'.s4 = m.size /\ regs'.t9 = r
  <2>1. regs' = [regs EXCEPT !.t1 = u, !.t2 = v, !.t3 = w, !.t5 = one]
    BY <1>6, <1>8
  <2>2. /\ regs' \in Registers2 /\ regs'.t1 = u /\ regs'.t2 = v /\ regs'.t3 = w
        /\ regs'.t5 = one /\ regs'.s3 = regs.s3 /\ regs'.s4 = regs.s4 /\ regs'.t9 = regs.t9
    BY <1>2, <2>1 DEF Registers2
  <2> QED
    BY <1>3, <1>4, <1>8, <2>2
<1>10. memory'.lr \in Int /\ memory'.mid \in Int /\ memory'.str = m.str /\ Written(m, memory.str)'
  <2>1. memory = [m EXCEPT !.str = memory.str, !.lr = memory.lr, !.mid = memory.mid]
    BY <1>2 DEF Written
  <2>2. memory' = [memory EXCEPT !.lr = u, !.mid = v]
    BY <1>6, <1>8
  <2>3. PICK a, b, s : /\ a = memory.lr /\ b = memory.mid /\ s = memory.str
                       /\ memory = [m EXCEPT !.str = s, !.lr = a, !.mid = b]
    BY <2>1
  <2>4. /\ memory'.lr = u /\ memory'.mid = v /\ memory'.str = s
        /\ memory' = [m EXCEPT !.str = s, !.lr = u, !.mid = v]
    BY <1>2, <2>2, <2>3 DEF Data2
  <2> QED
    BY <1>2, <2>3, <2>4 DEF Written
<1>11. lr = SquareCharacter(m, r + 1, 1)
  BY <1>2, <1>5, RowCharacters DEF lr
<1>12. /\ console' \in Seq(Int)
       /\ (pc' = LOOP_SQUARE /\ InRow(m)') \/ (pc' = AFTER_COMPARE /\ OneCharacter(m)')
  <2>1. CASE m.size > 1
    <3>1. pc' = LOOP_SQUARE /\ console' = Append(console, lr)
      BY <1>6, <2>1
    <3>2. console' = FibonacciPart(m) \o FirstOf(SquareTable(m), Before(m, r, 1))
      <4> DEFINE words == <<lr>>
      <4>1. console' = console \o words /\ words \in Seq(Int) /\ Len(words) = 1
        BY <1>2, <1>7, <3>1, WordAppended
      <4>2. words[1] = SquareCharacter(m, r + 1, 1)
        BY <1>11
      <4> HIDE DEF words
      <4>3. 0 \in 0 .. m.size /\ 0 + Len(words) <= m.size + 1 /\ 0 + 1 = 1 /\ 1 # m.size + 1
            /\ \A j \in 1 .. Len(words) : j = 1
        BY <1>4, <2>1, <4>1, SMT
      <4>4. NextOfRow(m, r, 0, words)
        BY <4>1, <4>2, <4>3 DEF NextOfRow
      <4>5. m \in Data2 /\ r \in Nat /\ r < m.size /\ 0 \in 0 .. m.size
        BY <1>2, <1>5, <4>3
      <4>6. (FibonacciPart(m) \o FirstOf(SquareTable(m), Before(m, r, 0))) \o words
              = FibonacciPart(m) \o FirstOf(SquareTable(m), Before(m, r, 0 + Len(words)))
        BY <4>4, <4>5, SquareGrows, Zenon
      <4>7. 0 + Len(words) = 1
        BY <4>1
      <4> QED
        BY <1>3, <4>1, <4>6, <4>7
    <3>3. 1 \in 1 .. m.size - 1
      BY <1>4, <2>1, SMT
    <3>4. console' \in Seq(Int)
      BY <1>2, <1>7, <3>1, AppendProperties
    <3>5. InRow(m)'
      BY <1>3, <1>4, <1>5, <1>9, <3>2, <3>3, Zenon DEF InRow, SquareData, lr, mid, Edge
    <3> QED
      BY <3>1, <3>4, <3>5
  <2>2. CASE ~ m.size > 1
    <3>1. pc' = AFTER_COMPARE /\ console' = console /\ m.size = 1
      BY <1>4, <1>5, <1>6, <2>2, SMT
    <3>2. r = 0 /\ lr = 43
      BY <1>5, <3>1, SMT DEF lr, Edge
    <3>3. OneCharacter(m)'
      BY <1>3, <1>4, <1>9, <3>1, <3>2, Zenon DEF OneCharacter, SquareData
    <3> QED
      BY <1>2, <3>1, <3>3
  <2> QED
    BY <2>1, <2>2
<1>13. Types2' /\ before'.memory = m
  BY <1>0, <1>1, <1>2, <1>9, <1>10, <1>12 DEF Types2
<1>14. Frame2' /\ Fits(m)'
  BY <1>1, <1>2 DEF Frame2, Fits, Caller, Line, Junk
<1>15. Place2(m)'
  <2>1. CASE pc' = LOOP_SQUARE /\ InRow(m)'
    BY <1>10, <1>14, <2>1, Labels2 DEF Place2, Tasks2, LastTask
  <2>2. CASE pc' = AFTER_COMPARE /\ OneCharacter(m)'
    BY <1>10, <1>14, <2>2, Labels2 DEF Place2, Tasks2, LastTask
  <2> QED
    BY <1>12, <2>1, <2>2
<1> QED
  BY <1>13, <1>15 DEF TaskInv2

LEMMA ItemPrinted ==
  ASSUME TaskInv2, RowItem
  PROVE  TaskInv2'
<1>0. PICK m : m = before.memory
  OBVIOUS
<1>1. /\ pc = LOOP_SQUARE /\ before' = before /\ stack' = stack /\ memory' = memory /\ pc' = pc
      /\ regs.t5 < regs.t3 /\ console' = Append(console, regs.t2)
      /\ regs' = [regs EXCEPT !.t5 = regs.t5 + 1]
  BY DEF RowItem
<1>2. /\ regs \in Registers2 /\ m \in Data2 /\ console \in Seq(Int) /\ Frame2 /\ Fits(m)
      /\ Written(m, memory.str) /\ memory.str = m.str /\ InRow(m)
  <2>1. pc \in Tasks2 /\ pc # LOOP /\ pc \notin LastTask
    BY <1>1, Labels2 DEF Tasks2, LastTask
  <2> QED
    BY <1>0, <1>1, <2>1, InTasks2 DEF Place2
<1>3. PICK r \in 0 .. AtLeast(m.size, 0) :
        /\ regs.t9 = r /\ r < m.size
        /\ regs.t1 = IF Edge(m, r) THEN 43 ELSE 124
        /\ regs.t3 = m.size - 1 /\ regs.t2 = IF Edge(m, r) THEN 45 ELSE m.fill
        /\ regs.t5 \in 1 .. m.size - 1
        /\ console = FibonacciPart(m) \o FirstOf(SquareTable(m), Before(m, r, regs.t5))
  BY <1>2 DEF InRow
<1>4. m.square # 0 /\ regs.s3 = m.fill /\ regs.s4 = m.size /\ m.size \in Int /\ m.fill \in Int
  BY <1>2, DataFields2 DEF InRow, SquareData
<1>5. PICK c \in Int, d \in Int : c = regs.t5 /\ d = m.size
  BY <1>2, <1>4, Fields2
<1>6. /\ c \in 1 .. d - 1 /\ c < d - 1 /\ c + 1 \in 1 .. d - 1 /\ c + 1 \in 2 .. d - 1 /\ c \in 0 .. d
      /\ c + 1 <= d + 1 /\ c + 1 # d + 1 /\ r \in Nat /\ c + 1 \in Int
  <2>1. c \in 1 .. d - 1 /\ c < d - 1
    BY <1>1, <1>3, <1>5
  <2> QED
    BY <2>1, SMT
<1>7. /\ regs' \in Registers2 /\ regs'.t5 = c + 1 /\ regs'.t1 = regs.t1 /\ regs'.t2 = regs.t2
      /\ regs'.t3 = regs.t3 /\ regs'.s3 = regs.s3 /\ regs'.s4 = regs.s4 /\ regs'.t9 = regs.t9
  <2>1. PICK u \in Int : u = c + 1
    BY <1>6
  <2>2. regs' = [regs EXCEPT !.t5 = u]
    BY <1>1, <1>5, <2>1
  <2>3. /\ regs' \in Registers2 /\ regs'.t5 = u /\ regs'.t1 = regs.t1 /\ regs'.t2 = regs.t2
        /\ regs'.t3 = regs.t3 /\ regs'.s3 = regs.s3 /\ regs'.s4 = regs.s4 /\ regs'.t9 = regs.t9
    BY <1>2, <2>2 DEF Registers2
  <2> QED
    BY <2>1, <2>3
<1>8. console' = FibonacciPart(m) \o FirstOf(SquareTable(m), Before(m, r, c + 1))
      /\ console' \in Seq(Int)
  <2> DEFINE words == <<regs.t2>>
  <2>1. regs.t2 \in Int
    BY <1>2, Fields2
  <2>2. console' = console \o words /\ words \in Seq(Int) /\ Len(words) = 1
    BY <1>1, <1>2, <2>1, WordAppended
  <2>3. words[1] = SquareCharacter(m, r + 1, c + 1)
    BY <1>2, <1>3, <1>5, <1>6, RowCharacters
  <2>4. console' \in Seq(Int)
    BY <1>1, <1>2, <2>1, AppendProperties
  <2> HIDE DEF words
  <2>5. \A j \in 1 .. Len(words) : j = 1
    BY <2>2, SMT
  <2>6. c \in 0 .. m.size /\ c + Len(words) <= m.size + 1
    BY <1>5, <1>6, <2>2
  <2>7. NextOfRow(m, r, c, words)
    BY <1>5, <1>6, <2>2, <2>3, <2>5, <2>6 DEF NextOfRow
  <2>8. (FibonacciPart(m) \o FirstOf(SquareTable(m), Before(m, r, c))) \o words
          = FibonacciPart(m) \o FirstOf(SquareTable(m), Before(m, r, c + Len(words)))
    <3>1. m \in Data2 /\ r \in Nat /\ r < m.size /\ c \in 0 .. m.size
      BY <1>2, <1>3, <1>6, <2>6
    <3> QED
      BY <2>7, <3>1, SquareGrows, Zenon
  <2> QED
    BY <1>3, <1>5, <2>2, <2>4, <2>8
<1>9. pc' = LOOP_SQUARE
  BY <1>1
<1>10. InRow(m)'
  BY <1>3, <1>4, <1>5, <1>6, <1>7, <1>8, Zenon DEF InRow, SquareData, Edge
<1>11. Types2' /\ before'.memory = m /\ Frame2' /\ Written(m, memory.str)'
  BY <1>0, <1>1, <1>2, <1>7, <1>8, StaysInTasks DEF Tasks2
<1>12. Fits(m)' /\ memory'.str = m.str
  BY <1>1, <1>2 DEF Fits
<1>13. Place2(m)'
  BY <1>9, <1>10, <1>11, <1>12, Labels2 DEF Place2, Tasks2, LastTask
<1> QED
  BY <1>11, <1>13 DEF TaskInv2

LEMMA RowEnds ==
  ASSUME TaskInv2, EndRow
  PROVE  TaskInv2'
<1>0. PICK m : m = before.memory
  OBVIOUS
<1>1. /\ pc \in {LOOP_SQUARE, AFTER_COMPARE} /\ before' = before /\ stack' = stack
      /\ memory' = memory /\ pc' = LOOPTWO
      /\ pc = LOOP_SQUARE => regs.t5 >= regs.t3
      /\ console' = console \o <<regs.t1, Newline>>
      /\ regs' = [regs EXCEPT !.t9 = regs.t9 + 1]
  BY Labels2 DEF EndRow
<1>2. /\ regs \in Registers2 /\ m \in Data2 /\ console \in Seq(Int) /\ Frame2 /\ Fits(m)
      /\ Written(m, memory.str) /\ memory.str = m.str
      /\ (pc = LOOP_SQUARE /\ InRow(m)) \/ (pc = AFTER_COMPARE /\ OneCharacter(m))
  <2>1. pc \in Tasks2 /\ pc \notin LastTask /\ pc # LOOP
    BY <1>1, Labels2 DEF Tasks2, LastTask
  <2>2. /\ regs \in Registers2 /\ m \in Data2 /\ console \in Seq(Int) /\ Frame2 /\ Fits(m)
        /\ Written(m, memory.str) /\ memory.str = m.str /\ Place2(m)
    BY <1>0, <2>1, InTasks2
  <2> QED
    BY <1>1, <2>2 DEF Place2
<1>3. SquareData(m) /\ m.size \in Int
  BY <1>2, DataFields2 DEF InRow, OneCharacter
<1>4. PICK r \in 0 .. AtLeast(m.size, 0) :
        /\ regs.t9 = r /\ r < m.size
        /\ regs.t1 = IF Edge(m, r) THEN 43 ELSE 124
        /\ console = FibonacciPart(m) \o FirstOf(SquareTable(m), Before(m, r, m.size - 1))
  <2>1. CASE pc = LOOP_SQUARE /\ InRow(m)
    <3>1. PICK r \in 0 .. AtLeast(m.size, 0) :
            /\ regs.t9 = r /\ r < m.size
            /\ regs.t1 = IF Edge(m, r) THEN 43 ELSE 124
            /\ regs.t3 = m.size - 1 /\ regs.t5 \in 1 .. m.size - 1
            /\ console = FibonacciPart(m) \o FirstOf(SquareTable(m), Before(m, r, regs.t5))
      BY <2>1 DEF InRow
    <3>2. PICK c \in Int, d \in Int : c = regs.t5 /\ d = m.size
      BY <1>2, <1>3, Fields2
    <3>3. c \in 1 .. d - 1 /\ c >= d - 1
      BY <1>1, <2>1, <3>1, <3>2
    <3>4. c = d - 1
      BY <3>3, SMT
    <3> QED
      BY <3>1, <3>2, <3>4
  <2>2. CASE pc = AFTER_COMPARE /\ OneCharacter(m)
    <3>1. /\ m.size = 1 /\ regs.t9 = 0 /\ regs.t1 = 43
          /\ console = FibonacciPart(m) \o FirstOf(SquareTable(m), Before(m, 0, 0))
      BY <2>2 DEF OneCharacter
    <3>2. 0 \in 0 .. AtLeast(m.size, 0) /\ Edge(m, 0) /\ 0 < m.size /\ m.size - 1 = 0
      BY <3>1, SMT DEF AtLeast, Edge
    <3> QED
      BY <3>1, <3>2, Zenon
  <2> QED
    BY <1>2, <2>1, <2>2
<1>5. r \in Nat /\ m.size - 1 \in 0 .. m.size /\ r + 1 \in Int /\ r + 1 \in 0 .. AtLeast(m.size, 0)
  <2>1. r < m.size
    BY <1>4
  <2> QED
    BY <1>3, <2>1, SMT DEF AtLeast
<1>6. regs' \in Registers2 /\ regs'.t9 = r + 1 /\ regs'.s3 = regs.s3 /\ regs'.s4 = regs.s4
  <2>1. PICK u \in Int : u = r + 1
    BY <1>5
  <2>2. regs' = [regs EXCEPT !.t9 = u]
    BY <1>1, <1>4, <2>1
  <2>3. regs' \in Registers2 /\ regs'.t9 = u /\ regs'.s3 = regs.s3 /\ regs'.s4 = regs.s4
    BY <1>2, <2>2 DEF Registers2
  <2> QED
    BY <2>1, <2>3
<1>7. /\ console' = FibonacciPart(m) \o FirstOf(SquareTable(m), Before(m, r + 1, 0))
      /\ console' \in Seq(Int)
  <2> DEFINE words == <<regs.t1, Newline>>
  <2>1. regs.t1 \in Int /\ Newline \in Int
    BY <1>2, Fields2 DEF Newline
  <2>2. words \in Seq(Int) /\ Len(words) = 2 /\ words[1] = regs.t1 /\ words[2] = Newline
    BY <2>1, SMT
  <2>3. console' = console \o words
    BY <1>1
  <2> HIDE DEF words
  <2>4. console' \in Seq(Int)
    BY <1>2, <2>2, <2>3, ConcatProperties
  <2>5. words[1] = SquareCharacter(m, r + 1, m.size)
    BY <1>2, <1>4, <1>5, <2>2, RowCharacters
  <2>6. /\ (m.size - 1) + 1 = m.size /\ (m.size - 1) + 2 = m.size + 1 /\ m.size # m.size + 1
        /\ (m.size - 1) + Len(words) <= m.size + 1 /\ \A j \in 1 .. Len(words) : j = 1 \/ j = 2
    BY <1>3, <2>2, SMT
  <2>7. NextOfRow(m, r, m.size - 1, words)
    <3>1. \A j \in 1 .. Len(words) :
            words[j] = IF (m.size - 1) + j = m.size + 1 THEN Newline
                       ELSE SquareCharacter(m, r + 1, (m.size - 1) + j)
      BY <2>2, <2>5, <2>6
    <3> QED
      BY <2>2, <2>6, <3>1, Zenon DEF NextOfRow
  <2>8. (FibonacciPart(m) \o FirstOf(SquareTable(m), Before(m, r, m.size - 1))) \o words
          = FibonacciPart(m) \o FirstOf(SquareTable(m), Before(m, r, (m.size - 1) + Len(words)))
    <3>1. m \in Data2 /\ r \in Nat /\ r < m.size /\ m.size - 1 \in 0 .. m.size
      BY <1>2, <1>4, <1>5
    <3> QED
      BY <2>7, <3>1, SquareGrows, Zenon
  <2>9. Before(m, r, (m.size - 1) + Len(words)) = Before(m, r + 1, 0)
    <3>1. (m.size - 1) + Len(words) = m.size + 1
      BY <2>2, <2>6
    <3>2. r * (m.size + 1) + (m.size + 1) = (r + 1) * (m.size + 1) + 0
      BY <1>3, <1>5, SMT
    <3> QED
      BY <3>1, <3>2 DEF Before
  <2> QED
    BY <1>4, <2>3, <2>4, <2>8, <2>9
<1>8. BetweenRows(m)'
  BY <1>3, <1>5, <1>6, <1>7, Zenon DEF BetweenRows, SquareData
<1>9. Types2' /\ before'.memory = m /\ Frame2' /\ Written(m, memory.str)'
  BY <1>0, <1>1, <1>2, <1>6, <1>7, StaysInTasks DEF Tasks2
<1>10. Fits(m)' /\ memory'.str = m.str
  BY <1>1, <1>2 DEF Fits
<1>11. Place2(m)'
  <2>1. pc' = LOOPTWO
    BY <1>1
  <2> QED
    BY <1>8, <1>9, <1>10, <2>1, Labels2 DEF Place2, Tasks2, LastTask
<1> QED
  BY <1>9, <1>11 DEF TaskInv2

LEMMA SquareIsDone ==
  ASSUME TaskInv2, SquareDone
  PROVE  TaskInv2'
<1>0. PICK m : m = before.memory
  OBVIOUS
<1>1. /\ pc = LOOPTWO /\ before' = before /\ stack' = stack /\ memory' = memory
      /\ pc' = AFTER_SQUARE /\ regs.t9 >= regs.s4 /\ console' = console /\ regs' = regs
  BY DEF SquareDone
<1>2. /\ regs \in Registers2 /\ m \in Data2 /\ console \in Seq(Int) /\ Frame2 /\ Fits(m)
      /\ Written(m, memory.str) /\ memory.str = m.str /\ BetweenRows(m)
  <2>1. pc \in Tasks2 /\ pc # LOOP /\ pc \notin LastTask
    BY <1>1, Labels2 DEF Tasks2, LastTask
  <2> QED
    BY <1>0, <1>1, <2>1, InTasks2 DEF Place2
<1>3. PICK r \in 0 .. AtLeast(m.size, 0) :
        /\ regs.t9 = r
        /\ console = FibonacciPart(m) \o FirstOf(SquareTable(m), Before(m, r, 0))
  BY <1>2 DEF BetweenRows
<1>4. m.square # 0 /\ regs.s4 = m.size /\ m.size \in Int /\ m.fill \in Int
  BY <1>2, DataFields2 DEF BetweenRows, SquareData
<1> DEFINE N == AtLeast(m.size, 0) * (m.size + 1)
<1>5. r = AtLeast(m.size, 0)
  <2>1. r >= m.size
    BY <1>1, <1>3, <1>4
  <2>2. CASE m.size < 0
    BY <1>4, <2>2, SMT DEF AtLeast
  <2>3. CASE ~ m.size < 0
    BY <1>4, <2>1, <2>3, SMT DEF AtLeast
  <2> QED
    BY <2>2, <2>3
<1>6. N \in Nat /\ SquareTable(m) \in [1 .. N -> Int]
  BY <1>4, SquarePrinted
<1>7. Before(m, r, 0) = N
  <2>1. Before(m, r, 0) = N + 0
    BY <1>5 DEF Before
  <2> HIDE DEF N
  <2> QED
    BY <1>6, <2>1, SMT
<1>8. console' = Squares(m)
  <2>1. FirstOf(SquareTable(m), N) = SquareTable(m)
    <3> HIDE DEF N
    <3> QED
      BY <1>6, WholeTable
  <2> QED
    BY <1>1, <1>3, <1>4, <1>7, <2>1 DEF Squares, SquarePart
<1>9. Types2' /\ before'.memory = m /\ Frame2' /\ Written(m, memory.str)'
  BY <1>0, <1>1, <1>2, StaysInTasks DEF Tasks2
<1>10. Fits(m)' /\ memory'.str = m.str
  BY <1>1, <1>2 DEF Fits
<1>11. Place2(m)'
  BY <1>1, <1>8, <1>9, <1>10, Labels2 DEF Place2, Tasks2, LastTask
<1> QED
  BY <1>9, <1>11 DEF TaskInv2

-----------------------------------------------------------------------------
(* The steps of the run check. *)

LEMMA RunCheckStarts ==
  ASSUME TaskInv2, StartRunCheck
  PROVE  TaskInv2'
<1>0. PICK m : m = before.memory
  OBVIOUS
<1>1. /\ pc = AFTER_SQUARE /\ before' = before /\ stack' = stack /\ memory' = memory
      /\ console' = console
      /\ regs' = [regs EXCEPT !.t9 = memory.length - 1, !.t1 = 0, !.t3 = 0, !.t4 = 0]
      /\ pc' = IF memory.runCheck # 1 THEN AFTER_RUN_CHECK
               ELSE IF memory.length < 2 THEN EXIT_LOOP_RUNCHECK ELSE LOOP_RUNCHECK
  BY DEF StartRunCheck
<1>2. /\ regs \in Registers2 /\ m \in Data2 /\ console \in Seq(Int) /\ Frame2 /\ Fits(m)
      /\ Written(m, memory.str) /\ memory.str = m.str /\ console = Squares(m)
  <2>1. pc \in Tasks2 /\ pc # LOOP /\ pc \notin LastTask
    BY <1>1, Labels2 DEF Tasks2, LastTask
  <2> QED
    BY <1>0, <1>1, <2>1, InTasks2 DEF Place2
<1>3. /\ memory.length = m.length /\ memory.runCheck = m.runCheck /\ m.length \in Nat
      /\ Squares(m) \in Seq(Int)
  BY <1>2, MemoryFields2, DataFields2, Parts2
<1>4. /\ regs' \in Registers2 /\ regs'.t9 = m.length - 1 /\ regs'.t1 = 0 /\ regs'.t3 = 0
      /\ regs'.t4 = 0
  <2>1. PICK u \in Int, z \in Int : u = m.length - 1 /\ z = 0
    <3>1. m.length - 1 \in Int
      BY <1>3, SMT
    <3> QED
      BY <3>1
  <2>2. regs' = [regs EXCEPT !.t9 = u, !.t1 = z, !.t3 = z, !.t4 = z]
    BY <1>1, <1>3, <2>1
  <2>3. regs' \in Registers2 /\ regs'.t9 = u /\ regs'.t1 = z /\ regs'.t3 = z /\ regs'.t4 = z
    BY <1>2, <2>2 DEF Registers2
  <2> QED
    BY <2>1, <2>3
<1>5. Types2' /\ before'.memory = m /\ Frame2' /\ Written(m, memory.str)'
  BY <1>0, <1>1, <1>2, <1>4, StaysInTasks DEF Tasks2
<1>6. Fits(m)' /\ memory'.str = m.str
  BY <1>1, <1>2 DEF Fits
<1>7. \/ pc' = AFTER_RUN_CHECK /\ console' = Runs(m)
      \/ pc' = EXIT_LOOP_RUNCHECK /\ console' = Squares(m) /\ AfterRunCheck(m)'
      \/ pc' = LOOP_RUNCHECK /\ console' = Squares(m) /\ InRunCheck(m)'
  <2>1. CASE m.runCheck # 1
    <3>1. Squares(m) \o << >> = Squares(m)
      BY <1>3, ConcatEmptySeq
    <3> QED
      BY <1>1, <1>2, <1>3, <2>1, <3>1 DEF Runs, RunPart
  <2>2. CASE m.runCheck = 1 /\ m.length < 2
    <3>1. 0 .. (m.length - 1) - 1 = {}
      BY <1>3, <2>2, SMT
    <3>2. PairsCompared(m, m.length - 1)'
      BY <1>4, <3>1, SMT DEF PairsCompared
    <3>3. AfterRunCheck(m)'
      BY <2>2, <3>2 DEF AfterRunCheck
    <3> QED
      BY <1>1, <1>2, <1>3, <2>2, <3>3
  <2>3. CASE m.runCheck = 1 /\ ~ m.length < 2
    <3>1. 0 .. 0 - 1 = {} /\ 0 \in 0 .. m.length - 1
      BY <1>3, <2>3, SMT
    <3>2. PairsCompared(m, 0)'
      BY <1>4, <3>1, SMT DEF PairsCompared
    <3>3. InRunCheck(m)'
      BY <1>4, <2>3, <3>1, <3>2 DEF InRunCheck, PairsCompared
    <3> QED
      BY <1>1, <1>2, <1>3, <2>3, <3>3
  <2> QED
    BY <2>1, <2>2, <2>3
<1>8. Place2(m)'
  <2>1. CASE pc' = AFTER_RUN_CHECK /\ console' = Runs(m)
    BY <1>5, <1>6, <2>1, Labels2 DEF Place2, Tasks2, LastTask
  <2>2. CASE pc' = EXIT_LOOP_RUNCHECK /\ console' = Squares(m) /\ AfterRunCheck(m)'
    BY <1>5, <1>6, <2>2, Labels2 DEF Place2, Tasks2, LastTask
  <2>3. CASE pc' = LOOP_RUNCHECK /\ console' = Squares(m) /\ InRunCheck(m)'
    BY <1>5, <1>6, <2>3, Labels2 DEF Place2, Tasks2, LastTask
  <2> QED
    BY <1>7, <2>1, <2>2, <2>3
<1> QED
  BY <1>5, <1>8 DEF TaskInv2

LEMMA PairOfRunCompared ==
  ASSUME TaskInv2, ComparePairOfRun
  PROVE  TaskInv2'
<1>0. PICK m : m = before.memory
  OBVIOUS
<1>1. /\ pc = LOOP_RUNCHECK /\ before' = before /\ stack' = stack /\ memory' = memory
      /\ console' = console /\ pc' = pc /\ regs.t1 < regs.t9
      /\ regs' = [regs EXCEPT
            !.t3 = IF memory.items[regs.t1 + 1] < memory.items[regs.t1] THEN regs.t3 + 1 ELSE regs.t3,
            !.t4 = IF memory.items[regs.t1] < memory.items[regs.t1 + 1] THEN regs.t4 + 1 ELSE regs.t4,
            !.t1 = regs.t1 + 1]
  BY DEF ComparePairOfRun
<1>2. /\ regs \in Registers2 /\ m \in Data2 /\ console \in Seq(Int) /\ Frame2 /\ Fits(m)
      /\ Written(m, memory.str) /\ memory.str = m.str /\ console = Squares(m) /\ InRunCheck(m)
  <2>1. pc \in Tasks2 /\ pc # LOOP /\ pc \notin LastTask
    BY <1>1, Labels2 DEF Tasks2, LastTask
  <2> QED
    BY <1>0, <1>1, <2>1, InTasks2 DEF Place2
<1>3. memory.items = m.items /\ m.length \in Nat /\ m.items \in [0 .. m.length - 1 -> Int]
  BY <1>2, MemoryFields2, DataFields2
<1>4. PICK i \in 0 .. m.length - 1, n \in Nat, k \in Nat : i = regs.t1 /\ n = regs.t3 /\ k = regs.t4
  BY <1>2 DEF InRunCheck, PairsCompared
<1>5. /\ regs.t9 = m.length - 1 /\ m.runCheck = 1
      /\ n = 0 <=> \A j \in 0 .. i - 1 : m.items[j] <= m.items[j + 1]
      /\ k = 0 <=> \A j \in 0 .. i - 1 : m.items[j] >= m.items[j + 1]
  BY <1>2, <1>4 DEF InRunCheck, PairsCompared
<1>6. i + 1 \in 0 .. m.length - 1 /\ i \in Int /\ i + 1 \in Int
  <2>1. i < m.length - 1
    BY <1>1, <1>4, <1>5
  <2> QED
    BY <1>3, <2>1, SMT
<1> DEFINE current == m.items[i]
           next == m.items[i + 1]
           n2 == IF next < current THEN n + 1 ELSE n
           k2 == IF current < next THEN k + 1 ELSE k
<1>7. current \in Int /\ next \in Int /\ n2 \in Nat /\ k2 \in Nat
  BY <1>3, <1>6, SMT
<1>8. regs' = [regs EXCEPT !.t3 = n2, !.t4 = k2, !.t1 = i + 1]
  BY <1>1, <1>3, <1>4
<1>9. /\ n2 = 0 <=> n = 0 /\ current <= next
      /\ k2 = 0 <=> k = 0 /\ current >= next
  BY <1>7, SMT
<1>10. \A j : j \in 0 .. (i + 1) - 1 <=> j \in 0 .. i - 1 \/ j = i
  BY <1>6, SMT
<1> HIDE DEF n2, k2
<1>11. /\ regs' \in Registers2 /\ regs'.t3 = n2 /\ regs'.t4 = k2 /\ regs'.t1 = i + 1
       /\ regs'.t9 = regs.t9
  <2>1. PICK u \in Int, v \in Int, w \in Int : u = n2 /\ v = k2 /\ w = i + 1
    BY <1>6, <1>7
  <2>2. regs' = [regs EXCEPT !.t3 = u, !.t4 = v, !.t1 = w]
    BY <1>8, <2>1
  <2>3. /\ regs' \in Registers2 /\ regs'.t3 = u /\ regs'.t4 = v /\ regs'.t1 = w
        /\ regs'.t9 = regs.t9
    BY <1>2, <2>2 DEF Registers2
  <2> QED
    BY <2>1, <2>3
<1>12. PairsCompared(m, i + 1)'
  <2>1. n2 = 0 <=> \A j \in 0 .. (i + 1) - 1 : m.items[j] <= m.items[j + 1]
    BY <1>5, <1>9, <1>10, Zenon
  <2>2. k2 = 0 <=> \A j \in 0 .. (i + 1) - 1 : m.items[j] >= m.items[j + 1]
    BY <1>5, <1>9, <1>10, Zenon
  <2> QED
    BY <1>7, <1>11, <2>1, <2>2, Zenon DEF PairsCompared
<1>13. InRunCheck(m)'
  BY <1>5, <1>6, <1>11, <1>12, Zenon DEF InRunCheck, PairsCompared
<1>14. Types2' /\ before'.memory = m /\ Frame2' /\ Written(m, memory.str)'
  BY <1>0, <1>1, <1>2, <1>11, StaysInTasks DEF Tasks2
<1>15. Fits(m)' /\ memory'.str = m.str /\ pc' = LOOP_RUNCHECK /\ console' = Squares(m)
  BY <1>1, <1>2 DEF Fits
<1>16. Place2(m)'
  BY <1>13, <1>14, <1>15, Labels2 DEF Place2, Tasks2, LastTask
<1> QED
  BY <1>14, <1>16 DEF TaskInv2

LEMMA AllPairsCompared ==
  ASSUME TaskInv2, RunCompared
  PROVE  TaskInv2'
<1>0. PICK m : m = before.memory
  OBVIOUS
<1>1. /\ pc = LOOP_RUNCHECK /\ before' = before /\ stack' = stack /\ memory' = memory
      /\ console' = console /\ pc' = EXIT_LOOP_RUNCHECK /\ regs.t1 >= regs.t9 /\ regs' = regs
  BY DEF RunCompared
<1>2. /\ regs \in Registers2 /\ m \in Data2 /\ console \in Seq(Int) /\ Frame2 /\ Fits(m)
      /\ Written(m, memory.str) /\ memory.str = m.str /\ console = Squares(m) /\ InRunCheck(m)
  <2>1. pc \in Tasks2 /\ pc # LOOP /\ pc \notin LastTask
    BY <1>1, Labels2 DEF Tasks2, LastTask
  <2> QED
    BY <1>0, <1>1, <2>1, InTasks2 DEF Place2
<1>3. regs.t1 = m.length - 1
  <2>1. PICK i \in 0 .. m.length - 1 : i = regs.t1 /\ i >= m.length - 1
    BY <1>1, <1>2 DEF InRunCheck
  <2>2. m.length \in Nat
    BY <1>2, DataFields2
  <2>3. i = m.length - 1
    BY <2>1, <2>2, SMT
  <2> QED
    BY <2>1, <2>3
<1>4. AfterRunCheck(m)'
  BY <1>1, <1>2, <1>3 DEF InRunCheck, AfterRunCheck, PairsCompared
<1>5. Types2' /\ before'.memory = m /\ Frame2' /\ Written(m, memory.str)'
  BY <1>0, <1>1, <1>2, StaysInTasks DEF Tasks2
<1>6. Fits(m)' /\ memory'.str = m.str /\ console' = Squares(m)
  BY <1>1, <1>2 DEF Fits
<1>7. Place2(m)'
  BY <1>1, <1>4, <1>5, <1>6, Labels2 DEF Place2, Tasks2, LastTask
<1> QED
  BY <1>5, <1>7 DEF TaskInv2

LEMMA NamesOfRuns ==
  /\ (<<ASCENDING>> \o <<DESCENDING>>) \o << >> = <<ASCENDING, DESCENDING>>
  /\ (<<ASCENDING>> \o << >>) \o << >> = <<ASCENDING>>
  /\ (<< >> \o <<DESCENDING>>) \o << >> = <<DESCENDING>>
  /\ (<< >> \o << >>) \o <<NEITHER>> = <<NEITHER>>
<1> DEFINE a == <<ASCENDING>>
           d == <<DESCENDING>>
           n == <<NEITHER>>
           ad == <<ASCENDING, DESCENDING>>
<1>1. /\ a \in Seq(Int) /\ d \in Seq(Int) /\ n \in Seq(Int) /\ ad \in Seq(Int) /\ << >> \in Seq(Int)
      /\ Len(a) = 1 /\ Len(d) = 1 /\ Len(ad) = 2 /\ a[1] = ad[1] /\ d[1] = ad[2]
  BY SMT DEF ASCENDING, DESCENDING, NEITHER
<1> HIDE DEF a, d, n, ad
<1>2. a \o d = ad
  <2>1. /\ Len(ad) = Len(a) + Len(d) /\ \A k \in 1 .. Len(a) : ad[k] = a[k]
        /\ \A k \in 1 .. Len(d) : ad[Len(a) + k] = d[k]
    BY <1>1, SMT
  <2> QED
    BY <1>1, <2>1, Joined
<1>3. /\ ad \o << >> = ad /\ a \o << >> = a /\ << >> \o d = d /\ d \o << >> = d
      /\ << >> \o << >> = << >> /\ << >> \o n = n
  BY <1>1, ConcatEmptySeq
<1>4. /\ (a \o d) \o << >> = ad /\ (a \o << >>) \o << >> = a /\ (<< >> \o d) \o << >> = d
      /\ (<< >> \o << >>) \o n = n
  BY <1>2, <1>3
<1> QED
  BY <1>4 DEF a, d, n, ad

LEMMA RunPrinted ==
  ASSUME TaskInv2, PrintRun
  PROVE  TaskInv2'
<1>0. PICK m : m = before.memory
  OBVIOUS
<1> DEFINE words == CASE regs.t3 = 0 /\ regs.t4 = 0 -> <<ASCENDING, DESCENDING>>
                      [] regs.t3 = 0 /\ regs.t4 # 0 -> <<ASCENDING>>
                      [] regs.t3 # 0 /\ regs.t4 = 0 -> <<DESCENDING>>
                      [] OTHER -> <<NEITHER>>
<1>1. /\ pc = EXIT_LOOP_RUNCHECK /\ before' = before /\ stack' = stack /\ memory' = memory
      /\ console' = console \o words /\ pc' = AFTER_RUN_CHECK /\ regs' = regs
  BY DEF PrintRun
<1>2. /\ regs \in Registers2 /\ m \in Data2 /\ console \in Seq(Int) /\ Frame2 /\ Fits(m)
      /\ Written(m, memory.str) /\ memory.str = m.str /\ console = Squares(m) /\ AfterRunCheck(m)
  <2>1. pc \in Tasks2 /\ pc # LOOP /\ pc \notin LastTask
    BY <1>1, Labels2 DEF Tasks2, LastTask
  <2> QED
    BY <1>0, <1>1, <2>1, InTasks2 DEF Place2
<1>3. m.runCheck = 1 /\ (regs.t3 = 0 <=> Ascends(m)) /\ (regs.t4 = 0 <=> Descends(m))
  <2>1. (m.length - 1) - 1 = m.length - 2
    BY <1>2, DataFields2, SMT
  <2> QED
    BY <1>2, <2>1 DEF AfterRunCheck, PairsCompared, Ascends, Descends
<1>4. words = RunPart(m)
  <2>1. CASE Ascends(m) /\ Descends(m)
    BY <1>3, <2>1, NamesOfRuns DEF RunPart
  <2>2. CASE Ascends(m) /\ ~ Descends(m)
    BY <1>3, <2>2, NamesOfRuns DEF RunPart
  <2>3. CASE ~ Ascends(m) /\ Descends(m)
    BY <1>3, <2>3, NamesOfRuns DEF RunPart
  <2>4. CASE ~ Ascends(m) /\ ~ Descends(m)
    BY <1>3, <2>4, NamesOfRuns DEF RunPart
  <2> QED
    BY <2>1, <2>2, <2>3, <2>4
<1> HIDE DEF words
<1>5. console' = Runs(m) /\ console' \in Seq(Int)
  BY <1>1, <1>2, <1>4, Parts2 DEF Runs
<1>6. Types2' /\ before'.memory = m /\ Frame2' /\ Written(m, memory.str)'
  BY <1>0, <1>1, <1>2, <1>5, StaysInTasks DEF Tasks2
<1>7. Fits(m)' /\ memory'.str = m.str
  BY <1>1, <1>2 DEF Fits
<1>8. Place2(m)'
  BY <1>1, <1>5, <1>6, <1>7, Labels2 DEF Place2, Tasks2, LastTask
<1> QED
  BY <1>6, <1>8 DEF TaskInv2

-----------------------------------------------------------------------------
(* The steps of the count of words. *)

LEMMA WordsCounted ==
  ASSUME NEW m \in Data2, NEW n \in 0 .. End(m)
  PROVE  /\ WordsBefore(m, 0) = {}
         /\ IsFiniteSet(WordsBefore(m, n)) /\ Cardinality(WordsBefore(m, n)) \in Nat
         /\ Cardinality(WordsBefore(m, n + 1))
              = Cardinality(WordsBefore(m, n)) + IF WordStarts(m, n) THEN 1 ELSE 0
         /\ WordsBefore(m, End(m)) = {i \in DOMAIN m.str : WordStarts(m, i)}
<1>0. n \in Int /\ 0 \in Int /\ n - 1 \in Int
  BY SMT
<1>1. WordsBefore(m, 0) = {}
  BY SMT DEF WordsBefore
<1>2. IsFiniteSet(WordsBefore(m, n))
  <2>1. IsFiniteSet(0 .. n - 1)
    BY <1>0, FS_Interval
  <2> QED
    BY <2>1, FS_Subset DEF WordsBefore
<1>3. Cardinality(WordsBefore(m, n)) \in Nat
  BY <1>2, FS_CardinalityType
<1>4. \A i : i \in 0 .. (n + 1) - 1 <=> i \in 0 .. n - 1 \/ i = n
  BY <1>0, SMT
<1>5. n \notin 0 .. n - 1
  BY <1>0, SMT
<1>6. ASSUME WordStarts(m, n)
      PROVE  Cardinality(WordsBefore(m, n + 1)) = Cardinality(WordsBefore(m, n)) + 1
  <2>1. WordsBefore(m, n + 1) = WordsBefore(m, n) \cup {n} /\ n \notin WordsBefore(m, n)
    BY <1>4, <1>5, <1>6 DEF WordsBefore
  <2>2. Cardinality(WordsBefore(m, n) \cup {n}) = Cardinality(WordsBefore(m, n)) + 1
    BY <1>2, <2>1, FS_AddElement
  <2> QED
    BY <1>6, <2>1, <2>2
<1>7. ASSUME ~ WordStarts(m, n)
      PROVE  Cardinality(WordsBefore(m, n + 1)) = Cardinality(WordsBefore(m, n)) + 0
  <2>1. WordsBefore(m, n + 1) = WordsBefore(m, n)
    BY <1>4, <1>7 DEF WordsBefore
  <2> QED
    BY <1>3, <1>7, <2>1
<1>8. WordsBefore(m, End(m)) = {i \in DOMAIN m.str : WordStarts(m, i)}
  <2>1. DOMAIN m.str = 0 .. End(m) /\ End(m) \in Nat /\ m.str[End(m)] = 0
    BY DataFields2, SMT
  <2>2. ~ WordStarts(m, End(m))
    BY <2>1 DEF WordStarts, InWord
  <2>3. \A i : i \in 0 .. End(m) <=> i \in 0 .. End(m) - 1 \/ i = End(m)
    BY <2>1, SMT
  <2> QED
    BY <2>1, <2>2, <2>3 DEF WordsBefore
<1> QED
  BY <1>1, <1>2, <1>3, <1>6, <1>7, <1>8

LEMMA CountStarts ==
  ASSUME TaskInv2, StartCount
  PROVE  TaskInv2'
<1>0. PICK m : m = before.memory
  OBVIOUS
<1>1. /\ pc = AFTER_RUN_CHECK /\ before' = before /\ stack' = stack /\ memory' = memory
      /\ console' = console /\ regs' = [regs EXCEPT !.t0 = 0, !.t2 = 0, !.t5 = 0]
      /\ pc' = IF memory.countWords = 1 THEN LOOP_COUNTWORDS ELSE AFTER_COUNT_WORDS
  BY DEF StartCount
<1>2. /\ regs \in Registers2 /\ m \in Data2 /\ console \in Seq(Int) /\ Frame2 /\ Fits(m)
      /\ Written(m, memory.str) /\ memory.str = m.str /\ console = Runs(m)
  <2>1. pc \in Tasks2 /\ pc # LOOP /\ pc \notin LastTask
    BY <1>1, Labels2 DEF Tasks2, LastTask
  <2> QED
    BY <1>0, <1>1, <2>1, InTasks2 DEF Place2
<1>3. memory.countWords = m.countWords /\ Runs(m) \in Seq(Int) /\ End(m) \in Nat
  BY <1>2, MemoryFields2, Parts2, DataFields2
<1>4. regs' \in Registers2 /\ regs'.t0 = 0 /\ regs'.t2 = 0 /\ regs'.t5 = 0
  <2>1. PICK zero \in Int : zero = 0
    OBVIOUS
  <2>2. regs' = [regs EXCEPT !.t0 = zero, !.t2 = zero, !.t5 = zero]
    BY <1>1, <2>1
  <2>3. regs' \in Registers2 /\ regs'.t0 = zero /\ regs'.t2 = zero /\ regs'.t5 = zero
    BY <1>2, <2>2 DEF Registers2
  <2> QED
    BY <2>1, <2>3
<1>5. Types2' /\ before'.memory = m /\ Frame2' /\ Written(m, memory.str)'
  BY <1>0, <1>1, <1>2, <1>4, StaysInTasks DEF Tasks2
<1>6. Fits(m)' /\ memory'.str = m.str
  BY <1>1, <1>2 DEF Fits
<1>7. \/ pc' = LOOP_COUNTWORDS /\ console' = Runs(m) /\ InCount(m)'
      \/ pc' = AFTER_COUNT_WORDS /\ console' = All(m)
  <2>1. CASE m.countWords = 1
    <3>1. 0 \in 0 .. End(m) /\ ~ 0 > 0
      BY <1>3, SMT
    <3>2. Cardinality(WordsBefore(m, 0)) = 0
      BY <1>2, <3>1, WordsCounted, FS_EmptySet
    <3>3. InCount(m)'
      BY <1>4, <2>1, <3>1, <3>2, Zenon DEF InCount
    <3> QED
      BY <1>1, <1>2, <1>3, <2>1, <3>3
  <2>2. CASE m.countWords # 1
    <3>1. Runs(m) \o << >> = Runs(m)
      BY <1>3, ConcatEmptySeq
    <3> QED
      BY <1>1, <1>2, <1>3, <2>2, <3>1 DEF All, CountPart
  <2> QED
    BY <2>1, <2>2
<1>8. Place2(m)'
  <2>1. CASE pc' = LOOP_COUNTWORDS /\ console' = Runs(m) /\ InCount(m)'
    BY <1>5, <1>6, <2>1, Labels2 DEF Place2, Tasks2, LastTask
  <2>2. CASE pc' = AFTER_COUNT_WORDS /\ console' = All(m)
    BY <1>5, <1>6, <2>2, Labels2 DEF Place2, Tasks2, LastTask
  <2> QED
    BY <1>7, <2>1, <2>2
<1> QED
  BY <1>5, <1>8 DEF TaskInv2

LEMMA ByteCounted ==
  ASSUME TaskInv2, CountByte
  PROVE  TaskInv2'
<1>0. PICK m : m = before.memory
  OBVIOUS
<1>1. /\ pc = LOOP_COUNTWORDS /\ before' = before /\ stack' = stack /\ memory' = memory
      /\ console' = console /\ pc' = pc /\ memory.str[regs.t2] # 0
      /\ regs' = IF memory.str[regs.t2] \in {Space, Newline}
                 THEN [regs EXCEPT !.t5 = 0, !.t2 = regs.t2 + 1]
                 ELSE [regs EXCEPT !.t0 = IF regs.t5 = 0 THEN regs.t0 + 1 ELSE regs.t0,
                                   !.t5 = 1, !.t2 = regs.t2 + 1]
  BY DEF CountByte
<1>2. /\ regs \in Registers2 /\ m \in Data2 /\ console \in Seq(Int) /\ Frame2 /\ Fits(m)
      /\ Written(m, memory.str) /\ memory.str = m.str /\ console = Runs(m) /\ InCount(m)
  <2>1. pc \in Tasks2 /\ pc # LOOP /\ pc \notin LastTask
    BY <1>1, Labels2 DEF Tasks2, LastTask
  <2> QED
    BY <1>0, <1>1, <2>1, InTasks2 DEF Place2
<1>3. PICK n \in 0 .. End(m) : n = regs.t2
  BY <1>2 DEF InCount
<1>4. /\ m.countWords = 1 /\ regs.t0 = Cardinality(WordsBefore(m, n))
      /\ regs.t5 = IF n > 0 /\ InWord(m, n - 1) THEN 1 ELSE 0
  BY <1>2, <1>3 DEF InCount
<1>5. /\ Cardinality(WordsBefore(m, n)) \in Nat
      /\ Cardinality(WordsBefore(m, n + 1))
           = Cardinality(WordsBefore(m, n)) + IF WordStarts(m, n) THEN 1 ELSE 0
  BY <1>2, WordsCounted
<1>6. m.str[n] # 0 /\ n + 1 \in 0 .. End(m) /\ n + 1 > 0 /\ (n + 1) - 1 = n /\ n \in Int /\ n + 1 \in Int
      /\ (n = 0 \/ n > 0)
  <2>1. m.str[n] # 0
    BY <1>1, <1>2, <1>3
  <2>2. n # End(m) /\ End(m) \in Nat
    BY <1>2, <2>1, DataFields2
  <2> QED
    BY <2>1, <2>2, SMT
<1>7. regs.t5 = 0 <=> n = 0 \/ ~ InWord(m, n - 1)
  BY <1>4, <1>6, SMT
<1>8. InWord(m, n) <=> m.str[n] \notin {Space, Newline}
  BY <1>6 DEF InWord
<1> DEFINE count == Cardinality(WordsBefore(m, n + 1))
<1>9. PICK c \in Int, u \in Int, one \in Int, zero \in Int : c = count /\ u = n + 1 /\ one = 1 /\ zero = 0
  <2>1. count \in Int
    BY <1>5
  <2> QED
    BY <1>6, <2>1
<1>10. /\ regs' \in Registers2 /\ regs'.t2 = n + 1 /\ regs'.t0 = count
       /\ regs'.t5 = IF InWord(m, n) THEN 1 ELSE 0
  <2>1. CASE m.str[n] \in {Space, Newline}
    <3>1. regs' = [regs EXCEPT !.t5 = zero, !.t2 = u]
      BY <1>1, <1>2, <1>3, <1>9, <2>1
    <3>2. regs' \in Registers2 /\ regs'.t2 = u /\ regs'.t0 = regs.t0 /\ regs'.t5 = zero
      BY <1>2, <3>1 DEF Registers2
    <3>3. ~ InWord(m, n) /\ count = regs.t0
      BY <1>4, <1>5, <1>8, <2>1 DEF WordStarts
    <3> QED
      BY <1>9, <3>2, <3>3
  <2>2. CASE m.str[n] \notin {Space, Newline}
    <3>1. InWord(m, n) /\ (WordStarts(m, n) <=> regs.t5 = 0)
      BY <1>7, <1>8, <2>2 DEF WordStarts
    <3>2. c = IF regs.t5 = 0 THEN regs.t0 + 1 ELSE regs.t0
      BY <1>4, <1>5, <1>9, <3>1, SMT
    <3>3. regs' = [regs EXCEPT !.t0 = c, !.t5 = one, !.t2 = u]
      BY <1>1, <1>2, <1>3, <1>9, <2>2, <3>2
    <3>4. regs' \in Registers2 /\ regs'.t2 = u /\ regs'.t0 = c /\ regs'.t5 = one
      BY <1>2, <3>3 DEF Registers2
    <3> QED
      BY <1>9, <3>1, <3>4
  <2> QED
    BY <2>1, <2>2
<1>11. InCount(m)'
  BY <1>4, <1>6, <1>10, Zenon DEF InCount
<1>12. Types2' /\ before'.memory = m /\ Frame2' /\ Written(m, memory.str)'
  BY <1>0, <1>1, <1>2, <1>10, StaysInTasks DEF Tasks2
<1>13. Fits(m)' /\ memory'.str = m.str /\ pc' = LOOP_COUNTWORDS /\ console' = Runs(m)
  BY <1>1, <1>2 DEF Fits
<1>14. Place2(m)'
  BY <1>11, <1>12, <1>13, Labels2 DEF Place2, Tasks2, LastTask
<1> QED
  BY <1>12, <1>14 DEF TaskInv2

LEMMA CountPrinted ==
  ASSUME TaskInv2, PrintCount
  PROVE  TaskInv2'
<1>0. PICK m : m = before.memory
  OBVIOUS
<1>1. /\ pc = LOOP_COUNTWORDS /\ before' = before /\ stack' = stack /\ memory' = memory
      /\ console' = Append(console, regs.t0) /\ pc' = AFTER_COUNT_WORDS /\ regs' = regs
      /\ memory.str[regs.t2] = 0
  BY DEF PrintCount
<1>2. /\ regs \in Registers2 /\ m \in Data2 /\ console \in Seq(Int) /\ Frame2 /\ Fits(m)
      /\ Written(m, memory.str) /\ memory.str = m.str /\ console = Runs(m) /\ InCount(m)
  <2>1. pc \in Tasks2 /\ pc # LOOP /\ pc \notin LastTask
    BY <1>1, Labels2 DEF Tasks2, LastTask
  <2> QED
    BY <1>0, <1>1, <2>1, InTasks2 DEF Place2
<1>3. regs.t2 = End(m) /\ regs.t0 = Cardinality(WordsBefore(m, End(m))) /\ m.countWords = 1
  BY <1>1, <1>2, DataFields2 DEF InCount
<1>4. End(m) \in 0 .. End(m)
  BY <1>2, DataFields2, SMT
<1>5. WordsBefore(m, End(m)) = {i \in DOMAIN m.str : WordStarts(m, i)}
  BY <1>2, <1>4, WordsCounted
<1>6. CountPart(m) = <<regs.t0>>
  BY <1>3, <1>5 DEF CountPart
<1>7. console' = All(m) /\ console' \in Seq(Int)
  <2>1. regs.t0 \in Int
    BY <1>2, Fields2
  <2>2. console' = console \o <<regs.t0>>
    BY <1>1, <1>2, <2>1, WordAppended
  <2> QED
    BY <1>2, <1>6, <2>2, Parts2 DEF All
<1>8. Types2' /\ before'.memory = m /\ Frame2' /\ Written(m, memory.str)'
  BY <1>0, <1>1, <1>2, <1>7, StaysInTasks DEF Tasks2
<1>9. Fits(m)' /\ memory'.str = m.str
  BY <1>1, <1>2 DEF Fits
<1>10. Place2(m)'
  BY <1>1, <1>7, <1>8, <1>9, Labels2 DEF Place2, Tasks2, LastTask
<1> QED
  BY <1>8, <1>10 DEF TaskInv2

-----------------------------------------------------------------------------
(* The steps of the reversal. *)

LEMMA Swaps ==
  ASSUME NEW m \in Data2
  PROVE  /\ Swapped(m, 0) = m.str
         /\ \A k \in Nat : LET tail == End(m) - 1 - k
                           IN  /\ k < tail => \A s : s = Swapped(m, k) =>
                                    Swapped(m, k + 1) = [s EXCEPT ![k] = s[tail], ![tail] = s[k]]
                               /\ k >= tail /\ k <= tail + 1 => Swapped(m, k) = Reversed(m)
<1> DEFINE e == End(m)
           S(k) == Swapped(m, k)
<1>1. e \in Nat /\ m.str \in [0 .. e -> Int] /\ m.str[e] = 0
  <2>1. e \in Nat /\ e \in 0 .. e
    BY DataFields2, SMT
  <2> QED
    BY <2>1, DataFields2
<1>2. \A k : S(k) = [i \in 0 .. e |-> IF i < e /\ (i < k \/ e - 1 - i < k)
                                      THEN m.str[e - 1 - i] ELSE m.str[i]]
  BY DEF Swapped
<1>3. Reversed(m) = [i \in 0 .. e |-> IF i <= e - 1 THEN m.str[e - 1 - i] ELSE 0]
  BY DEF Reversed
<1> HIDE DEF e, S
<1>4. S(0) = m.str
  <2>1. \A i \in 0 .. e : ~ (i < e /\ (i < 0 \/ e - 1 - i < 0))
    BY <1>1, SMT
  <2>2. S(0) = [i \in 0 .. e |-> m.str[i]]
    BY <1>2, <2>1
  <2> QED
    BY <1>1, <2>2
<1>5. ASSUME NEW k \in Nat, NEW tail, tail = e - 1 - k
      PROVE  /\ k < tail => \A s : s = S(k) => S(k + 1) = [s EXCEPT ![k] = s[tail], ![tail] = s[k]]
             /\ k >= tail /\ k <= tail + 1 => S(k) = Reversed(m)
  <2>1. ASSUME k < tail, NEW s, s = S(k)
        PROVE  S(k + 1) = [s EXCEPT ![k] = s[tail], ![tail] = s[k]]
    <3>1. /\ k \in 0 .. e /\ tail \in 0 .. e /\ k < e /\ tail < e /\ k # tail
          /\ e - 1 - tail = k /\ ~ tail < k /\ ~ k < k
      BY <1>1, <1>5, <2>1, SMT
    <3>2. s[k] = m.str[k] /\ s[tail] = m.str[tail]
      BY <1>2, <1>5, <2>1, <3>1
    <3> DEFINE t == [s EXCEPT ![k] = s[tail], ![tail] = s[k]]
    <3>3. /\ DOMAIN s = 0 .. e
          /\ t = [i \in 0 .. e |-> IF i = tail THEN s[k] ELSE IF i = k THEN s[tail] ELSE s[i]]
      <4>1. DOMAIN s = 0 .. e
        BY <1>2, <2>1
      <4>2. PICK a, b, D : a = s[tail] /\ b = s[k] /\ D = 0 .. e
        OBVIOUS
      <4>3. t = [i \in D |-> IF i = tail THEN b ELSE IF i = k THEN a ELSE s[i]]
        <5>1. DOMAIN s = D /\ k \in D /\ tail \in D
          BY <3>1, <4>1, <4>2
        <5>2. [s EXCEPT ![k] = a, ![tail] = b]
                = [i \in D |-> IF i = tail THEN b ELSE IF i = k THEN a ELSE s[i]]
          BY <3>1, <5>1
        <5> QED
          BY <4>2, <5>2
      <4> QED
        BY <4>1, <4>2, <4>3
    <3> HIDE DEF t
    <3>4. ASSUME NEW i \in 0 .. e
          PROVE  t[i] = S(k + 1)[i]
      <4>1. CASE i = tail
        <5>1. i < e /\ e - 1 - i < k + 1 /\ e - 1 - i = k
          BY <3>1, <4>1, SMT
        <5> QED
          BY <1>2, <3>2, <3>3, <4>1, <5>1
      <4>2. CASE i = k
        <5>1. i < e /\ i < k + 1 /\ e - 1 - i = tail
          BY <1>5, <3>1, <4>2, SMT
        <5> QED
          BY <1>2, <3>1, <3>2, <3>3, <4>2, <5>1
      <4>3. CASE i # tail /\ i # k
        <5>1. i < e /\ (i < k + 1 \/ e - 1 - i < k + 1) <=> i < e /\ (i < k \/ e - 1 - i < k)
          BY <1>1, <1>5, <4>3, SMT
        <5>2. S(k + 1)[i] = s[i]
          BY <1>2, <2>1, <5>1
        <5> QED
          BY <3>3, <4>3, <5>2
      <4> QED
        BY <4>1, <4>2, <4>3
    <3>5. t = S(k + 1)
      BY <1>2, <3>3, <3>4
    <3> QED
      BY <3>5 DEF t
  <2>2. ASSUME k >= tail, k <= tail + 1
        PROVE  S(k) = Reversed(m)
    <3>1. ASSUME NEW i \in 0 .. e
          PROVE  S(k)[i] = Reversed(m)[i]
      <4>1. CASE i < e /\ (i < k \/ e - 1 - i < k)
        <5>1. i <= e - 1
          BY <1>1, <4>1, SMT
        <5> QED
          BY <1>2, <1>3, <4>1, <5>1
      <4>2. CASE i < e /\ ~ (i < k \/ e - 1 - i < k)
        <5>1. i <= e - 1 /\ e - 1 - i = i
          BY <1>1, <1>5, <2>2, <4>2, SMT
        <5> QED
          BY <1>2, <1>3, <4>2, <5>1
      <4>3. CASE ~ i < e
        <5>1. i = e /\ ~ i <= e - 1
          BY <1>1, <4>3, SMT
        <5> QED
          BY <1>1, <1>2, <1>3, <4>3, <5>1
      <4> QED
        BY <4>1, <4>2, <4>3
    <3> QED
      BY <1>2, <1>3, <3>1
  <2> QED
    BY <2>1, <2>2
<1> QED
  BY <1>4, <1>5 DEF e, S

LEMMA ReversalStarts ==
  ASSUME TaskInv2, StartReverse \/ FindTail
  PROVE  TaskInv2'
<1>0. PICK m : m = before.memory
  OBVIOUS
<1>1. /\ pc \in {AFTER_COUNT_WORDS, LOOP_FIND_TAIL} /\ before' = before /\ stack' = stack
      /\ memory' = memory /\ console' = console
  BY DEF StartReverse, FindTail
<1>2. /\ regs \in Registers2 /\ m \in Data2 /\ console \in Seq(Int) /\ Frame2 /\ Fits(m)
      /\ Written(m, memory.str) /\ memory.str = m.str /\ console = All(m)
      /\ pc = LOOP_FIND_TAIL => FindsTail(m)
  <2>1. pc \in Tasks2 /\ pc # LOOP /\ (pc = LOOP_FIND_TAIL => pc \in LastTask)
    BY <1>1, Labels2 DEF Tasks2, LastTask
  <2>2. /\ regs \in Registers2 /\ m \in Data2 /\ console \in Seq(Int) /\ Frame2 /\ Fits(m)
        /\ Written(m, memory.str) /\ Place2(m)
    BY <1>0, <2>1, InTasks2
  <2>3. pc = LOOP_FIND_TAIL => FindsTail(m)
    BY <2>2 DEF Place2
  <2>4. memory.str = m.str
    BY <1>1, <2>2, <2>3 DEF Place2, FindsTail
  <2>5. console = All(m)
    BY <1>1, <2>1, <2>2 DEF Place2
  <2> QED
    BY <2>2, <2>3, <2>4, <2>5
<1>3. memory.revString = m.revString /\ End(m) \in Nat
  BY <1>2, MemoryFields2, DataFields2
<1>4. /\ regs' \in Registers2
      /\ (pc' = LOOP_FIND_TAIL /\ FindsTail(m)') \/ (pc' = AFTER_REVSTRING /\ m.revString # 1)
  <2>1. CASE StartReverse /\ m.revString # 1
    BY <1>2, <1>3, <2>1 DEF StartReverse
  <2>2. CASE StartReverse /\ m.revString = 1
    <3>1. PICK zero \in Int : zero = 0
      OBVIOUS
    <3>2. pc' = LOOP_FIND_TAIL /\ regs' = [regs EXCEPT !.t1 = zero, !.t2 = zero]
      BY <1>3, <2>2, <3>1 DEF StartReverse
    <3>3. regs' \in Registers2 /\ regs'.t1 = zero /\ regs'.t2 = zero
      BY <1>2, <3>2 DEF Registers2
    <3>4. 0 \in 0 .. End(m)
      BY <1>3, SMT
    <3>5. FindsTail(m)'
      BY <1>1, <1>2, <2>2, <3>1, <3>3, <3>4 DEF FindsTail, End
    <3> QED
      BY <3>2, <3>3, <3>5
  <2>3. CASE FindTail
    <3>1. /\ pc = LOOP_FIND_TAIL /\ pc' = pc /\ memory.str[regs.t2] # 0
          /\ regs' = [regs EXCEPT !.t2 = regs.t2 + 1]
      BY <2>3 DEF FindTail
    <3>2. m.revString = 1 /\ regs.t1 = 0 /\ regs.t2 \in 0 .. End(m)
      BY <1>2, <3>1 DEF FindsTail
    <3>3. PICK n \in 0 .. End(m), u \in Int : n = regs.t2 /\ u = n + 1
      <4>1. \A n \in 0 .. End(m) : n + 1 \in Int
        BY SMT
      <4> QED
        BY <3>2, <4>1
    <3>4. u \in 0 .. End(m)
      <4>1. n # End(m)
        BY <1>2, <3>1, <3>3, DataFields2
      <4> QED
        BY <1>3, <3>3, <4>1, SMT
    <3>5. regs' = [regs EXCEPT !.t2 = u]
      BY <3>1, <3>3
    <3>6. regs' \in Registers2 /\ regs'.t1 = regs.t1 /\ regs'.t2 = u
      BY <1>2, <3>5 DEF Registers2
    <3>7. FindsTail(m)'
      BY <1>1, <1>2, <3>2, <3>4, <3>6 DEF FindsTail, End
    <3> QED
      BY <3>1, <3>6, <3>7
  <2> QED
    BY <1>1, <2>1, <2>2, <2>3
<1>5. Types2' /\ before'.memory = m /\ Frame2' /\ Written(m, memory.str)'
  BY <1>0, <1>1, <1>2, <1>4, StaysInTasks DEF Tasks2
<1>6. Fits(m)' /\ memory'.str = m.str /\ console' = All(m)
  BY <1>1, <1>2 DEF Fits
<1>7. Place2(m)'
  BY <1>4, <1>5, <1>6, Labels2 DEF Place2, Tasks2, LastTask
<1> QED
  BY <1>5, <1>7 DEF TaskInv2

LEMMA TailIsFound ==
  ASSUME TaskInv2, TailFound
  PROVE  TaskInv2'
<1>0. PICK m : m = before.memory
  OBVIOUS
<1>1. /\ pc = LOOP_FIND_TAIL /\ before' = before /\ stack' = stack /\ memory' = memory
      /\ console' = console /\ pc' = LOOP_SWAP_CHARS /\ memory.str[regs.t2] = 0
      /\ regs' = [regs EXCEPT !.t2 = regs.t2 - 1]
  BY DEF TailFound, LastCharacter
<1>2. /\ regs \in Registers2 /\ m \in Data2 /\ console \in Seq(Int) /\ Frame2 /\ Fits(m)
      /\ Written(m, memory.str) /\ console = All(m) /\ FindsTail(m)
  <2>1. pc \in Tasks2 /\ pc # LOOP /\ pc \in LastTask
    BY <1>1, Labels2 DEF Tasks2, LastTask
  <2> QED
    BY <1>0, <1>1, <2>1, InTasks2 DEF Place2
<1>3. /\ m.revString = 1 /\ regs.t1 = 0 /\ memory.str = m.str /\ End(m) \in Nat
      /\ regs.t2 = End(m)
  BY <1>1, <1>2, DataFields2 DEF FindsTail
<1>4. regs' \in Registers2 /\ regs'.t1 = 0 /\ regs'.t2 = End(m) - 1
  <2>1. PICK u \in Int : u = End(m) - 1
    <3>1. End(m) - 1 \in Int
      BY <1>3, SMT
    <3> QED
      BY <3>1
  <2>2. regs' = [regs EXCEPT !.t2 = u]
    BY <1>1, <1>3, <2>1
  <2>3. regs' \in Registers2 /\ regs'.t1 = regs.t1 /\ regs'.t2 = u
    BY <1>2, <2>2 DEF Registers2
  <2> QED
    BY <1>3, <2>1, <2>3
<1>5. Exchanges(m)'
  <2>1. memory'.str = Swapped(m, 0)
    BY <1>1, <1>2, <1>3, Swaps
  <2>2. 0 \in Nat /\ End(m) - 1 = End(m) - 1 - 0 /\ 0 <= (End(m) - 1) + 1
    BY <1>3, SMT
  <2> QED
    BY <1>3, <1>4, <2>1, <2>2 DEF Exchanges, End, Swapped
<1>6. Types2' /\ before'.memory = m /\ Frame2' /\ Written(m, memory.str)'
  BY <1>0, <1>1, <1>2, <1>4, StaysInTasks DEF Tasks2
<1>7. Fits(m)' /\ console' = All(m)
  BY <1>1, <1>2 DEF Fits
<1>8. Place2(m)'
  BY <1>1, <1>5, <1>6, <1>7, Labels2 DEF Place2, Tasks2, LastTask
<1> QED
  BY <1>6, <1>8 DEF TaskInv2

LEMMA CharactersSwapped ==
  ASSUME TaskInv2, SwapCharacters
  PROVE  TaskInv2'
<1>0. PICK m : m = before.memory
  OBVIOUS
<1>1. /\ pc = LOOP_SWAP_CHARS /\ before' = before /\ stack' = stack /\ console' = console
      /\ pc' = LOOP_SWAP_CHARS /\ regs.t1 < regs.t2
      /\ memory' = [memory EXCEPT !.str[regs.t1] = memory.str[regs.t2],
                                  !.str[regs.t2] = memory.str[regs.t1]]
      /\ regs' = [regs EXCEPT !.t1 = regs.t1 + 1, !.t2 = regs.t2 - 1]
  BY DEF SwapCharacters
<1>2. /\ regs \in Registers2 /\ m \in Data2 /\ console \in Seq(Int) /\ Frame2 /\ Fits(m)
      /\ memory.lr \in Int /\ memory.mid \in Int /\ before.regs.fp \in Int
      /\ Written(m, memory.str) /\ console = All(m) /\ Exchanges(m)
  <2>1. pc \in Tasks2 /\ pc # LOOP /\ pc \in LastTask
    BY <1>1, Labels2 DEF Tasks2, LastTask
  <2> QED
    BY <1>0, <1>1, <2>1, InTasks2 DEF Place2
<1>3. PICK k \in Nat, tail \in Int, e \in Nat :
        k = regs.t1 /\ tail = regs.t2 /\ e = End(m) /\ tail = e - 1 - k /\ k <= tail + 1
  BY <1>2, DataFields2, Fields2 DEF Exchanges
<1>4. /\ m.revString = 1 /\ memory.str = Swapped(m, k) /\ k < tail
  BY <1>1, <1>2, <1>3 DEF Exchanges
<1>5. PICK u \in Int, v \in Int :
        u = k + 1 /\ v = tail - 1 /\ u \in Nat /\ v = e - 1 - u /\ u <= v + 1
  <2>1. k + 1 \in Int /\ tail - 1 \in Int /\ k + 1 \in Nat /\ tail - 1 = e - 1 - (k + 1)
        /\ k + 1 <= (tail - 1) + 1
    BY <1>3, <1>4, SMT
  <2> QED
    BY <2>1
<1>6. regs' \in Registers2 /\ regs'.t1 = u /\ regs'.t2 = v
  <2>1. regs' = [regs EXCEPT !.t1 = u, !.t2 = v]
    BY <1>1, <1>3, <1>5
  <2> QED
    BY <1>2, <2>1 DEF Registers2
<1>7. PICK s : s = Swapped(m, k)
  OBVIOUS
<1>8. Swapped(m, u) = [s EXCEPT ![k] = s[tail], ![tail] = s[k]]
  <2>1. \A k0 \in Nat : LET t == End(m) - 1 - k0
                        IN  k0 < t => \A s0 : s0 = Swapped(m, k0) =>
                              Swapped(m, k0 + 1) = [s0 EXCEPT ![k0] = s0[t], ![t] = s0[k0]]
    BY <1>2, Swaps, Zenon
  <2>2. End(m) - 1 - k = tail /\ k + 1 = u
    BY <1>3, <1>5
  <2> QED
    BY <1>4, <1>7, <2>1, <2>2, Zenon
<1>9. memory'.str = Swapped(m, u) /\ memory'.lr \in Int /\ memory'.mid \in Int
      /\ Written(m, memory.str)'
  <2>1. PICK a \in Int, b \in Int : /\ a = memory.lr /\ b = memory.mid
                                    /\ memory = [m EXCEPT !.str = s, !.lr = a, !.mid = b]
    BY <1>2, <1>4, <1>7 DEF Written
  <2>2. k # tail
    BY <1>3, <1>4, SMT
  <2>3. PICK x, y : x = s[tail] /\ y = s[k]
    OBVIOUS
  <2>4. memory' = [memory EXCEPT !.str[k] = x, !.str[tail] = y]
    BY <1>1, <1>3, <1>4, <1>7, <2>3
  <2>5. PICK t : t = [s EXCEPT ![k] = x, ![tail] = y]
    OBVIOUS
  <2>6. memory.str = s /\ DOMAIN memory = DOMAIN m /\ "str" \in DOMAIN memory
    BY <1>2, <1>4, <1>7, <2>1 DEF Data2
  <2>7. memory' = [memory EXCEPT !.str = t]
    BY <2>4, <2>5, <2>6
  <2>8. memory' = [m EXCEPT !.str = t, !.lr = a, !.mid = b] /\ memory'.str = t
        /\ memory'.lr = a /\ memory'.mid = b
    BY <1>2, <2>1, <2>7 DEF Data2
  <2>9. t = Swapped(m, u)
    BY <1>8, <2>3, <2>5
  <2> QED
    BY <2>8, <2>9 DEF Written
<1>10. Exchanges(m)'
  BY <1>3, <1>4, <1>5, <1>6, <1>9 DEF Exchanges, End, Swapped
<1>11. Types2' /\ before'.memory = m
  BY <1>0, <1>1, <1>2, <1>6, <1>9 DEF Types2
<1>12. Frame2' /\ Fits(m)' /\ console' = All(m)
  BY <1>1, <1>2 DEF Frame2, Fits, Caller, Line, Junk
<1>13. Place2(m)'
  BY <1>1, <1>9, <1>10, <1>12, Labels2 DEF Place2, Tasks2, LastTask
<1> QED
  BY <1>11, <1>13 DEF TaskInv2

LEMMA AllSwapped ==
  ASSUME TaskInv2, SwapDone
  PROVE  TaskInv2'
<1>0. PICK m : m = before.memory
  OBVIOUS
<1>1. /\ pc = LOOP_SWAP_CHARS /\ before' = before /\ stack' = stack /\ console' = console
      /\ pc' = AFTER_REVSTRING /\ regs.t1 >= regs.t2 /\ memory' = memory /\ regs' = regs
  BY DEF SwapDone
<1>2. /\ regs \in Registers2 /\ m \in Data2 /\ console \in Seq(Int) /\ Frame2 /\ Fits(m)
      /\ Written(m, memory.str) /\ console = All(m) /\ Exchanges(m)
  <2>1. pc \in Tasks2 /\ pc # LOOP /\ pc \in LastTask
    BY <1>1, Labels2 DEF Tasks2, LastTask
  <2> QED
    BY <1>0, <1>1, <2>1, InTasks2 DEF Place2
<1>3. m.revString = 1 /\ memory.str = Reversed(m)
  BY <1>1, <1>2, Swaps DEF Exchanges
<1>4. Types2' /\ before'.memory = m /\ Frame2' /\ Written(m, memory.str)'
  BY <1>0, <1>1, <1>2, Labels2, StaysInTasks DEF Tasks2
<1>5. /\ Fits(m)' /\ console' = All(m)
      /\ memory'.str = IF m.revString = 1 THEN Reversed(m) ELSE m.str
  BY <1>1, <1>2, <1>3 DEF Fits
<1>6. Place2(m)'
  BY <1>1, <1>4, <1>5, Labels2 DEF Place2, Tasks2, LastTask
<1> QED
  BY <1>4, <1>6 DEF TaskInv2

LEMMA StudentMain2Ends ==
  ASSUME TaskInv2, StudentMain2Returns
  PROVE  TaskInv2'
<1>0. PICK m : m = before.memory
  OBVIOUS
<1>1. /\ pc = AFTER_REVSTRING /\ pc' = regs'.ra
      /\ regs' = [regs EXCEPT !.ra = AtSP(4), !.fp = AtSP(0)] /\ stack' = Popped(24)
      /\ before' = before /\ memory' = memory /\ console' = console
  BY DEF StudentMain2Returns, JrRa
<1>2. /\ regs \in Registers2 /\ m \in Data2 /\ console \in Seq(Int) /\ Frame2 /\ Fits(m)
      /\ memory.lr \in Int /\ memory.mid \in Int /\ before.regs.fp \in Int
      /\ Written(m, memory.str) /\ console = All(m) /\ Place2(m)
  <2>1. pc \in Tasks2 /\ pc # LOOP /\ pc \in LastTask
    BY <1>1, Labels2 DEF Tasks2, LastTask
  <2> QED
    BY <1>0, <1>1, <2>1, InTasks2 DEF Place2
<1>3. memory.str = IF m.revString = 1 THEN Reversed(m) ELSE m.str
  BY <1>1, <1>2, Labels2 DEF Place2
<1>4. /\ stack[1] = before.regs.fp /\ stack[2] = Caller(2) /\ Len(stack) = 6
  BY <1>2 DEF Frame2
<1>5. stack' = << >>
  <2>1. Popped(24) = SubSeq(stack, 6 + 1, Len(stack)) /\ 6 \in Nat
    BY SMT DEF Popped
  <2> QED
    BY <1>1, <1>4, <2>1, RemovedAll
<1>6. /\ regs' \in Registers2 /\ regs'.ra = Caller(2) /\ regs'.fp = before.regs.fp
  <2>1. PICK u \in Int, v \in Int : u = Caller(2) /\ v = before.regs.fp
    <3>1. Caller(2) \in Int
      BY Labels2
    <3>2. before.regs.fp \in Int
      BY <1>2
    <3> QED
      BY <3>1, <3>2
  <2>2. regs' = [regs EXCEPT !.ra = u, !.fp = v]
    <3>1. AtSP(0) = v /\ AtSP(4) = u
      BY <1>4, <2>1, Offsets
    <3> QED
      BY <1>1, <3>1
  <2>3. regs' \in Registers2 /\ regs'.ra = u /\ regs'.fp = v
    BY <1>2, <2>2 DEF Registers2
  <2> QED
    BY <2>1, <2>3
<1>7. Types2' /\ before'.memory = m
  BY <1>0, <1>1, <1>2, <1>6 DEF Types2
<1>8. /\ pc' = Caller(2) /\ console' = All(m) /\ regs'.fp = before'.regs.fp /\ Fits(m)'
      /\ Written(m, memory.str)'
      /\ memory'.str = IF m.revString = 1 THEN Reversed(m) ELSE m.str
  BY <1>1, <1>2, <1>3, <1>6 DEF Fits, Written
<1>9. Place2(m)'
  BY <1>5, <1>8, Labels2 DEF Place2, Tasks2, LastTask
<1> QED
  BY <1>7, <1>9 DEF TaskInv2

-----------------------------------------------------------------------------
(* All steps, and what the invariant says at the return. *)

LEMMA TasksStep2 ==
  ASSUME TaskInv2, [CodeAsm2]_call
  PROVE  TaskInv2'
<1>1. CASE UNCHANGED call
  <2>1. /\ pc' = pc /\ regs' = regs /\ stack' = stack /\ before' = before
        /\ memory' = memory /\ console' = console
    BY <1>1 DEF call, machine
  <2>2. PICK m : m = before.memory /\ Place2(m)
    BY DEF TaskInv2
  <2>3. /\ Frame2' = Frame2 /\ Written(m, memory.str)' = Written(m, memory.str)
        /\ InFibonacci(m)' = InFibonacci(m) /\ BetweenRows(m)' = BetweenRows(m)
        /\ InRow(m)' = InRow(m) /\ OneCharacter(m)' = OneCharacter(m)
    <3>1. Frame2' = Frame2 /\ Written(m, memory.str)' = Written(m, memory.str)
      BY <2>1, Zenon DEF Frame2, Written
    <3>2. InFibonacci(m)' = InFibonacci(m) /\ OneCharacter(m)' = OneCharacter(m)
      BY <2>1, Zenon DEF InFibonacci, OneCharacter, SquareData
    <3>3. BetweenRows(m)' = BetweenRows(m) /\ InRow(m)' = InRow(m)
      BY <2>1, Zenon DEF BetweenRows, InRow, SquareData
    <3> QED
      BY <3>1, <3>2, <3>3
  <2>4. /\ InRunCheck(m)' = InRunCheck(m) /\ AfterRunCheck(m)' = AfterRunCheck(m)
        /\ InCount(m)' = InCount(m) /\ FindsTail(m)' = FindsTail(m)
        /\ Exchanges(m)' = Exchanges(m)
    BY <2>1, Zenon DEF InRunCheck, AfterRunCheck, PairsCompared, InCount, FindsTail, Exchanges
  <2>5. Place2(m)'
    BY <2>1, <2>2, <2>3, <2>4, SMT DEF Place2
  <2> QED
    BY <2>1, <2>2, <2>5 DEF TaskInv2, Types2
<1>2. CASE CodeAsm2
  BY <1>2, StudentMain2Starts, FibonacciSteps, SquareStarts, RowStarts, ItemPrinted, RowEnds,
     SquareIsDone, RunCheckStarts, PairOfRunCompared, AllPairsCompared, RunPrinted, CountStarts,
     ByteCounted, CountPrinted, ReversalStarts, TailIsFound, CharactersSwapped, AllSwapped,
     StudentMain2Ends DEF CodeAsm2
<1> QED
  BY <1>1, <1>2

\* studentMain of asm2.s prints, for any data, the Fibonacci numbers, the square,
\* whether the array ascends or descends, and the number of words, each if it is
\* asked for, reverses the string, and gives the caller its stack and $fp back;
\* it traps exactly if a Fibonacci number that is asked for is too large.
THEOREM TasksAreCorrect == SpecAsm2 => []TasksCorrect
<1>1. InitAsm2 => TaskInv2
  BY InitialTasks2
<1>2. TaskInv2 /\ [CodeAsm2]_call => TaskInv2'
  BY TasksStep2
<1>3. TaskInv2 => TasksCorrect
  <2> SUFFICES ASSUME TaskInv2 PROVE TasksCorrect
    OBVIOUS
  <2> DEFINE m == before.memory
             fib == Fibonacci(AtLeast(m.fib, 1))
             fibonacci == IF m.fib = 0 THEN << >>
                   ELSE [k \in 1 .. 2 * (AtLeast(m.fib, 1) + 1) |->
                           IF k % 2 = 1 THEN (k - 1) \div 2 ELSE fib[(k - 2) \div 2]]
             character(row, column) ==
               IF row \in {1, m.size} THEN IF column \in {1, m.size} THEN 43 ELSE 45
                                      ELSE IF column \in {1, m.size} THEN 124 ELSE m.fill
             square == IF m.square = 0 THEN << >>
                ELSE [k \in 1 .. AtLeast(m.size, 0) * (m.size + 1) |->
                        IF k % (m.size + 1) = 0 THEN Newline
                        ELSE character(((k - 1) \div (m.size + 1)) + 1, k % (m.size + 1))]
             pairs == 0 .. m.length - 2
             ascends == \A i \in pairs : m.items[i] <= m.items[i + 1]
             descends == \A i \in pairs : m.items[i] >= m.items[i + 1]
             run == IF m.runCheck # 1 THEN << >>
                    ELSE (IF ascends THEN <<ASCENDING>> ELSE << >>)
                         \o (IF descends THEN <<DESCENDING>> ELSE << >>)
                         \o (IF ascends \/ descends THEN << >> ELSE <<NEITHER>>)
             inWord(i) == m.str[i] \notin {0, Space, Newline}
             words == {i \in DOMAIN m.str : inWord(i) /\ (i = 0 \/ ~ inWord(i - 1))}
             count == IF m.countWords = 1 THEN <<Cardinality(words)>> ELSE << >>
             last == Cardinality(DOMAIN m.str) - 2
             reversed == [i \in DOMAIN m.str |-> IF i <= last THEN m.str[last - i] ELSE 0]
  <2>1. m \in Data2 /\ Place2(m)
    BY DEF TaskInv2, Types2
  <2>2. fib = Fibonacci(LastFibonacci(m)) /\ fibonacci = FibonacciPart(m)
    BY Zenon DEF LastFibonacci, FibonacciPart, FibonacciTable
  <2>3. square = SquarePart(m)
    BY Zenon DEF SquarePart, SquareTable, SquareCharacter
  <2>4. run = RunPart(m)
    BY Zenon DEF RunPart, Ascends, Descends
  <2>5. count = CountPart(m)
    BY Zenon DEF CountPart, WordStarts, InWord
  <2>6. reversed = Reversed(m)
    <3>1. /\ DOMAIN m.str = 0 .. End(m) /\ last = End(m) - 1
      <4>1. DOMAIN m.str = 0 .. End(m)
        BY <2>1, DataFields2
      <4>2. PICK c : c = Cardinality(DOMAIN m.str)
        OBVIOUS
      <4>3. End(m) = c - 1 /\ End(m) \in Nat /\ c - 2 = last
        BY <2>1, <4>2, DataFields2 DEF End
      <4>4. IsFiniteSet(DOMAIN m.str)
        <5>1. 0 \in Int /\ End(m) \in Int
          BY <4>3
        <5> QED
          BY <4>1, <5>1, FS_Interval
      <4>5. c \in Nat
        BY <4>2, <4>4, FS_CardinalityType
      <4>6. c - 2 = (c - 1) - 1
        BY <4>5, SMT
      <4> QED
        BY <4>1, <4>3, <4>6
    <3> QED
      BY <3>1, Zenon DEF Reversed
  <2>7. ASSUME m.fib >= 2
        PROVE  fib[m.fib] \in Nat
    <3>1. m.fib \in Int
      BY <2>1, DataFields2
    <3>2. AtLeast(m.fib, 1) = m.fib /\ m.fib \in Nat /\ m.fib \in 0 .. m.fib
      BY <2>7, <3>1, SMT DEF AtLeast
    <3> QED
      BY <3>2, FibonacciNumbers
  <2> HIDE DEF fib, fibonacci, square, run, count, reversed
  <2>8. ASSUME pc = Caller(2)
        PROVE  /\ console = fibonacci \o square \o run \o count
               /\ memory = [m EXCEPT !.str = IF m.revString = 1 THEN reversed ELSE m.str,
                                     !.lr = memory.lr, !.mid = memory.mid]
               /\ GivenBack({"fp"})
               /\ m.fib >= 2 => fib[m.fib] <= Largest
    <3>1. /\ console = All(m) /\ Written(m, memory.str) /\ Fits(m)
          /\ memory.str = IF m.revString = 1 THEN Reversed(m) ELSE m.str
          /\ stack = << >> /\ regs.fp = before.regs.fp
      BY <2>1, <2>8 DEF Place2, LastTask
    <3>2. console = fibonacci \o square \o run \o count
      BY <2>2, <2>3, <2>4, <2>5, <3>1, Zenon DEF All, Runs, Squares
    <3>3. memory = [m EXCEPT !.str = IF m.revString = 1 THEN reversed ELSE m.str,
                             !.lr = memory.lr, !.mid = memory.mid]
      BY <2>6, <3>1, Zenon DEF Written
    <3>4. GivenBack({"fp"})
      BY <3>1 DEF GivenBack
    <3>5. m.fib >= 2 => fib[m.fib] <= Largest
      BY <2>2, <3>1 DEF Fits
    <3> QED
      BY <3>2, <3>3, <3>4, <3>5
  <2>9. ASSUME pc = Trapped
        PROVE  m.fib >= 2 /\ fib[m.fib] > Largest
    <3>1. m.fib >= 2 /\ ~ fib[m.fib] <= Largest
      BY <2>1, <2>2, <2>9 DEF Place2, Fits
    <3> QED
      BY <2>7, <3>1, LargestAssumption, SMT
  <2> QED
    BY <2>8, <2>9, Zenon DEF TasksCorrect, fib, fibonacci, square, run, count, reversed
<1> QED
  BY <1>1, <1>2, <1>3, PTL DEF SpecAsm2
=============================================================================
