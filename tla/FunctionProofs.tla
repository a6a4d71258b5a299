---------------------------- MODULE FunctionProofs ----------------------------
(***************************************************************************)
(* asm3.s and asm5.s for data of every size: what is saved in the stack    *)
(* frames and given back, and what the functions print and return.         *)
(***************************************************************************)
EXTENDS StackArguments, StackBuffers, Recursion, SequenceTheorems, FiniteSetTheorems, TLAPS

\* Each program alone, without the others that may be run in its place.
SpecAsm3 == InitAsm3 /\ [][CodeAsm3]_<<call, below>>
SpecAsm5 == InitAsm5 /\ [][CodeAsm5]_<<call, buffer>>

-----------------------------------------------------------------------------
(* Words on the stack. *)

\* The frame of a function that is called with nothing on the stack.
LEMMA FirstFrame ==
  ASSUME stack = << >>, NEW words \in Seq(Int)
  PROVE  Pushed(words) = words
BY ConcatEmptySeq DEF Pushed

LEMMA RemovedWords ==
  ASSUME NEW s \in Seq(Int), NEW n \in 0 .. Len(s)
  PROVE  /\ SubSeq(s, n + 1, Len(s)) \in Seq(Int)
         /\ Len(SubSeq(s, n + 1, Len(s))) = Len(s) - n
         /\ \A i \in 1 .. Len(s) - n : SubSeq(s, n + 1, Len(s))[i] = s[i + n]
<1>1. Len(s) \in Nat
  BY LenProperties
<1>2. \A i \in n + 1 .. Len(s) : s[i] \in Int
  BY <1>1, ElementOfSeq, SMT
<1>3. SubSeq(s, n + 1, Len(s)) \in Seq(Int)
  BY <1>1, <1>2, SubSeqProperties, SMT
<1> QED
  BY <1>1, <1>3, SubSeqProperties, SMT

LEMMA RemovedAll ==
  ASSUME NEW s, NEW n \in Nat, Len(s) = n
  PROVE  SubSeq(s, n + 1, Len(s)) = << >>
<1>1. n + 1 \in Int /\ n \in Int /\ n < n + 1
  BY SMT
<1> QED
  BY <1>1, SubSeqEmpty

\* The frames that the functions take off.
LEMMA WholeFrame ==
  ASSUME stack \in Seq(Int)
  PROVE  /\ Len(stack) = 2 => Popped(8) = << >>
         /\ Len(stack) = 3 => Popped(12) = << >>
         /\ Len(stack) = 4 => Popped(16) = << >>
         /\ Len(stack) = 7 => Popped(28) = << >>
         /\ Len(stack) = 10 => Popped(40) = << >>
<1>1. /\ Popped(8) = SubSeq(stack, 2 + 1, Len(stack)) /\ Popped(12) = SubSeq(stack, 3 + 1, Len(stack))
      /\ Popped(16) = SubSeq(stack, 4 + 1, Len(stack)) /\ Popped(28) = SubSeq(stack, 7 + 1, Len(stack))
      /\ Popped(40) = SubSeq(stack, 10 + 1, Len(stack))
  BY SMT DEF Popped
<1> QED
  BY <1>1, RemovedAll

LEMMA StackWords ==
  ASSUME stack \in Seq(Int)
  PROVE  \A k \in 1 .. Len(stack) : stack[k] \in Int
BY ElementOfSeq

LEMMA Offsets ==
  /\ AtSP(0) = stack[1] /\ AtSP(4) = stack[2] /\ AtSP(8) = stack[3] /\ AtSP(12) = stack[4]
  /\ AtSP(16) = stack[5] /\ AtSP(20) = stack[6] /\ AtSP(24) = stack[7] /\ AtSP(28) = stack[8]
  /\ AtSP(32) = stack[9] /\ AtSP(36) = stack[10]
  /\ \A word : Stored(0, word) = [stack EXCEPT ![1] = word]
  /\ \A word : Stored(28, word) = [stack EXCEPT ![8] = word]
BY SMT DEF AtSP, Stored

-----------------------------------------------------------------------------
(* asm3.s *)

LEMMA Labels3 ==
  /\ strlen = 3035 /\ LOOP_STRLEN = 3042 /\ gcf = 3080 /\ EXIT_GCF = 3120
  /\ bottles = 3144 /\ LOOP_BOTTLES = 3152
  /\ longestSorted = 3268 /\ LOOP_LONGEST_SORTED = 3300
  /\ rotateShort = 3369 /\ LOOP_ROTATE_SHORT = 3381 /\ AfterUtilShort = 3395
  /\ rotateLong = 3446 /\ LOOP_ROTATE_LONG = 3467 /\ AfterUtilLong = 3488
  /\ utilShort = 3001 /\ utilLong = 3002 /\ Caller(3) = 3000
BY SMT DEF strlen, LOOP_STRLEN, gcf, EXIT_GCF, bottles, LOOP_BOTTLES, longestSorted,
     LOOP_LONGEST_SORTED, rotateShort, LOOP_ROTATE_SHORT, AfterUtilShort, rotateLong,
     LOOP_ROTATE_LONG, AfterUtilLong, utilShort, utilLong, Caller, Line

Registers3 == [a0 : Int, a1 : Int, a2 : Int, a3 : Int, v0 : Int, ra : Int,
               t0 : Int, t2 : Int, t9 : Int, s0 : Int]
Functions3 == {strlen, gcf, bottles, longestSorted, rotateShort, rotateLong}

Types3 ==
  /\ regs \in Registers3 /\ before.regs \in Registers3
  /\ stack \in Seq(Int)
  /\ below[1] \in Int /\ below[2] \in Int /\ below[3] \in Int
  /\ before.regs.ra = Caller(3)

S0Kept == regs.s0 = before.regs.s0

\* Every function saves its return address in the last word of its frame, and the
\* caller's $s0, if it uses that, in the word before.
FrameOf(n) == Len(stack) = n /\ stack[n] = Caller(3)
FrameWithS0(n) == FrameOf(n) /\ stack[n - 1] = before.regs.s0

\* n calls of gcf, each by the one before.
GcfFrames(s, n) ==
  Len(s) = 3 * n /\ \A k \in 1 .. n : s[3 * k] = IF k = n THEN Caller(3) ELSE EXIT_GCF

Place3 ==
  \/ pc \in Functions3 /\ stack = << >> /\ S0Kept /\ regs.ra = Caller(3)
       /\ (pc = gcf => regs.a0 > 0 /\ regs.a1 > 0)
  \/ pc = LOOP_STRLEN /\ FrameWithS0(2)
  \/ /\ S0Kept /\ \E n \in Nat \ {0} : GcfFrames(stack, n)
     /\ \/ pc = gcf /\ regs.ra = EXIT_GCF /\ regs.a0 > 0 /\ regs.a1 > 0
        \/ pc = EXIT_GCF
  \/ pc = LOOP_BOTTLES /\ S0Kept /\ FrameOf(3)
  \/ pc = LOOP_LONGEST_SORTED /\ FrameWithS0(4)
  \/ /\ FrameWithS0(7)
     /\ \/ pc \in {LOOP_ROTATE_SHORT, AfterUtilShort}
        \/ pc = utilShort /\ regs.ra = AfterUtilShort
  \/ /\ FrameWithS0(10)
     /\ \/ pc \in {LOOP_ROTATE_LONG, AfterUtilLong}
        \/ pc = utilLong /\ regs.ra = AfterUtilLong
  \/ pc = Caller(3) /\ stack = << >> /\ S0Kept

Control3 == Types3 /\ Place3

\* What the invariant says at each place.
LEMMA Places3 ==
  ASSUME Control3
  PROVE  /\ pc \in Functions3 \ {gcf} => stack = << >> /\ S0Kept /\ regs.ra = Caller(3)
         /\ pc = LOOP_STRLEN => FrameWithS0(2)
         /\ pc = gcf => /\ S0Kept /\ regs.a0 > 0 /\ regs.a1 > 0
                        /\ \/ stack = << >> /\ regs.ra = Caller(3)
                           \/ regs.ra = EXIT_GCF /\ \E n \in Nat \ {0} : GcfFrames(stack, n)
         /\ pc = EXIT_GCF => S0Kept /\ \E n \in Nat \ {0} : GcfFrames(stack, n)
         /\ pc = LOOP_BOTTLES => S0Kept /\ FrameOf(3)
         /\ pc = LOOP_LONGEST_SORTED => FrameWithS0(4)
         /\ pc \in {LOOP_ROTATE_SHORT, AfterUtilShort, utilShort} => FrameWithS0(7)
         /\ pc = utilShort => regs.ra = AfterUtilShort
         /\ pc \in {LOOP_ROTATE_LONG, AfterUtilLong, utilLong} => FrameWithS0(10)
         /\ pc = utilLong => regs.ra = AfterUtilLong
         /\ pc = Caller(3) => stack = << >> /\ S0Kept
BY Labels3, SMTT(60) DEF Control3, Place3, Functions3

LEMMA Fields3 ==
  ASSUME NEW registers \in Registers3
  PROVE  /\ registers.a0 \in Int /\ registers.a1 \in Int /\ registers.a2 \in Int
         /\ registers.a3 \in Int /\ registers.v0 \in Int /\ registers.ra \in Int
         /\ registers.t0 \in Int /\ registers.t2 \in Int /\ registers.t9 \in Int
         /\ registers.s0 \in Int
BY DEF Registers3

LEMMA SettingS0 ==
  ASSUME NEW registers \in Registers3, NEW v \in Int
  PROVE  [registers EXCEPT !.s0 = v] \in Registers3
BY DEF Registers3

LEMMA StrlenFrame ==
  ASSUME Control3, Strlen \/ StrlenCounts \/ StrlenReturns
  PROVE  Control3'
<1>1. /\ regs \in Registers3 /\ before.regs \in Registers3 /\ stack \in Seq(Int)
      /\ before' = before /\ below' = below
  BY DEF Control3, Types3, Strlen, StrlenCounts, StrlenReturns
<1>2. CASE Strlen
  <2>1. /\ pc = strlen /\ stack' = Pushed(<<regs.s0, regs.ra>>) /\ pc' = LOOP_STRLEN
        /\ regs' = [regs EXCEPT !.s0 = 0]
    BY <1>2 DEF Strlen
  <2>2. stack = << >> /\ S0Kept /\ regs.ra = Caller(3)
    BY <2>1, Labels3, Places3 DEF Functions3
  <2>3. regs' \in Registers3 /\ regs.s0 \in Int /\ regs.ra \in Int
    <3>1. regs.s0 \in Int /\ regs.ra \in Int
      BY <1>1, Fields3
    <3>2. [regs EXCEPT !.s0 = 0] \in Registers3
      BY <1>1, SettingS0, 0 \in Int
    <3> QED
      BY <2>1, <3>1, <3>2
  <2> DEFINE frame == <<regs.s0, regs.ra>>
  <2>4. frame \in Seq(Int) /\ Len(frame) = 2 /\ frame[1] = regs.s0 /\ frame[2] = regs.ra
    BY <2>3, SMT
  <2> HIDE DEF frame
  <2>5. stack' = frame
    BY <2>1, <2>2, <2>4, FirstFrame DEF frame
  <2>6. FrameWithS0(2)'
    BY <1>1, <2>2, <2>4, <2>5 DEF FrameWithS0, FrameOf, S0Kept, Caller
  <2> QED
    BY <1>1, <2>1, <2>3, <2>4, <2>5, <2>6 DEF Control3, Types3, Place3
<1>3. CASE StrlenCounts
  <2>1. /\ pc = LOOP_STRLEN /\ pc' = pc /\ stack' = stack
        /\ regs' = [regs EXCEPT !.s0 = regs.s0 + 1, !.a0 = regs.a0 + 1]
    BY <1>3 DEF StrlenCounts
  <2>2. regs' \in Registers3
    <3>1. regs.s0 + 1 \in Int /\ regs.a0 + 1 \in Int
      BY <1>1, Fields3
    <3> QED
      BY <1>1, <2>1, <3>1 DEF Registers3
  <2>3. FrameWithS0(2)'
    BY <1>1, <2>1, Places3 DEF FrameWithS0, FrameOf
  <2> QED
    BY <1>1, <2>1, <2>2, <2>3 DEF Control3, Types3, Place3
<1>4. CASE StrlenReturns
  <2>1. /\ pc = LOOP_STRLEN /\ stack' = Popped(8) /\ pc' = regs'.ra
        /\ regs' = [regs EXCEPT !.v0 = regs.s0, !.s0 = AtSP(0), !.ra = AtSP(4)]
    BY <1>4 DEF StrlenReturns, JrRa
  <2>2. Len(stack) = 2 /\ stack[2] = Caller(3) /\ stack[1] = before.regs.s0
    BY <2>1, Places3, SMT DEF FrameWithS0, FrameOf
  <2>3. AtSP(0) = before.regs.s0 /\ AtSP(4) = Caller(3) /\ stack' = << >>
    BY <1>1, <2>1, <2>2, Offsets, WholeFrame
  <2>4. before.regs.s0 \in Int /\ Caller(3) \in Int
    BY <1>1, Fields3, Labels3
  <2>5. regs' \in Registers3 /\ regs'.s0 = before.regs.s0 /\ pc' = Caller(3)
    BY <1>1, <2>1, <2>3, <2>4 DEF Registers3
  <2>6. stack' \in Seq(Int)
    BY <2>3, EmptySeq
  <2> QED
    BY <1>1, <2>3, <2>5, <2>6 DEF Control3, Types3, Place3, S0Kept, Caller
<1> QED
  BY <1>2, <1>3, <1>4

-----------------------------------------------------------------------------
(* gcf: a stack of its frames. *)

LEMMA GcfFramesPushed ==
  ASSUME NEW s \in Seq(Int), NEW words \in Seq(Int), Len(words) = 3
  PROVE  /\ words \o s \in Seq(Int)
         /\ s = << >> /\ words[3] = Caller(3) => GcfFrames(words \o s, 1)
         /\ \A n \in Nat \ {0} :
              GcfFrames(s, n) /\ words[3] = EXIT_GCF => GcfFrames(words \o s, n + 1)
<1> DEFINE t == words \o s
<1>1. /\ t \in Seq(Int) /\ Len(t) = 3 + Len(s) /\ Len(s) \in Nat
      /\ \A i \in 1 .. 3 + Len(s) : t[i] = IF i <= 3 THEN words[i] ELSE s[i - 3]
  <2>1. /\ t \in Seq(Int) /\ Len(t) = Len(words) + Len(s)
        /\ \A i \in 1 .. Len(words) + Len(s) :
             t[i] = IF i <= Len(words) THEN words[i] ELSE s[i - Len(words)]
    BY ConcatProperties
  <2>2. Len(s) \in Nat
    BY LenProperties
  <2> QED
    BY <2>1, <2>2
<1> HIDE DEF t
<1>2. ASSUME s = << >>, words[3] = Caller(3)
      PROVE  GcfFrames(t, 1)
  <2>1. Len(t) = 3 * 1 /\ t[3] = Caller(3)
    BY <1>1, <1>2, EmptySeq, SMT
  <2> QED
    BY <2>1, SMT DEF GcfFrames
<1>3. ASSUME NEW n \in Nat \ {0}, GcfFrames(s, n), words[3] = EXIT_GCF
      PROVE  GcfFrames(t, n + 1)
  <2>1. Len(s) = 3 * n /\ Len(t) = 3 * (n + 1)
    BY <1>1, <1>3, SMT DEF GcfFrames
  <2>2. ASSUME NEW k \in 1 .. n + 1
        PROVE  t[3 * k] = IF k = n + 1 THEN Caller(3) ELSE EXIT_GCF
    <3>1. CASE k = 1
      BY <1>1, <1>3, <2>1, <3>1, SMT
    <3>2. CASE k # 1
      <4>1. k - 1 \in 1 .. n /\ 3 * k - 3 = 3 * (k - 1) /\ (k - 1 = n <=> k = n + 1)
        BY <3>2, SMT
      <4>2. t[3 * k] = s[3 * (k - 1)]
        BY <1>1, <2>1, <3>2, <4>1, SMT
      <4> QED
        BY <1>3, <4>1, <4>2 DEF GcfFrames
    <3> QED
      BY <3>1, <3>2
  <2> QED
    BY <2>1, <2>2 DEF GcfFrames
<1> QED
  BY <1>1, <1>2, <1>3 DEF t

LEMMA GcfFramePopped ==
  ASSUME stack \in Seq(Int), NEW n \in Nat \ {0}, GcfFrames(stack, n)
  PROVE  /\ Popped(12) \in Seq(Int)
         /\ AtSP(8) = IF n = 1 THEN Caller(3) ELSE EXIT_GCF
         /\ n = 1 => Popped(12) = << >>
         /\ n # 1 => GcfFrames(Popped(12), n - 1)
<1> DEFINE rest == SubSeq(stack, 3 + 1, Len(stack))
<1>1. Len(stack) = 3 * n /\ \A k \in 1 .. n : stack[3 * k] = IF k = n THEN Caller(3) ELSE EXIT_GCF
  BY DEF GcfFrames
<1>2. 3 \in 0 .. Len(stack)
  BY <1>1, SMT
<1>3. /\ rest \in Seq(Int) /\ Len(rest) = Len(stack) - 3
      /\ \A i \in 1 .. Len(stack) - 3 : rest[i] = stack[i + 3]
  BY <1>2, RemovedWords
<1>4. Popped(12) = rest
  BY SMT DEF Popped
<1> HIDE DEF rest
<1>5. AtSP(8) = IF n = 1 THEN Caller(3) ELSE EXIT_GCF
  <2>1. 1 \in 1 .. n /\ 3 * 1 = 3 /\ (1 = n <=> n = 1)
    BY SMT
  <2> QED
    BY <1>1, <2>1, Offsets
<1>6. ASSUME n = 1
      PROVE  rest = << >>
  <2>1. Len(rest) = 0
    BY <1>1, <1>3, <1>6, SMT
  <2> QED
    BY <1>3, <2>1, EmptySeq
<1>7. ASSUME n # 1
      PROVE  GcfFrames(rest, n - 1)
  <2>1. Len(rest) = 3 * (n - 1)
    BY <1>1, <1>3, SMT
  <2>2. ASSUME NEW k \in 1 .. n - 1
        PROVE  rest[3 * k] = IF k = n - 1 THEN Caller(3) ELSE EXIT_GCF
    <3>1. k + 1 \in 1 .. n /\ 3 * k + 3 = 3 * (k + 1) /\ (k + 1 = n <=> k = n - 1)
      BY SMT
    <3>2. 3 * k \in 1 .. Len(stack) - 3
      BY <1>1, SMT
    <3>3. rest[3 * k] = stack[3 * k + 3]
      BY <1>3, <3>2
    <3>4. rest[3 * k] = stack[3 * (k + 1)]
      BY <3>1, <3>3
    <3> QED
      BY <1>1, <3>1, <3>4
  <2> QED
    BY <2>1, <2>2 DEF GcfFrames
<1> QED
  BY <1>3, <1>4, <1>5, <1>6, <1>7

LEMMA SmallerAndLarger ==
  ASSUME NEW registers \in Registers3, regs = registers, regs.a0 > 0, regs.a1 > 0
  PROVE  /\ Smaller \in Nat \ {0} /\ Larger \in Nat \ {0}
         /\ Larger % Smaller # 0 => Larger % Smaller \in Nat \ {0}
<1>1. regs.a0 \in Int /\ regs.a1 \in Int
  BY Fields3
<1>2. Smaller \in Nat \ {0} /\ Larger \in Nat \ {0}
  BY <1>1, SMT DEF Smaller, Larger
<1>3. Larger % Smaller \in Nat
  BY <1>2, SMT
<1> QED
  BY <1>2, <1>3

LEMMA ArgumentsAndResult ==
  ASSUME NEW registers \in Registers3, NEW next, NEW u \in Int, NEW v \in Int, NEW w \in Int,
         next = [registers EXCEPT !.a0 = u, !.a1 = v, !.v0 = w]
  PROVE  next \in Registers3 /\ next.s0 = registers.s0
BY DEF Registers3

LEMMA SettingRa ==
  ASSUME NEW registers \in Registers3, NEW next, NEW u \in Int,
         next = [registers EXCEPT !.ra = u]
  PROVE  next \in Registers3 /\ next.s0 = registers.s0 /\ next.ra = u
BY DEF Registers3

\* What a call of gcf leaves on the stack.
LEMMA GcfCalled ==
  ASSUME Control3, pc = gcf
  PROVE  /\ GcfFrame \in Seq(Int)
         /\ \E n \in Nat \ {0} : GcfFrames(GcfFrame, n)
<1>1. regs \in Registers3 /\ stack \in Seq(Int)
  BY DEF Control3, Types3
<1> DEFINE words == <<regs.a1, regs.a0, regs.ra>>
<1>2. words \in Seq(Int) /\ Len(words) = 3 /\ words[3] = regs.ra
  <2>1. regs.a0 \in Int /\ regs.a1 \in Int /\ regs.ra \in Int
    BY <1>1, Fields3
  <2> QED
    BY <2>1, SMT
<1>3. GcfFrame = words \o stack
  BY DEF GcfFrame, Pushed
<1> HIDE DEF words
<1>4. \/ stack = << >> /\ regs.ra = Caller(3)
      \/ regs.ra = EXIT_GCF /\ \E n \in Nat \ {0} : GcfFrames(stack, n)
  BY Places3
<1>5. \A n \in Nat \ {0} : n + 1 \in Nat \ {0}
  BY SMT
<1>6. 1 \in Nat \ {0}
  BY SMT
<1> QED
  BY <1>1, <1>2, <1>3, <1>4, <1>5, <1>6, GcfFramesPushed

LEMMA GcfStackFrame ==
  ASSUME Control3, GcfKnown \/ GcfRecurses \/ GcfReturns
  PROVE  Control3'
<1>1. /\ regs \in Registers3 /\ before.regs \in Registers3 /\ stack \in Seq(Int)
      /\ before' = before /\ below' = below
  BY DEF Control3, Types3, GcfKnown, GcfRecurses, GcfReturns
<1>2. /\ pc = gcf => S0Kept /\ regs.a0 > 0 /\ regs.a1 > 0
      /\ pc = EXIT_GCF => S0Kept /\ \E n \in Nat \ {0} : GcfFrames(stack, n)
  BY Places3
<1>3. CASE GcfKnown
  <2>1. /\ pc = gcf /\ stack' = GcfFrame /\ pc' = EXIT_GCF
        /\ regs' = [regs EXCEPT !.a0 = Larger, !.a1 = Smaller, !.v0 = Smaller]
    BY <1>3 DEF GcfKnown
  <2>2. Larger \in Int /\ Smaller \in Int
    BY <1>1, <1>2, <2>1, SmallerAndLarger
  <2>3. regs' \in Registers3 /\ regs'.s0 = regs.s0
    BY <1>1, <2>1, <2>2, ArgumentsAndResult
  <2>4. stack' \in Seq(Int) /\ \E n \in Nat \ {0} : GcfFrames(stack', n)
    BY <2>1, GcfCalled
  <2>5. S0Kept'
    BY <1>1, <1>2, <2>1, <2>3 DEF S0Kept
  <2>6. Types3'
    BY <1>1, <2>3, <2>4 DEF Control3, Types3, Caller
  <2>7. Place3'
    BY <2>1, <2>4, <2>5 DEF Place3, GcfFrames, Caller, EXIT_GCF, Line
  <2> QED
    BY <2>6, <2>7 DEF Control3
<1>4. CASE GcfRecurses
  <2>1. /\ pc = gcf /\ stack' = GcfFrame /\ pc' = gcf
        /\ regs' = [[regs EXCEPT !.a0 = Smaller, !.a1 = Larger % Smaller] EXCEPT !.ra = EXIT_GCF]
        /\ Larger % Smaller # 0
    BY <1>4 DEF GcfRecurses, Jal
  <2>2. Smaller \in Nat \ {0} /\ Larger % Smaller \in Nat \ {0} /\ EXIT_GCF \in Int
    BY <1>1, <1>2, <2>1, Labels3, SmallerAndLarger
  <2>3. /\ regs' \in Registers3 /\ regs'.s0 = regs.s0 /\ regs'.ra = EXIT_GCF
        /\ regs'.a0 = Smaller /\ regs'.a1 = Larger % Smaller
    <3>1. PICK u \in Int, v \in Int, w \in Int :
            u = Smaller /\ v = Larger % Smaller /\ w = EXIT_GCF
      BY <2>2
    <3>2. regs' = [[regs EXCEPT !.a0 = u, !.a1 = v] EXCEPT !.ra = w]
      BY <2>1, <3>1
    <3>3. /\ regs' \in Registers3 /\ regs'.s0 = regs.s0 /\ regs'.ra = w
          /\ regs'.a0 = u /\ regs'.a1 = v
      BY <1>1, <3>2 DEF Registers3
    <3> QED
      BY <3>1, <3>3
  <2>4. stack' \in Seq(Int) /\ \E n \in Nat \ {0} : GcfFrames(stack', n)
    BY <2>1, GcfCalled
  <2>5. S0Kept'
    BY <1>1, <1>2, <2>1, <2>3 DEF S0Kept
  <2>6. regs'.a0 > 0 /\ regs'.a1 > 0
    BY <2>2, <2>3, SMT
  <2>7. Types3'
    BY <1>1, <2>3, <2>4 DEF Control3, Types3, Caller
  <2>8. Place3'
    BY <2>1, <2>3, <2>4, <2>5, <2>6 DEF Place3, GcfFrames, Caller, EXIT_GCF, gcf, Line
  <2> QED
    BY <2>7, <2>8 DEF Control3
<1>5. CASE GcfReturns
  <2>1. /\ pc = EXIT_GCF /\ stack' = Popped(12) /\ pc' = regs'.ra
        /\ regs' = [regs EXCEPT !.ra = AtSP(8)]
    BY <1>5 DEF GcfReturns, JrRa
  <2>2. PICK n \in Nat \ {0} : GcfFrames(stack, n)
    BY <1>2, <2>1
  <2>3. /\ stack' \in Seq(Int)
        /\ AtSP(8) = IF n = 1 THEN Caller(3) ELSE EXIT_GCF
        /\ n = 1 => stack' = << >>
        /\ n # 1 => GcfFrames(stack', n - 1)
    BY <1>1, <2>1, <2>2, GcfFramePopped
  <2>4. AtSP(8) \in Int
    BY <2>3, Labels3
  <2>5. regs' \in Registers3 /\ regs'.s0 = regs.s0 /\ regs'.ra = AtSP(8)
    BY <1>1, <2>1, <2>4, SettingRa
  <2>6. S0Kept'
    BY <1>1, <1>2, <2>1, <2>5 DEF S0Kept
  <2>7. Types3'
    BY <1>1, <2>3, <2>5 DEF Control3, Types3, Caller
  <2>8. CASE n = 1
    <3>1. pc' = Caller(3) /\ stack' = << >>
      BY <2>1, <2>3, <2>5, <2>8
    <3> QED
      BY <2>6, <2>7, <3>1 DEF Control3, Place3, Caller, Line
  <2>9. CASE n # 1
    <3>1. pc' = EXIT_GCF /\ GcfFrames(stack', n - 1) /\ n - 1 \in Nat \ {0}
      BY <2>1, <2>3, <2>5, <2>9
    <3>2. Place3'
      BY <2>6, <3>1 DEF Place3, GcfFrames, Caller, EXIT_GCF, Line
    <3> QED
      BY <2>7, <3>2 DEF Control3
  <2> QED
    BY <2>8, <2>9
<1> QED
  BY <1>3, <1>4, <1>5

-----------------------------------------------------------------------------
(* bottles and longestSorted *)

LEMMA SettingT0 ==
  ASSUME NEW registers \in Registers3, NEW next, NEW u \in Int,
         next = [registers EXCEPT !.t0 = u]
  PROVE  next \in Registers3 /\ next.s0 = registers.s0
BY DEF Registers3

LEMMA BottlesFrame ==
  ASSUME Control3, Bottles \/ Verse \/ BottlesReturns
  PROVE  Control3'
<1>1. /\ regs \in Registers3 /\ before.regs \in Registers3 /\ stack \in Seq(Int)
      /\ before' = before /\ below' = below
  BY DEF Control3, Types3, Bottles, Verse, BottlesReturns
<1>2. /\ regs.a0 \in Int /\ regs.a1 \in Int /\ regs.ra \in Int /\ regs.t0 - 1 \in Int
  <2>1. regs.t0 \in Int
    BY <1>1, Fields3
  <2> QED
    BY <1>1, <2>1, Fields3
<1>3. CASE Bottles
  <2>1. /\ pc = bottles /\ stack' = Pushed(<<regs.a1, regs.a0, regs.ra>>) /\ pc' = LOOP_BOTTLES
        /\ regs' = [regs EXCEPT !.t0 = regs.a0]
    BY <1>3 DEF Bottles
  <2>2. stack = << >> /\ S0Kept /\ regs.ra = Caller(3)
    BY <2>1, Labels3, Places3 DEF Functions3
  <2>3. regs' \in Registers3 /\ regs'.s0 = regs.s0
    BY <1>1, <1>2, <2>1, SettingT0
  <2> DEFINE frame == <<regs.a1, regs.a0, regs.ra>>
  <2>4. frame \in Seq(Int) /\ Len(frame) = 3 /\ frame[3] = regs.ra
    BY <1>2, SMT
  <2> HIDE DEF frame
  <2>5. stack' = frame
    BY <2>1, <2>2, <2>4, FirstFrame DEF frame
  <2>6. FrameOf(3)' /\ S0Kept'
    BY <1>1, <2>2, <2>3, <2>4, <2>5 DEF FrameOf, S0Kept, Caller
  <2> QED
    BY <1>1, <2>1, <2>3, <2>4, <2>5, <2>6 DEF Control3, Types3, Place3, Caller
<1>4. CASE Verse
  <2>1. /\ pc = LOOP_BOTTLES /\ pc' = pc /\ stack' = stack
        /\ regs' = [regs EXCEPT !.t0 = regs.t0 - 1]
    BY <1>4 DEF Verse
  <2>2. regs' \in Registers3 /\ regs'.s0 = regs.s0
    BY <1>1, <1>2, <2>1, SettingT0
  <2>3. FrameOf(3)' /\ S0Kept'
    BY <1>1, <2>1, <2>2, Places3 DEF FrameOf, S0Kept
  <2> QED
    BY <1>1, <2>1, <2>2, <2>3 DEF Control3, Types3, Place3
<1>5. CASE BottlesReturns
  <2>1. /\ pc = LOOP_BOTTLES /\ stack' = Popped(12) /\ pc' = regs'.ra
        /\ regs' = [regs EXCEPT !.ra = AtSP(8)]
    BY <1>5 DEF BottlesReturns, JrRa
  <2>2. Len(stack) = 3 /\ stack[3] = Caller(3) /\ S0Kept
    BY <2>1, Places3 DEF FrameOf
  <2>3. AtSP(8) = Caller(3) /\ stack' = << >>
    BY <1>1, <2>1, <2>2, Offsets, WholeFrame
  <2>4. AtSP(8) \in Int
    BY <2>3, Labels3
  <2>5. regs' \in Registers3 /\ regs'.s0 = regs.s0 /\ regs'.ra = AtSP(8)
    BY <1>1, <2>1, <2>4, SettingRa
  <2>6. pc' = Caller(3) /\ S0Kept' /\ stack' \in Seq(Int)
    BY <1>1, <2>1, <2>2, <2>3, <2>5, EmptySeq DEF S0Kept
  <2> QED
    BY <1>1, <2>3, <2>5, <2>6 DEF Control3, Types3, Place3, Caller
<1> QED
  BY <1>3, <1>4, <1>5

LEMMA SettingV0 ==
  ASSUME NEW registers \in Registers3, NEW next, NEW u \in Int,
         next = [registers EXCEPT !.v0 = u]
  PROVE  next \in Registers3 /\ next.s0 = registers.s0 /\ next.ra = registers.ra
BY DEF Registers3

LEMMA SettingCounts ==
  ASSUME NEW registers \in Registers3, NEW next, NEW u \in Int, NEW v \in Int, NEW w \in Int,
         \/ next = [registers EXCEPT !.s0 = u, !.t2 = v, !.t0 = w]
         \/ next = [registers EXCEPT !.t2 = v, !.t0 = w]
  PROVE  next \in Registers3
<1>1. CASE next = [registers EXCEPT !.s0 = u, !.t2 = v, !.t0 = w]
  BY <1>1, Zenon DEF Registers3
<1>2. CASE next = [registers EXCEPT !.t2 = v, !.t0 = w]
  BY <1>2, Zenon DEF Registers3
<1> QED
  BY <1>1, <1>2

LEMMA LongestSortedFrame ==
  ASSUME Control3, LongestOfNothing \/ LongestSorted \/ NextItem \/ LongestReturns
  PROVE  Control3'
<1>1. /\ regs \in Registers3 /\ before.regs \in Registers3 /\ stack \in Seq(Int)
      /\ before' = before /\ below' = below
  BY DEF Control3, Types3, LongestOfNothing, LongestSorted, NextItem, LongestReturns
<1>2. /\ regs.a0 \in Int /\ regs.a1 \in Int /\ regs.ra \in Int /\ regs.s0 \in Int
      /\ regs.t0 \in Int /\ regs.t2 \in Int
  BY <1>1, Fields3
<1>3. CASE LongestOfNothing
  <2>1. /\ pc = longestSorted /\ stack' = stack /\ pc' = regs'.ra
        /\ regs' = [regs EXCEPT !.v0 = 0]
    BY <1>3 DEF LongestOfNothing, JrRa
  <2>2. stack = << >> /\ S0Kept /\ regs.ra = Caller(3)
    BY <2>1, Labels3, Places3 DEF Functions3
  <2>3. regs' \in Registers3 /\ regs'.s0 = regs.s0 /\ regs'.ra = regs.ra
    BY <1>1, <2>1, SettingV0, 0 \in Int
  <2>4. pc' = Caller(3) /\ S0Kept'
    BY <1>1, <2>1, <2>2, <2>3 DEF S0Kept
  <2> QED
    BY <1>1, <2>1, <2>2, <2>3, <2>4 DEF Control3, Types3, Place3, Caller
<1>4. CASE LongestSorted
  <2>1. /\ pc = longestSorted /\ stack' = Pushed(<<regs.a1, regs.a0, regs.s0, regs.ra>>)
        /\ regs' = [regs EXCEPT !.s0 = 1, !.t2 = 1, !.t0 = 0]
        /\ pc' = LOOP_LONGEST_SORTED
    BY <1>4 DEF LongestSorted
  <2>2. stack = << >> /\ S0Kept /\ regs.ra = Caller(3)
    BY <2>1, Labels3, Places3 DEF Functions3
  <2>3. regs' \in Registers3
    <3>1. PICK u \in Int, v \in Int : u = 0 /\ v = 1
      OBVIOUS
    <3>2. regs' = [regs EXCEPT !.s0 = v, !.t2 = v, !.t0 = u]
      BY <2>1, <3>1
    <3> QED
      BY <1>1, <3>2, SettingCounts
  <2> DEFINE frame == <<regs.a1, regs.a0, regs.s0, regs.ra>>
  <2>4. frame \in Seq(Int) /\ Len(frame) = 4 /\ frame[3] = regs.s0 /\ frame[4] = regs.ra
    BY <1>2, SMT
  <2> HIDE DEF frame
  <2>5. stack' = frame
    BY <2>1, <2>2, <2>4, FirstFrame DEF frame
  <2>6. FrameWithS0(4)'
    BY <1>1, <2>2, <2>4, <2>5 DEF FrameWithS0, FrameOf, S0Kept, Caller
  <2> QED
    BY <1>1, <2>1, <2>3, <2>4, <2>5, <2>6 DEF Control3, Types3, Place3, Caller
<1>5. CASE NextItem
  <2>1. /\ pc = LOOP_LONGEST_SORTED /\ pc' = pc /\ stack' = stack
        /\ \/ regs' = [regs EXCEPT !.s0 = FinalCount, !.t2 = 1, !.t0 = regs.t0 + 1]
           \/ regs' = [regs EXCEPT !.t2 = regs.t2 + 1, !.t0 = regs.t0 + 1]
    BY <1>5 DEF NextItem
  <2>2. FinalCount \in Int /\ regs.t2 + 1 \in Int /\ regs.t0 + 1 \in Int /\ 1 \in Int
    BY <1>2 DEF FinalCount
  <2>3. regs' \in Registers3
    <3>1. CASE regs' = [regs EXCEPT !.s0 = FinalCount, !.t2 = 1, !.t0 = regs.t0 + 1]
      BY <1>1, <2>2, <3>1, SettingCounts
    <3>2. CASE regs' = [regs EXCEPT !.t2 = regs.t2 + 1, !.t0 = regs.t0 + 1]
      BY <1>1, <2>2, <3>2, SettingCounts
    <3> QED
      BY <2>1, <3>1, <3>2
  <2>4. FrameWithS0(4)'
    BY <1>1, <2>1, Places3 DEF FrameWithS0, FrameOf
  <2> QED
    BY <1>1, <2>1, <2>3, <2>4 DEF Control3, Types3, Place3
<1>6. CASE LongestReturns
  <2>1. /\ pc = LOOP_LONGEST_SORTED /\ stack' = Popped(16) /\ pc' = regs'.ra
        /\ regs' = [regs EXCEPT !.v0 = FinalCount, !.a1 = AtSP(0), !.a0 = AtSP(4),
                                !.s0 = AtSP(8), !.ra = AtSP(12)]
    BY <1>6 DEF LongestReturns, JrRa, AtLeastLastRun
  <2>2. Len(stack) = 4 /\ stack[4] = Caller(3) /\ stack[3] = before.regs.s0
    BY <2>1, Places3, SMT DEF FrameWithS0, FrameOf
  <2>3. AtSP(8) = before.regs.s0 /\ AtSP(12) = Caller(3) /\ stack' = << >>
    BY <1>1, <2>1, <2>2, Offsets, WholeFrame
  <2>4. /\ AtSP(0) \in Int /\ AtSP(4) \in Int /\ AtSP(8) \in Int /\ AtSP(12) \in Int
        /\ FinalCount \in Int
    <3>1. stack[1] \in Int /\ stack[2] \in Int /\ stack[3] \in Int /\ stack[4] \in Int
      BY <1>1, <2>2, StackWords
    <3> QED
      BY <1>2, <3>1, Offsets DEF FinalCount
  <2>5. regs' \in Registers3 /\ regs'.s0 = AtSP(8) /\ regs'.ra = AtSP(12)
    <3>1. PICK u \in Int, v \in Int, w \in Int, x \in Int, y \in Int :
            u = FinalCount /\ v = AtSP(0) /\ w = AtSP(4) /\ x = AtSP(8) /\ y = AtSP(12)
      BY <2>4
    <3>2. regs' = [regs EXCEPT !.v0 = u, !.a1 = v, !.a0 = w, !.s0 = x, !.ra = y]
      BY <2>1, <3>1
    <3>3. regs' \in Registers3 /\ regs'.s0 = x /\ regs'.ra = y
      BY <1>1, <3>2 DEF Registers3
    <3> QED
      BY <3>1, <3>3
  <2>6. pc' = Caller(3) /\ S0Kept' /\ stack' \in Seq(Int)
    BY <1>1, <2>1, <2>3, <2>5, EmptySeq DEF S0Kept
  <2> QED
    BY <1>1, <2>3, <2>5, <2>6 DEF Control3, Types3, Place3, Caller
<1> QED
  BY <1>3, <1>4, <1>5, <1>6

-----------------------------------------------------------------------------
(* rotateShort and rotateLong, and the functions of the test that they call *)

LEMMA ChangedWords ==
  ASSUME NEW s \in Seq(Int), NEW t \in [1 .. Len(s) -> Int]
  PROVE  t \in Seq(Int) /\ Len(t) = Len(s)
<1>1. Len(s) \in Nat
  BY LenProperties
<1>2. t \in Seq(Int)
  BY <1>1, SeqDef
<1>3. Len(t) \in Nat /\ DOMAIN t = 1 .. Len(t) /\ DOMAIN t = 1 .. Len(s)
  BY <1>2, LenProperties
<1> QED
  BY <1>1, <1>2, <1>3, SMT

LEMMA TrashedRegisters ==
  ASSUME regs \in Registers3, regs' = Trashed
  PROVE  regs' \in Registers3 /\ regs'.s0 = regs.s0 /\ regs'.ra = regs.ra
<1>1. PICK u \in Int, v \in Int : u = Junk /\ v = regs.a0
  BY Fields3 DEF Junk
<1> DEFINE arguments == [regs EXCEPT !.a0 = u, !.a1 = u, !.a2 = u, !.a3 = u]
           trashed == [arguments EXCEPT !.t0 = u, !.t2 = u, !.t9 = u, !.v0 = v]
<1>2. regs' = trashed
  BY <1>1 DEF Trashed
<1>3. arguments \in Registers3 /\ arguments.s0 = regs.s0 /\ arguments.ra = regs.ra
  <2>1. regs \in Registers3
    OBVIOUS
  <2> QED
    BY <2>1, Zenon DEF Registers3
<1>4. trashed \in Registers3 /\ trashed.s0 = regs.s0 /\ trashed.ra = regs.ra
  <2> HIDE DEF arguments
  <2>1. trashed \in Registers3
    BY <1>3, Zenon DEF Registers3
  <2>2. trashed.s0 = arguments.s0
    BY <1>3, Zenon DEF Registers3
  <2>3. trashed.ra = arguments.ra
    BY <1>3, Zenon DEF Registers3
  <2> QED
    BY <1>3, <2>1, <2>2, <2>3
<1> HIDE DEF trashed
<1> QED
  BY <1>2, <1>4

LEMMA UtilFrames ==
  ASSUME Control3, UtilShort \/ UtilLong
  PROVE  Control3'
<1>1. /\ regs \in Registers3 /\ before.regs \in Registers3 /\ stack \in Seq(Int)
      /\ before' = before /\ stack' = stack
      /\ regs' = Trashed /\ below' = <<Junk, Junk, Junk>> /\ pc' = regs'.ra
  BY DEF Control3, Types3, UtilShort, UtilLong, JrRa
<1>2. regs' \in Registers3 /\ regs'.s0 = regs.s0 /\ regs'.ra = regs.ra
  BY <1>1, TrashedRegisters
<1>3. below'[1] \in Int /\ below'[2] \in Int /\ below'[3] \in Int
  BY <1>1, SMT DEF Junk
<1>4. Types3'
  BY <1>1, <1>2, <1>3 DEF Control3, Types3, Caller
<1>5. CASE UtilShort
  <2>1. pc = utilShort
    BY <1>5 DEF UtilShort
  <2>2. FrameWithS0(7)' /\ pc' = AfterUtilShort
    BY <1>1, <1>2, <2>1, Places3 DEF FrameWithS0, FrameOf, Caller
  <2> QED
    BY <1>4, <2>2 DEF Control3, Place3, AfterUtilShort, LOOP_ROTATE_SHORT
<1>6. CASE UtilLong
  <2>1. pc = utilLong
    BY <1>6 DEF UtilLong
  <2>2. FrameWithS0(10)' /\ pc' = AfterUtilLong
    BY <1>1, <1>2, <2>1, Places3 DEF FrameWithS0, FrameOf, Caller
  <2> QED
    BY <1>4, <2>2 DEF Control3, Place3, AfterUtilLong, LOOP_ROTATE_LONG
<1> QED
  BY <1>5, <1>6

LEMMA RotateShortFrame ==
  ASSUME Control3, RotateShort \/ CallUtilShort \/ RotateThree \/ RotateShortReturns
  PROVE  Control3'
<1>1. /\ regs \in Registers3 /\ before.regs \in Registers3 /\ stack \in Seq(Int)
      /\ before' = before /\ below' = below
  BY DEF Control3, Types3, RotateShort, CallUtilShort, RotateThree, RotateShortReturns
<1>2. /\ regs.a0 \in Int /\ regs.a1 \in Int /\ regs.a2 \in Int /\ regs.a3 \in Int
      /\ regs.v0 \in Int /\ regs.ra \in Int /\ regs.s0 \in Int /\ regs.t0 \in Int
  BY <1>1, Fields3
<1>3. ASSUME pc \in {LOOP_ROTATE_SHORT, AfterUtilShort}
      PROVE  /\ Len(stack) = 7 /\ stack[7] = Caller(3) /\ stack[6] = before.regs.s0
             /\ \A k \in 1 .. 7 : stack[k] \in Int
             /\ AtSP(0) \in Int /\ AtSP(4) \in Int /\ AtSP(8) \in Int /\ AtSP(12) \in Int
             /\ AtSP(16) \in Int /\ AtSP(20) \in Int /\ AtSP(24) \in Int
  <2>1. Len(stack) = 7 /\ stack[7] = Caller(3) /\ stack[6] = before.regs.s0
    BY <1>3, Places3, SMT DEF FrameWithS0, FrameOf
  <2>2. \A k \in 1 .. 7 : stack[k] \in Int
    BY <1>1, <2>1, StackWords
  <2>3. /\ stack[1] \in Int /\ stack[2] \in Int /\ stack[3] \in Int /\ stack[4] \in Int
        /\ stack[5] \in Int /\ stack[6] \in Int /\ stack[7] \in Int
    BY <2>2, SMT
  <2> QED
    BY <2>1, <2>2, <2>3, Offsets
<1>4. CASE RotateShort
  <2> DEFINE frame == <<Junk, regs.a0, regs.a1, regs.a2, regs.a3, regs.s0, regs.ra>>
  <2>1. /\ pc = rotateShort /\ stack' = Pushed(frame)
        /\ regs' = [regs EXCEPT !.s0 = 0, !.t0 = 0] /\ pc' = LOOP_ROTATE_SHORT
    BY <1>4 DEF RotateShort
  <2>2. stack = << >> /\ S0Kept /\ regs.ra = Caller(3)
    BY <2>1, Labels3, Places3 DEF Functions3
  <2>3. regs' \in Registers3
    <3>1. PICK zero \in Int : zero = 0
      OBVIOUS
    <3>2. regs' = [regs EXCEPT !.s0 = zero, !.t0 = zero]
      BY <2>1, <3>1
    <3> QED
      BY <1>1, <3>2 DEF Registers3
  <2>4. frame \in Seq(Int) /\ Len(frame) = 7 /\ frame[6] = regs.s0 /\ frame[7] = regs.ra
    BY <1>2, SMT DEF Junk
  <2> HIDE DEF frame
  <2>5. stack' = frame
    BY <2>1, <2>2, <2>4, FirstFrame
  <2>6. FrameWithS0(7)'
    BY <1>1, <2>2, <2>4, <2>5 DEF FrameWithS0, FrameOf, S0Kept, Caller
  <2> QED
    BY <1>1, <2>1, <2>3, <2>4, <2>5, <2>6 DEF Control3, Types3, Place3, Caller
<1>5. CASE CallUtilShort
  <2>1. /\ pc = LOOP_ROTATE_SHORT /\ stack' = Stored(0, regs.t0) /\ pc' = utilShort
        /\ regs' = [[regs EXCEPT !.a0 = AtSP(8), !.a1 = AtSP(12), !.a2 = AtSP(16)]
                      EXCEPT !.ra = AfterUtilShort]
    BY <1>5 DEF CallUtilShort, Jal
  <2>2. AtSP(8) \in Int /\ AtSP(12) \in Int /\ AtSP(16) \in Int /\ AfterUtilShort \in Int
    BY <1>3, <2>1, Labels3
  <2>3. regs' \in Registers3 /\ regs'.ra = AfterUtilShort
    <3>1. PICK u \in Int, v \in Int, w \in Int, x \in Int :
            u = AtSP(8) /\ v = AtSP(12) /\ w = AtSP(16) /\ x = AfterUtilShort
      BY <2>2
    <3>2. regs' = [[regs EXCEPT !.a0 = u, !.a1 = v, !.a2 = w] EXCEPT !.ra = x]
      BY <2>1, <3>1
    <3>3. regs' \in Registers3 /\ regs'.ra = x
      BY <1>1, <3>2 DEF Registers3
    <3> QED
      BY <3>1, <3>3
  <2>4. stack' = [stack EXCEPT ![1] = regs.t0]
    BY <2>1, Offsets
  <2>5. Len(stack) = 7 /\ stack[7] = Caller(3) /\ stack[6] = before.regs.s0
    BY <1>3, <2>1
  <2>6. /\ stack' \in Seq(Int) /\ Len(stack') = 7
        /\ stack'[7] = Caller(3) /\ stack'[6] = before.regs.s0
    <3>1. 1 \in 1 .. Len(stack) /\ 6 \in 1 .. Len(stack) /\ 7 \in 1 .. Len(stack)
      BY <2>5
    <3>2. /\ stack' \in Seq(Int) /\ Len(stack') = Len(stack)
          /\ \A j \in 1 .. Len(stack) : stack'[j] = IF j = 1 THEN regs.t0 ELSE stack[j]
      BY <1>1, <1>2, <2>4, <3>1, ExceptSeq
    <3> QED
      BY <2>5, <3>1, <3>2
  <2>7. FrameWithS0(7)'
    BY <1>1, <2>6 DEF FrameWithS0, FrameOf, Caller
  <2> QED
    BY <1>1, <2>1, <2>3, <2>6, <2>7 DEF Control3, Types3, Place3, Caller, AfterUtilShort, utilShort
<1>6. CASE RotateThree
  <2>1. /\ pc = AfterUtilShort /\ pc' = LOOP_ROTATE_SHORT
        /\ stack' = [stack EXCEPT ![3] = AtSP(12), ![4] = AtSP(16), ![5] = AtSP(8)]
        /\ regs' = [regs EXCEPT !.s0 = regs.s0 + regs.v0, !.t0 = AtSP(0) + 1, !.t2 = AtSP(16)]
    BY <1>6 DEF RotateThree
  <2>2. regs.s0 + regs.v0 \in Int /\ AtSP(0) + 1 \in Int /\ AtSP(16) \in Int
    BY <1>2, <1>3, <2>1
  <2>3. regs' \in Registers3
    <3>1. PICK u \in Int, v \in Int, w \in Int :
            u = regs.s0 + regs.v0 /\ v = AtSP(0) + 1 /\ w = AtSP(16)
      BY <2>2
    <3>2. regs' = [regs EXCEPT !.s0 = u, !.t0 = v, !.t2 = w]
      BY <2>1, <3>1
    <3> QED
      BY <1>1, <3>2 DEF Registers3
  <2>4. PICK u \in Int, v \in Int, w \in Int :
          stack' = [stack EXCEPT ![3] = u, ![4] = v, ![5] = w]
    BY <1>3, <2>1
  <2>5. /\ Len(stack) = 7 /\ stack[7] = Caller(3) /\ stack[6] = before.regs.s0
        /\ stack \in [1 .. 7 -> Int]
    BY <1>1, <1>3, <2>1, LenProperties
  <2>6. /\ stack' \in [1 .. 7 -> Int]
        /\ stack'[7] = Caller(3) /\ stack'[6] = before.regs.s0
    BY <2>4, <2>5, SMT
  <2>7. stack' \in Seq(Int) /\ Len(stack') = 7
    BY <1>1, <2>5, <2>6, ChangedWords
  <2>8. FrameWithS0(7)'
    BY <1>1, <2>6, <2>7 DEF FrameWithS0, FrameOf, Caller
  <2> QED
    BY <1>1, <2>1, <2>3, <2>7, <2>8 DEF Control3, Types3, Place3, Caller
<1>7. CASE RotateShortReturns
  <2>1. /\ pc = LOOP_ROTATE_SHORT /\ stack' = Popped(28) /\ pc' = regs'.ra
        /\ regs' = [regs EXCEPT !.v0 = regs.s0, !.a0 = AtSP(4), !.s0 = AtSP(20), !.ra = AtSP(24)]
    BY <1>7 DEF RotateShortReturns, JrRa
  <2>2. AtSP(20) = before.regs.s0 /\ AtSP(24) = Caller(3) /\ stack' = << >>
    BY <1>1, <1>3, <2>1, Offsets, WholeFrame
  <2>3. regs' \in Registers3 /\ regs'.s0 = AtSP(20) /\ regs'.ra = AtSP(24)
    <3>1. PICK u \in Int, v \in Int, w \in Int, x \in Int :
            u = regs.s0 /\ v = AtSP(4) /\ w = AtSP(20) /\ x = AtSP(24)
      BY <1>2, <1>3, <2>1
    <3>2. regs' = [regs EXCEPT !.v0 = u, !.a0 = v, !.s0 = w, !.ra = x]
      BY <2>1, <3>1
    <3>3. regs' \in Registers3 /\ regs'.s0 = w /\ regs'.ra = x
      BY <1>1, <3>2 DEF Registers3
    <3> QED
      BY <3>1, <3>3
  <2>4. pc' = Caller(3) /\ S0Kept' /\ stack' \in Seq(Int)
    BY <1>1, <2>1, <2>2, <2>3, EmptySeq DEF S0Kept
  <2> QED
    BY <1>1, <2>2, <2>3, <2>4 DEF Control3, Types3, Place3, Caller
<1> QED
  BY <1>4, <1>5, <1>6, <1>7

LEMMA RotateLongFrame ==
  ASSUME Control3, RotateLong \/ CallUtilLong \/ RotateSix \/ RotateLongReturns
  PROVE  Control3'
<1>1. /\ regs \in Registers3 /\ before.regs \in Registers3 /\ stack \in Seq(Int)
      /\ before' = before
      /\ below[1] \in Int /\ below[2] \in Int /\ below[3] \in Int
  BY DEF Control3, Types3, RotateLong, CallUtilLong, RotateSix, RotateLongReturns
<1>2. /\ regs.a0 \in Int /\ regs.a1 \in Int /\ regs.a2 \in Int /\ regs.a3 \in Int
      /\ regs.v0 \in Int /\ regs.ra \in Int /\ regs.s0 \in Int /\ regs.t9 \in Int
  BY <1>1, Fields3
<1>3. ASSUME pc \in {LOOP_ROTATE_LONG, AfterUtilLong}
      PROVE  /\ Len(stack) = 10 /\ stack[10] = Caller(3) /\ stack[9] = before.regs.s0
             /\ \A k \in 1 .. 10 : stack[k] \in Int
             /\ AtSP(0) \in Int /\ AtSP(4) \in Int /\ AtSP(8) \in Int /\ AtSP(12) \in Int
             /\ AtSP(16) \in Int /\ AtSP(20) \in Int /\ AtSP(24) \in Int /\ AtSP(28) \in Int
             /\ AtSP(32) \in Int /\ AtSP(36) \in Int
  <2>1. Len(stack) = 10 /\ stack[10] = Caller(3) /\ stack[9] = before.regs.s0
    BY <1>3, Places3, SMT DEF FrameWithS0, FrameOf
  <2>2. \A k \in 1 .. 10 : stack[k] \in Int
    BY <1>1, <2>1, StackWords
  <2>3. /\ stack[1] \in Int /\ stack[2] \in Int /\ stack[3] \in Int /\ stack[4] \in Int
        /\ stack[5] \in Int /\ stack[6] \in Int /\ stack[7] \in Int /\ stack[8] \in Int
        /\ stack[9] \in Int /\ stack[10] \in Int
    BY <2>2, SMT
  <2> QED
    BY <2>1, <2>2, <2>3, Offsets
<1>4. CASE RotateLong
  <2> DEFINE frame == <<regs.a0, regs.a1, regs.a2, regs.a3, below[3], below[2], below[1],
                        below[3], regs.s0, regs.ra>>
  <2>1. /\ pc = rotateLong /\ stack' = Pushed(frame)
        /\ regs' = [regs EXCEPT !.s0 = 0, !.t9 = 0] /\ pc' = LOOP_ROTATE_LONG
        /\ below' = <<Junk, Junk, Junk>>
    BY <1>4 DEF RotateLong
  <2>2. stack = << >> /\ S0Kept /\ regs.ra = Caller(3)
    BY <2>1, Labels3, Places3 DEF Functions3
  <2>3. regs' \in Registers3
    <3>1. PICK zero \in Int : zero = 0
      OBVIOUS
    <3>2. regs' = [regs EXCEPT !.s0 = zero, !.t9 = zero]
      BY <2>1, <3>1
    <3> QED
      BY <1>1, <3>2 DEF Registers3
  <2>4. frame \in Seq(Int) /\ Len(frame) = 10 /\ frame[9] = regs.s0 /\ frame[10] = regs.ra
    BY <1>1, <1>2, SMT
  <2> HIDE DEF frame
  <2>5. stack' = frame
    BY <2>1, <2>2, <2>4, FirstFrame
  <2>6. FrameWithS0(10)'
    BY <1>1, <2>2, <2>4, <2>5 DEF FrameWithS0, FrameOf, S0Kept, Caller
  <2>7. below'[1] \in Int /\ below'[2] \in Int /\ below'[3] \in Int
    BY <2>1, SMT DEF Junk
  <2> QED
    BY <1>1, <2>1, <2>3, <2>4, <2>5, <2>6, <2>7 DEF Control3, Types3, Place3, Caller
<1>5. CASE CallUtilLong
  <2>1. /\ pc = LOOP_ROTATE_LONG /\ stack' = Stored(28, regs.t9) /\ pc' = utilLong
        /\ below' = <<AtSP(24), AtSP(20), Junk>>
        /\ regs' = [[regs EXCEPT !.a0 = AtSP(4), !.a1 = AtSP(8), !.a2 = AtSP(12), !.a3 = AtSP(16)]
                      EXCEPT !.ra = AfterUtilLong]
    BY <1>5 DEF CallUtilLong, Jal
  <2>2. /\ AtSP(4) \in Int /\ AtSP(8) \in Int /\ AtSP(12) \in Int /\ AtSP(16) \in Int
        /\ AtSP(20) \in Int /\ AtSP(24) \in Int /\ AfterUtilLong \in Int
    BY <1>3, <2>1, Labels3
  <2>3. regs' \in Registers3 /\ regs'.ra = AfterUtilLong
    <3>1. PICK u \in Int, v \in Int, w \in Int, x \in Int, y \in Int :
            u = AtSP(4) /\ v = AtSP(8) /\ w = AtSP(12) /\ x = AtSP(16) /\ y = AfterUtilLong
      BY <2>2
    <3>2. regs' = [[regs EXCEPT !.a0 = u, !.a1 = v, !.a2 = w, !.a3 = x] EXCEPT !.ra = y]
      BY <2>1, <3>1
    <3>3. regs' \in Registers3 /\ regs'.ra = y
      BY <1>1, <3>2 DEF Registers3
    <3> QED
      BY <3>1, <3>3
  <2>4. stack' = [stack EXCEPT ![8] = regs.t9]
    BY <2>1, Offsets
  <2>5. Len(stack) = 10 /\ stack[10] = Caller(3) /\ stack[9] = before.regs.s0
    BY <1>3, <2>1
  <2>6. /\ stack' \in Seq(Int) /\ Len(stack') = 10
        /\ stack'[10] = Caller(3) /\ stack'[9] = before.regs.s0
    <3>1. 8 \in 1 .. Len(stack) /\ 9 \in 1 .. Len(stack) /\ 10 \in 1 .. Len(stack)
      BY <2>5
    <3>2. /\ stack' \in Seq(Int) /\ Len(stack') = Len(stack)
          /\ \A j \in 1 .. Len(stack) : stack'[j] = IF j = 8 THEN regs.t9 ELSE stack[j]
      BY <1>1, <1>2, <2>4, <3>1, ExceptSeq
    <3> QED
      BY <2>5, <3>1, <3>2
  <2>7. below'[1] \in Int /\ below'[2] \in Int /\ below'[3] \in Int
    BY <2>1, <2>2, SMT DEF Junk
  <2>8. FrameWithS0(10)'
    BY <1>1, <2>6 DEF FrameWithS0, FrameOf, Caller
  <2> QED
    BY <1>1, <2>1, <2>3, <2>6, <2>7, <2>8 DEF Control3, Types3, Place3, Caller, AfterUtilLong, utilLong
<1>6. CASE RotateSix
  <2>1. /\ pc = AfterUtilLong /\ pc' = LOOP_ROTATE_LONG /\ below' = below
        /\ stack' = [k \in DOMAIN stack |-> IF k \in 2 .. 6 THEN stack[k + 1]
                                            ELSE IF k = 7 THEN stack[2] ELSE stack[k]]
        /\ regs' = [regs EXCEPT !.s0 = regs.s0 + regs.v0, !.t9 = AtSP(28) + 1]
    BY <1>6 DEF RotateSix
  <2>2. regs.s0 + regs.v0 \in Int /\ AtSP(28) + 1 \in Int
    BY <1>2, <1>3, <2>1
  <2>3. regs' \in Registers3
    <3>1. PICK u \in Int, v \in Int : u = regs.s0 + regs.v0 /\ v = AtSP(28) + 1
      BY <2>2
    <3>2. regs' = [regs EXCEPT !.s0 = u, !.t9 = v]
      BY <2>1, <3>1
    <3> QED
      BY <1>1, <3>2 DEF Registers3
  <2>4. /\ Len(stack) = 10 /\ stack[10] = Caller(3) /\ stack[9] = before.regs.s0
        /\ DOMAIN stack = 1 .. 10 /\ \A k \in 1 .. 10 : stack[k] \in Int
    BY <1>1, <1>3, <2>1, LenProperties
  <2>5. /\ stack' \in [1 .. 10 -> Int]
        /\ stack'[10] = Caller(3) /\ stack'[9] = before.regs.s0
    BY <2>1, <2>4, SMT
  <2>6. stack' \in Seq(Int) /\ Len(stack') = 10
    BY <1>1, <2>4, <2>5, ChangedWords
  <2>7. FrameWithS0(10)'
    BY <1>1, <2>5, <2>6 DEF FrameWithS0, FrameOf, Caller
  <2> QED
    BY <1>1, <2>1, <2>3, <2>6, <2>7 DEF Control3, Types3, Place3, Caller
<1>7. CASE RotateLongReturns
  <2>1. /\ pc = LOOP_ROTATE_LONG /\ stack' = Popped(40) /\ pc' = regs'.ra /\ below' = below
        /\ regs' = [regs EXCEPT !.v0 = regs.s0, !.a0 = AtSP(0), !.s0 = AtSP(32), !.ra = AtSP(36)]
    BY <1>7 DEF RotateLongReturns, JrRa, FrameOfRotateLong
  <2>2. AtSP(32) = before.regs.s0 /\ AtSP(36) = Caller(3) /\ stack' = << >>
    BY <1>1, <1>3, <2>1, Offsets, WholeFrame
  <2>3. regs' \in Registers3 /\ regs'.s0 = AtSP(32) /\ regs'.ra = AtSP(36)
    <3>1. PICK u \in Int, v \in Int, w \in Int, x \in Int :
            u = regs.s0 /\ v = AtSP(0) /\ w = AtSP(32) /\ x = AtSP(36)
      BY <1>2, <1>3, <2>1
    <3>2. regs' = [regs EXCEPT !.v0 = u, !.a0 = v, !.s0 = w, !.ra = x]
      BY <2>1, <3>1
    <3>3. regs' \in Registers3 /\ regs'.s0 = w /\ regs'.ra = x
      BY <1>1, <3>2 DEF Registers3
    <3> QED
      BY <3>1, <3>3
  <2>4. pc' = Caller(3) /\ S0Kept' /\ stack' \in Seq(Int)
    BY <1>1, <2>1, <2>2, <2>3, EmptySeq DEF S0Kept
  <2> QED
    BY <1>1, <2>1, <2>2, <2>3, <2>4 DEF Control3, Types3, Place3, Caller
<1> QED
  BY <1>4, <1>5, <1>6, <1>7

-----------------------------------------------------------------------------

LEMMA CalledRegisters3 ==
  ASSUME NEW a0 \in Int, NEW a1 \in Int, NEW a2 \in Int, NEW a3 \in Int
  PROVE  /\ Registers(a0, a1, a2, a3) \in Registers3
         /\ Registers(a0, a1, a2, a3).ra = Caller(3)
         /\ Registers(a0, a1, a2, a3).a0 = a0 /\ Registers(a0, a1, a2, a3).a1 = a1
BY DEF Registers, Registers3, Junk, Caller, Line

LEMMA CalledFrame ==
  ASSUME NEW f \in Functions3, NEW registers \in Registers3, NEW data,
         registers.ra = Caller(3), f = gcf => registers.a0 > 0 /\ registers.a1 > 0,
         below = <<6, 5, 4>>, Called(f, registers, data)
  PROVE  Control3
<1>1. /\ pc = f /\ regs = registers /\ before.regs = registers /\ stack = << >>
  BY DEF Called
<1>2. below[1] \in Int /\ below[2] \in Int /\ below[3] \in Int /\ stack \in Seq(Int)
  BY <1>1, EmptySeq, SMT
<1>3. Types3
  BY <1>1, <1>2 DEF Types3
<1>4. Place3
  BY <1>1 DEF Place3, S0Kept
<1> QED
  BY <1>3, <1>4 DEF Control3

LEMMA InitialFrames ==
  ASSUME InitAsm3
  PROVE  Control3
<1>1. below = <<6, 5, 4>>
  BY DEF InitAsm3
<1>2. Junk \in Int /\ 0 \in Int /\ 1 \in Int /\ 2 \in Int /\ 3 \in Int
  BY DEF Junk
<1>3. ASSUME NEW s \in Strings, Called(strlen, With(0, Junk), Terminated(s))
      PROVE  Control3
  <2>1. strlen \in Functions3 /\ strlen # gcf
    BY Labels3 DEF Functions3
  <2>8. With(0, Junk) \in Registers3 /\ With(0, Junk).ra = Caller(3)
    BY <1>2, <2>1, CalledRegisters3 DEF With
  <2> QED
    BY <1>1, <1>3, <2>1, <2>8, CalledFrame
<1>4. ASSUME NEW a \in Numbers, NEW b \in Numbers, Called(gcf, With(a, b), NoData)
      PROVE  Control3
  <2>1. a \in Int /\ b \in Int /\ a > 0 /\ b > 0
    BY NumbersAssumption
  <2>2. gcf \in Functions3
    BY DEF Functions3
  <2>8. With(a, b) \in Registers3 /\ With(a, b).ra = Caller(3)
    BY <1>2, <2>1, <2>2, CalledRegisters3 DEF With
  <2>9. With(a, b).a0 > 0 /\ With(a, b).a1 > 0
    BY <1>2, <2>1, CalledRegisters3 DEF With
  <2> QED
    BY <1>1, <1>4, <2>1, <2>2, <2>8, <2>9, CalledFrame
<1>5. ASSUME NEW n \in Counts, Called(bottles, With(n, Junk), NoData)
      PROVE  Control3
  <2>1. n \in Int /\ bottles \in Functions3 /\ bottles # gcf
    BY CountsAssumption, Labels3 DEF Functions3
  <2>8. With(n, Junk) \in Registers3 /\ With(n, Junk).ra = Caller(3)
    BY <1>2, <2>1, CalledRegisters3 DEF With
  <2> QED
    BY <1>1, <1>5, <2>1, <2>8, CalledFrame
<1>6. ASSUME NEW s \in ArraysOf(ItemValues), Called(longestSorted, With(0, Cardinality(DOMAIN s)), s)
      PROVE  Control3
  <2>1. longestSorted \in Functions3 /\ longestSorted # gcf
    BY Labels3 DEF Functions3
  <2>2. Cardinality(DOMAIN s) \in Int
    <3>1. PICK n \in 0 .. Length : s \in [0 .. n - 1 -> ItemValues]
      BY DEF ArraysOf
    <3>2. IsFiniteSet(0 .. n - 1)
      BY <3>1, FS_Interval, LengthAssumption
    <3> QED
      BY <3>1, <3>2, FS_CardinalityType
  <2>8. With(0, Cardinality(DOMAIN s)) \in Registers3 /\ With(0, Cardinality(DOMAIN s)).ra = Caller(3)
    BY <1>2, <2>1, <2>2, CalledRegisters3 DEF With
  <2> QED
    BY <1>1, <1>6, <2>1, <2>2, <2>8, CalledFrame
<1>7. ASSUME NEW n \in Counts, NEW f \in {rotateShort, rotateLong},
             Called(f, Registers(n, 1, 2, 3), NoData)
      PROVE  Control3
  <2>1. n \in Int /\ f \in Functions3 /\ f # gcf
    BY CountsAssumption, Labels3 DEF Functions3
  <2>8. Registers(n, 1, 2, 3) \in Registers3 /\ Registers(n, 1, 2, 3).ra = Caller(3)
    BY <1>2, <2>1, CalledRegisters3
  <2> QED
    BY <1>1, <1>7, <2>1, <2>8, CalledFrame
<1> QED
  BY <1>3, <1>4, <1>5, <1>6, <1>7 DEF InitAsm3

LEMMA FramesStep ==
  ASSUME Control3, [CodeAsm3]_<<call, below>>
  PROVE  Control3'
<1>1. CASE UNCHANGED <<call, below>>
  <2>1. pc' = pc /\ regs' = regs /\ stack' = stack /\ before' = before /\ below' = below
    BY <1>1 DEF call, machine
  <2>2. Types3'
    BY <2>1 DEF Control3, Types3, Caller
  <2>3. /\ S0Kept' = S0Kept
        /\ \A n \in Nat : /\ FrameOf(n)' = FrameOf(n) /\ FrameWithS0(n)' = FrameWithS0(n)
                         /\ GcfFrames(stack, n)' = GcfFrames(stack, n)
    BY <2>1 DEF S0Kept, FrameOf, FrameWithS0, GcfFrames, Caller, EXIT_GCF
  <2>4. Place3' = Place3
    BY <2>1, <2>3 DEF Place3, Functions3, Caller, strlen, LOOP_STRLEN, gcf, EXIT_GCF, bottles,
       LOOP_BOTTLES, longestSorted, LOOP_LONGEST_SORTED, rotateShort, LOOP_ROTATE_SHORT,
       AfterUtilShort, rotateLong, LOOP_ROTATE_LONG, AfterUtilLong, utilShort, utilLong
  <2> QED
    BY <2>2, <2>4 DEF Control3
<1>2. CASE CodeAsm3
  BY <1>2, StrlenFrame, GcfStackFrame, BottlesFrame, LongestSortedFrame, UtilFrames,
     RotateShortFrame, RotateLongFrame DEF CodeAsm3
<1> QED
  BY <1>1, <1>2

\* Every function of asm3.s, with gcf called to any depth and with the functions
\* of the test trashing what they may, returns with the caller's stack and $s0.
THEOREM FramesAreBalanced == SpecAsm3 => []FramesBalanced
<1>1. InitAsm3 => Control3
  BY InitialFrames
<1>2. Control3 /\ [CodeAsm3]_<<call, below>> => Control3'
  BY FramesStep
<1>3. Control3 => FramesBalanced
  <2> SUFFICES ASSUME Control3, pc = Caller(3)
               PROVE  GivenBack({"s0"})
    BY DEF FramesBalanced
  <2>1. stack = << >> /\ S0Kept
    BY Places3
  <2> QED
    BY <2>1 DEF GivenBack, S0Kept
<1> QED
  BY <1>1, <1>2, <1>3, PTL DEF SpecAsm3

-----------------------------------------------------------------------------
(* Words and bytes of any values, counted. *)

OfLength(s, n) == n \in Nat /\ \E S : s \in [1 .. n -> S]

LEMMA LengthOf ==
  ASSUME NEW s, NEW n \in Nat, OfLength(s, n)
  PROVE  /\ Len(s) = n
         /\ SubSeq(s, n + 1, Len(s)) = << >>
<1>1. PICK S : s \in [1 .. n -> S]
  BY DEF OfLength
<1>2. s \in Seq(S) /\ DOMAIN s = 1 .. n
  BY <1>1, SeqDef
<1>3. Len(s) \in Nat /\ DOMAIN s = 1 .. Len(s)
  BY <1>2, LenProperties
<1>4. Len(s) = n
  BY <1>2, <1>3, SMT
<1>5. SubSeq(s, n + 1, Len(s)) = << >>
  BY <1>4, RemovedAll
<1> QED
  BY <1>4, <1>5

LEMMA Overwritten ==
  ASSUME NEW s, NEW n \in Nat, OfLength(s, n), NEW i, NEW word
  PROVE  OfLength([s EXCEPT ![i] = word], n)
<1>1. PICK S : s \in [1 .. n -> S]
  BY DEF OfLength
<1>2. [s EXCEPT ![i] = word] \in [1 .. n -> S \cup {word}]
  BY <1>1
<1> QED
  BY <1>2 DEF OfLength

LEMMA Filled ==
  ASSUME NEW n \in Nat, NEW word
  PROVE  OfLength([k \in 1 .. n |-> word], n)
<1>1. [k \in 1 .. n |-> word] \in [1 .. n -> {word}]
  OBVIOUS
<1> QED
  BY <1>1 DEF OfLength

-----------------------------------------------------------------------------
(* asm5.s *)

LEMMA Labels5 ==
  /\ countLetters = 5053 /\ LOOP_FILL = 5061 /\ AfterFill = 5068 /\ LOOP_COUNT_LETTERS = 5089
  /\ LOOP_PRINT_LETTERS = 5162 /\ subsCipher = 5235 /\ AfterStrlen = 5249
  /\ LOOP_SUBS_CIPHER = 5267 /\ AfterPrintString = 5291 /\ strlenOfText = 5318
  /\ LOOP_STRLEN_OF_TEXT = 5322 /\ printSubstitutedString = 5001 /\ Caller(5) = 5000
BY SMT DEF countLetters, LOOP_FILL, AfterFill, LOOP_COUNT_LETTERS, LOOP_PRINT_LETTERS,
     subsCipher, AfterStrlen, LOOP_SUBS_CIPHER, AfterPrintString, strlenOfText,
     LOOP_STRLEN_OF_TEXT, printSubstitutedString, Caller, Line

Registers5 == [a0 : Int, a1 : Int, v0 : Int, ra : Int, t0 : Int, t2 : Int, t3 : Int,
               t8 : Int, t9 : Int, s0 : Int, s1 : Int, s2 : Int, s3 : Int]

Types5 ==
  /\ regs \in Registers5 /\ before.regs \in Registers5
  /\ before.regs.ra = Caller(5)

\* The $s registers are the caller's.
SKept ==
  LET r == before.regs
  IN  regs.s0 = r.s0 /\ regs.s1 = r.s1 /\ regs.s2 = r.s2 /\ regs.s3 = r.s3

\* What subsCipher saves.
SavedBySubsCipher ==
  LET r == before.regs
  IN  stack = <<r.ra, r.a0, r.a1, r.s0, r.s1, r.s2, r.s3>>

\* dup has room for the string and its 0, and $s3 is its size.
BufferMade == OfLength(buffer, regs.s3)

CountLettersPlaces == {LOOP_FILL, AfterFill, LOOP_COUNT_LETTERS, LOOP_PRINT_LETTERS}

Place5 ==
  \/ pc = countLetters /\ stack = << >> /\ buffer = << >> /\ SKept /\ regs.ra = Caller(5)
  \/ pc = subsCipher /\ stack = << >> /\ buffer = << >> /\ regs = before.regs
  \/ /\ pc \in CountLettersPlaces
     /\ OfLength(stack, Letters + 2) /\ buffer = << >> /\ SKept /\ regs.ra = Caller(5)
  \/ /\ SavedBySubsCipher /\ buffer = << >>
     /\ \/ pc = strlenOfText /\ regs.ra = AfterStrlen
        \/ pc = LOOP_STRLEN_OF_TEXT /\ regs.ra = AfterStrlen /\ regs.v0 >= 0
        \/ pc = AfterStrlen /\ regs.v0 >= 0
  \/ /\ SavedBySubsCipher /\ BufferMade
     /\ \/ /\ pc = LOOP_SUBS_CIPHER
           /\ 0 <= regs.t9 /\ regs.t9 <= regs.t8 /\ regs.t8 < regs.s3
        \/ pc = printSubstitutedString /\ regs.ra = AfterPrintString
        \/ pc = AfterPrintString
  \/ pc = Caller(5) /\ stack = << >> /\ buffer = << >> /\ SKept

Control5 == Types5 /\ Place5

\* What the invariant says at each place.
LEMMA Places5 ==
  ASSUME Control5
  PROVE  /\ pc = countLetters =>
              stack = << >> /\ buffer = << >> /\ SKept /\ regs.ra = Caller(5)
         /\ pc = subsCipher => stack = << >> /\ buffer = << >> /\ regs = before.regs
         /\ pc \in CountLettersPlaces =>
              OfLength(stack, Letters + 2) /\ buffer = << >> /\ SKept /\ regs.ra = Caller(5)
         /\ pc \in {strlenOfText, LOOP_STRLEN_OF_TEXT, AfterStrlen} =>
              /\ SavedBySubsCipher /\ buffer = << >>
              /\ pc # AfterStrlen => regs.ra = AfterStrlen
              /\ pc # strlenOfText => regs.v0 >= 0
         /\ pc \in {LOOP_SUBS_CIPHER, printSubstitutedString, AfterPrintString} =>
              /\ SavedBySubsCipher /\ BufferMade
              /\ pc = LOOP_SUBS_CIPHER =>
                   0 <= regs.t9 /\ regs.t9 <= regs.t8 /\ regs.t8 < regs.s3
              /\ pc = printSubstitutedString => regs.ra = AfterPrintString
         /\ pc = Caller(5) => stack = << >> /\ buffer = << >> /\ SKept
BY Labels5, SMTT(60) DEF Control5, Place5, CountLettersPlaces

LEMMA Fields5 ==
  ASSUME NEW registers \in Registers5
  PROVE  /\ registers.a0 \in Int /\ registers.a1 \in Int /\ registers.v0 \in Int
         /\ registers.ra \in Int /\ registers.t0 \in Int /\ registers.t2 \in Int
         /\ registers.t3 \in Int /\ registers.t8 \in Int /\ registers.t9 \in Int
         /\ registers.s0 \in Int /\ registers.s1 \in Int /\ registers.s2 \in Int
         /\ registers.s3 \in Int
BY DEF Registers5

LEMMA SettingCounters ==
  ASSUME NEW registers \in Registers5, NEW next, NEW u \in Int, NEW v \in Int,
         \/ next = [registers EXCEPT !.t0 = u]
         \/ next = [registers EXCEPT !.t3 = u]
         \/ next = [registers EXCEPT !.t0 = u, !.t2 = v]
  PROVE  /\ next \in Registers5 /\ next.ra = registers.ra
         /\ next.s0 = registers.s0 /\ next.s1 = registers.s1
         /\ next.s2 = registers.s2 /\ next.s3 = registers.s3
<1>1. CASE next = [registers EXCEPT !.t0 = u]
  BY <1>1, SMTT(20) DEF Registers5
<1>2. CASE next = [registers EXCEPT !.t3 = u]
  BY <1>2, ZenonT(30) DEF Registers5
<1>3. CASE next = [registers EXCEPT !.t0 = u, !.t2 = v]
  BY <1>3, ZenonT(30) DEF Registers5
<1> QED
  BY <1>1, <1>2, <1>3

\* A step of countLetters that stays in its frame.
LEMMA CountLettersStays ==
  ASSUME Types5, SKept, regs.ra = Caller(5), buffer = << >>,
         before' = before, buffer' = buffer, pc' \in CountLettersPlaces,
         regs' \in Registers5, regs'.ra = regs.ra, regs'.s0 = regs.s0, regs'.s1 = regs.s1,
         regs'.s2 = regs.s2, regs'.s3 = regs.s3, OfLength(stack', Letters + 2)
  PROVE  Control5'
<1>1. Types5' /\ SKept' /\ regs'.ra = Caller(5) /\ buffer' = << >>
  BY DEF Types5, SKept, Caller
<1>2. Place5'
  BY <1>1 DEF Place5, Caller, OfLength, CountLettersPlaces, LOOP_FILL, AfterFill,
     LOOP_COUNT_LETTERS, LOOP_PRINT_LETTERS
<1> QED
  BY <1>1, <1>2 DEF Control5

LEMMA CountLettersFrame ==
  ASSUME Control5,
         \/ CountLetters \/ FillCounter \/ StartCounting \/ CountCharacter \/ CountingDone
         \/ PrintCounter \/ CountLettersReturns
  PROVE  Control5'
<1>1. /\ Types5 /\ regs \in Registers5 /\ before' = before /\ buffer' = buffer
  BY DEF Control5, Types5, CountLetters, FillCounter, StartCounting, CountCharacter,
     CountingDone, PrintCounter, CountLettersReturns
<1>2. /\ regs.a0 \in Int /\ regs.t0 - 1 \in Int /\ regs.t0 + 1 \in Int
      /\ regs.t2 + 4 \in Int /\ regs.t3 + 1 \in Int
  <2>1. regs.t0 \in Int /\ regs.t2 \in Int /\ regs.t3 \in Int
    BY <1>1, Fields5
  <2> QED
    BY <1>1, <2>1, Fields5
<1>3. Letters \in Nat /\ Letters + 2 \in Nat
  BY LettersAssumption
<1>4. ASSUME pc \in CountLettersPlaces
      PROVE  OfLength(stack, Letters + 2) /\ buffer = << >> /\ SKept /\ regs.ra = Caller(5)
  BY <1>4, Places5
<1>5. CASE CountLetters
  <2>1. /\ pc = countLetters /\ pc' = LOOP_FILL
        /\ stack' = Pushed([k \in 1 .. FrameOfCounters \div 4 |-> Junk])
        /\ regs' = [regs EXCEPT !.t0 = Letters, !.t2 = 0]
    BY <1>5 DEF CountLetters
  <2>2. stack = << >> /\ buffer = << >> /\ SKept /\ regs.ra = Caller(5)
    BY <2>1, Places5
  <2>3. FrameOfCounters \div 4 = Letters + 2
    BY <1>3, SMT DEF FrameOfCounters
  <2> DEFINE words == [k \in 1 .. Letters + 2 |-> Junk]
  <2>4. OfLength(words, Letters + 2) /\ words \in Seq({Junk})
    <3>1. words \in [1 .. Letters + 2 -> {Junk}]
      OBVIOUS
    <3>2. OfLength(words, Letters + 2)
      BY <1>3, Filled
    <3>3. words \in Seq({Junk})
      BY <1>3, <3>1, SeqDef
    <3> QED
      BY <3>2, <3>3
  <2>5. stack' = Pushed(words)
    BY <2>1, <2>3
  <2> HIDE DEF words
  <2>6. stack' = words
    BY <2>2, <2>4, <2>5, ConcatEmptySeq DEF Pushed
  <2>7. PICK u \in Int, v \in Int : u = Letters /\ v = 0
    BY <1>3
  <2>8. regs' = [regs EXCEPT !.t0 = u, !.t2 = v]
    BY <2>1, <2>7
  <2>9. /\ regs' \in Registers5 /\ regs'.ra = regs.ra
        /\ regs'.s0 = regs.s0 /\ regs'.s1 = regs.s1 /\ regs'.s2 = regs.s2 /\ regs'.s3 = regs.s3
    BY <1>1, <2>8, SettingCounters
  <2>10. pc' \in CountLettersPlaces
    BY <2>1 DEF CountLettersPlaces
  <2> QED
    BY <1>1, <2>2, <2>4, <2>6, <2>9, <2>10, CountLettersStays
<1>6. CASE FillCounter
  <2>1. /\ pc = LOOP_FILL /\ pc' \in {AfterFill, LOOP_FILL} /\ stack' = Stored(regs.t2, 0)
        /\ regs' = [regs EXCEPT !.t0 = regs.t0 - 1, !.t2 = regs.t2 + 4]
    BY <1>6 DEF FillCounter
  <2>2. pc \in CountLettersPlaces /\ pc' \in CountLettersPlaces
    BY <2>1 DEF CountLettersPlaces
  <2>3. /\ regs' \in Registers5 /\ regs'.ra = regs.ra
        /\ regs'.s0 = regs.s0 /\ regs'.s1 = regs.s1 /\ regs'.s2 = regs.s2 /\ regs'.s3 = regs.s3
    BY <1>1, <1>2, <2>1, SettingCounters
  <2>4. OfLength(stack', Letters + 2)
    BY <1>3, <1>4, <2>1, <2>2, Overwritten DEF Stored
  <2> QED
    BY <1>1, <1>4, <2>2, <2>3, <2>4, CountLettersStays
<1>7. CASE StartCounting
  <2>1. /\ pc = AfterFill /\ pc' = LOOP_COUNT_LETTERS /\ regs' = [regs EXCEPT !.t3 = regs.a0]
        /\ stack' = [stack EXCEPT ![Other \div 4 + 1] = 0, ![Other \div 4 + 2] = regs.a0]
    BY <1>7 DEF StartCounting
  <2>2. pc \in CountLettersPlaces /\ pc' \in CountLettersPlaces
    BY <2>1 DEF CountLettersPlaces
  <2>3. /\ regs' \in Registers5 /\ regs'.ra = regs.ra
        /\ regs'.s0 = regs.s0 /\ regs'.s1 = regs.s1 /\ regs'.s2 = regs.s2 /\ regs'.s3 = regs.s3
    BY <1>1, <1>2, <2>1, SettingCounters
  <2> DEFINE first == [stack EXCEPT ![Other \div 4 + 1] = 0]
  <2>4. OfLength(first, Letters + 2)
    BY <1>3, <1>4, <2>2, Overwritten
  <2>5. stack' = [first EXCEPT ![Other \div 4 + 2] = regs.a0]
    BY <2>1
  <2>6. OfLength(stack', Letters + 2)
    <3> HIDE DEF first
    <3> QED
      BY <1>3, <2>4, <2>5, Overwritten
  <2> QED
    BY <1>1, <1>4, <2>2, <2>3, <2>6, CountLettersStays
<1>8. CASE CountCharacter
  <2>1. /\ pc = LOOP_COUNT_LETTERS /\ pc' = pc /\ regs' = [regs EXCEPT !.t3 = regs.t3 + 1]
        /\ \E place, word : stack' = Stored(place, word)
    BY <1>8 DEF CountCharacter
  <2>2. pc \in CountLettersPlaces /\ pc' \in CountLettersPlaces
    BY <2>1 DEF CountLettersPlaces
  <2>3. /\ regs' \in Registers5 /\ regs'.ra = regs.ra
        /\ regs'.s0 = regs.s0 /\ regs'.s1 = regs.s1 /\ regs'.s2 = regs.s2 /\ regs'.s3 = regs.s3
    BY <1>1, <1>2, <2>1, SettingCounters
  <2>4. OfLength(stack', Letters + 2)
    <3>1. PICK i, word : stack' = [stack EXCEPT ![i] = word]
      BY <2>1 DEF Stored
    <3> QED
      BY <1>3, <1>4, <2>2, <3>1, Overwritten
  <2> QED
    BY <1>1, <1>4, <2>2, <2>3, <2>4, CountLettersStays
<1>9. CASE CountingDone
  <2>1. /\ pc = LOOP_COUNT_LETTERS /\ pc' = LOOP_PRINT_LETTERS /\ stack' = stack
        /\ regs' = [regs EXCEPT !.t0 = 0]
    BY <1>9 DEF CountingDone
  <2>2. pc \in CountLettersPlaces /\ pc' \in CountLettersPlaces
    BY <2>1 DEF CountLettersPlaces
  <2>3. PICK zero \in Int : zero = 0
    OBVIOUS
  <2>4. regs' = [regs EXCEPT !.t0 = zero]
    BY <2>1, <2>3
  <2>5. /\ regs' \in Registers5 /\ regs'.ra = regs.ra
        /\ regs'.s0 = regs.s0 /\ regs'.s1 = regs.s1 /\ regs'.s2 = regs.s2 /\ regs'.s3 = regs.s3
    BY <1>1, <2>4, SettingCounters
  <2> QED
    BY <1>1, <1>4, <2>1, <2>2, <2>5, CountLettersStays
<1>10. CASE PrintCounter
  <2>1. /\ pc = LOOP_PRINT_LETTERS /\ pc' = pc /\ stack' = stack
        /\ regs' = [regs EXCEPT !.t0 = regs.t0 + 1]
    BY <1>10 DEF PrintCounter
  <2>2. pc \in CountLettersPlaces /\ pc' \in CountLettersPlaces
    BY <2>1 DEF CountLettersPlaces
  <2>3. /\ regs' \in Registers5 /\ regs'.ra = regs.ra
        /\ regs'.s0 = regs.s0 /\ regs'.s1 = regs.s1 /\ regs'.s2 = regs.s2 /\ regs'.s3 = regs.s3
    BY <1>1, <1>2, <2>1, SettingCounters
  <2> QED
    BY <1>1, <1>4, <2>1, <2>2, <2>3, CountLettersStays
<1>11. CASE CountLettersReturns
  <2>1. /\ pc = LOOP_PRINT_LETTERS /\ pc' = regs.ra /\ stack' = Popped(FrameOfCounters)
        /\ regs' = regs
    BY <1>11 DEF CountLettersReturns
  <2>2. pc \in CountLettersPlaces
    BY <2>1 DEF CountLettersPlaces
  <2>3. /\ OfLength(stack, Letters + 2) /\ buffer = << >> /\ SKept /\ regs.ra = Caller(5)
    BY <1>4, <2>2
  <2>4. FrameOfCounters \div 4 = Letters + 2
    BY <1>3, SMT DEF FrameOfCounters
  <2>5. stack' = << >>
    BY <1>3, <2>1, <2>3, <2>4, LengthOf DEF Popped
  <2>6. pc' = Caller(5) /\ SKept' /\ buffer' = << >> /\ Types5'
    BY <1>1, <2>1, <2>3 DEF SKept, Types5, Caller
  <2> QED
    BY <2>5, <2>6 DEF Control5, Place5, Caller
<1> QED
  BY <1>5, <1>6, <1>7, <1>8, <1>9, <1>10, <1>11

\* What is on the stack from the call of strlen to the end of subsCipher.
LEMMA SavedWords ==
  ASSUME Types5, SavedBySubsCipher
  PROVE  /\ AtSP(0) = Caller(5) /\ AtSP(4) = before.regs.a0 /\ AtSP(8) = before.regs.a1
         /\ AtSP(12) = before.regs.s0 /\ AtSP(16) = before.regs.s1
         /\ AtSP(20) = before.regs.s2 /\ AtSP(24) = before.regs.s3
         /\ Popped(28) = << >>
<1> DEFINE r == before.regs
<1>1. stack = <<r.ra, r.a0, r.a1, r.s0, r.s1, r.s2, r.s3>> /\ r.ra = Caller(5)
  BY DEF Types5, SavedBySubsCipher
<1> HIDE DEF r
<1>2. /\ Len(stack) = 7 /\ stack[1] = Caller(5) /\ stack[2] = r.a0 /\ stack[3] = r.a1
      /\ stack[4] = r.s0 /\ stack[5] = r.s1 /\ stack[6] = r.s2 /\ stack[7] = r.s3
  BY <1>1
<1>3. Popped(28) = SubSeq(stack, 7 + 1, Len(stack))
  BY SMT DEF Popped
<1>4. Popped(28) = << >>
  BY <1>2, <1>3, RemovedAll
<1> QED
  BY <1>2, <1>4, Offsets DEF r

LEMMA StrlenOfTextFrame ==
  ASSUME Control5, StrlenOfText \/ StrlenOfTextCounts \/ StrlenOfTextReturns
  PROVE  Control5'
<1>1. /\ Types5 /\ regs \in Registers5 /\ before' = before /\ buffer' = buffer /\ stack' = stack
      /\ pc \in {strlenOfText, LOOP_STRLEN_OF_TEXT}
  BY DEF Control5, Types5, StrlenOfText, StrlenOfTextCounts, StrlenOfTextReturns
<1>2. /\ SavedBySubsCipher /\ buffer = << >> /\ regs.ra = AfterStrlen
      /\ pc = LOOP_STRLEN_OF_TEXT => regs.v0 >= 0
  BY <1>1, Labels5, Places5
<1>3. SavedBySubsCipher' /\ buffer' = << >>
  BY <1>1, <1>2 DEF SavedBySubsCipher
<1>4. CASE StrlenOfText
  <2>1. regs' = [regs EXCEPT !.v0 = 0] /\ pc' = LOOP_STRLEN_OF_TEXT
    BY <1>4 DEF StrlenOfText
  <2>2. PICK zero \in Int : zero = 0
    OBVIOUS
  <2>3. regs' = [regs EXCEPT !.v0 = zero]
    BY <2>1, <2>2
  <2>4. regs' \in Registers5 /\ regs'.ra = regs.ra /\ regs'.v0 = zero
    BY <1>1, <2>3 DEF Registers5
  <2>5. regs'.v0 >= 0 /\ regs'.ra = AfterStrlen
    BY <1>2, <2>2, <2>4
  <2> QED
    BY <1>1, <1>3, <2>1, <2>4, <2>5
       DEF Control5, Types5, Place5, Caller, AfterStrlen, LOOP_STRLEN_OF_TEXT
<1>5. CASE StrlenOfTextCounts
  <2>1. /\ regs' = [regs EXCEPT !.v0 = regs.v0 + 1, !.a0 = regs.a0 + 1]
        /\ pc = LOOP_STRLEN_OF_TEXT /\ pc' = pc
    BY <1>5 DEF StrlenOfTextCounts
  <2>2. regs.v0 \in Int /\ regs.a0 \in Int /\ regs.v0 >= 0
    BY <1>1, <1>2, <2>1, Fields5
  <2>3. PICK u \in Int, v \in Int : u = regs.v0 + 1 /\ v = regs.a0 + 1
    BY <2>2
  <2>4. regs' = [regs EXCEPT !.v0 = u, !.a0 = v]
    BY <2>1, <2>3
  <2>5. regs' \in Registers5 /\ regs'.ra = regs.ra /\ regs'.v0 = u
    BY <1>1, <2>4 DEF Registers5
  <2>6. regs'.v0 >= 0 /\ regs'.ra = AfterStrlen
    BY <1>2, <2>2, <2>3, <2>5
  <2> QED
    BY <1>1, <1>3, <2>1, <2>5, <2>6
       DEF Control5, Types5, Place5, Caller, AfterStrlen, LOOP_STRLEN_OF_TEXT
<1>6. CASE StrlenOfTextReturns
  <2>1. regs' = regs /\ pc = LOOP_STRLEN_OF_TEXT /\ pc' = regs.ra
    BY <1>6 DEF StrlenOfTextReturns
  <2>2. pc' = AfterStrlen /\ regs'.v0 >= 0
    BY <1>2, <2>1
  <2> QED
    BY <1>1, <1>3, <2>1, <2>2 DEF Control5, Types5, Place5, Caller, AfterStrlen
<1> QED
  BY <1>4, <1>5, <1>6

\* A byte stored inside the buffer leaves the stack as it is.
LEMMA StoredInside ==
  ASSUME Types5, BufferMade, NEW i \in Int, 0 <= i, i < regs.s3, NEW byte, StoreByte(i, byte)
  PROVE  stack' = stack /\ OfLength(buffer', regs.s3)
<1>1. regs.s3 \in Nat /\ Len(buffer) = regs.s3
  BY LengthOf DEF BufferMade, OfLength
<1>2. buffer' = [buffer EXCEPT ![i + 1] = byte] /\ stack' = stack
  BY <1>1 DEF StoreByte
<1> QED
  BY <1>1, <1>2, Overwritten DEF BufferMade

LEMMA SubsCipherStarts ==
  ASSUME Control5, SubsCipher
  PROVE  Control5'
<1> DEFINE r == before.regs
           frame == <<r.ra, r.a0, r.a1, r.s0, r.s1, r.s2, r.s3>>
<1>1. /\ Types5 /\ regs \in Registers5 /\ before' = before /\ buffer' = buffer
      /\ pc = subsCipher /\ pc' = strlenOfText
      /\ regs' = [regs EXCEPT !.ra = AfterStrlen]
  BY DEF Control5, Types5, SubsCipher, Jal
<1>2. stack = << >> /\ buffer = << >> /\ regs = r
  BY <1>1, Places5
<1>3. stack' = Pushed(frame)
  BY <1>2 DEF SubsCipher
<1>4. frame \in Seq(Int)
  <2>1. /\ r.ra \in Int /\ r.a0 \in Int /\ r.a1 \in Int
        /\ r.s0 \in Int /\ r.s1 \in Int /\ r.s2 \in Int /\ r.s3 \in Int
    BY <1>1, <1>2, Fields5
  <2> HIDE DEF r
  <2> QED
    BY <2>1, SMT
<1>5. stack' = frame
  <2> HIDE DEF frame
  <2> QED
    BY <1>2, <1>3, <1>4, FirstFrame
<1>6. SavedBySubsCipher'
  BY <1>1, <1>5 DEF SavedBySubsCipher
<1>7. PICK u \in Int : u = AfterStrlen
  BY Labels5
<1>8. regs' = [regs EXCEPT !.ra = u]
  BY <1>1, <1>7
<1>9. regs' \in Registers5 /\ regs'.ra = u
  BY <1>1, <1>8 DEF Registers5
<1> QED
  BY <1>1, <1>2, <1>6, <1>7, <1>9 DEF Control5, Types5, Place5, Caller, AfterStrlen, strlenOfText

LEMMA BufferIsMade ==
  ASSUME Control5, MakeBuffer
  PROVE  Control5'
<1> DEFINE r == before.regs
           len == regs.v0 + 1
<1>1. /\ Types5 /\ regs \in Registers5 /\ before' = before /\ stack' = stack
      /\ pc = AfterStrlen /\ pc' = LOOP_SUBS_CIPHER
      /\ regs' = [regs EXCEPT !.s0 = len, !.s1 = AtSP(4), !.s2 = AtSP(8),
                              !.s3 = RoundedUp(len), !.t9 = 0, !.t8 = len - 1]
      /\ buffer' = [k \in 1 .. RoundedUp(len) |-> Junk]
  BY DEF Control5, Types5, MakeBuffer
<1>2. SavedBySubsCipher /\ regs.v0 >= 0
  BY <1>1, Labels5, Places5
<1>3. regs.v0 \in Int /\ before.regs.a0 \in Int /\ before.regs.a1 \in Int
  BY <1>1, Fields5 DEF Types5
<1>4. RoundedUp(len) \in Nat /\ len \in Int /\ len - 1 < RoundedUp(len) /\ 0 <= len - 1
  BY <1>2, <1>3, SMT DEF RoundedUp
<1>5. AtSP(4) \in Int /\ AtSP(8) \in Int
  BY <1>1, <1>2, <1>3, SavedWords
<1> HIDE DEF len
<1>6. PICK t \in Int, u \in Int, v \in Int, w \in Int, x \in Int, y \in Int :
        /\ t = len /\ u = AtSP(4) /\ v = AtSP(8) /\ w = RoundedUp(len) /\ x = 0 /\ y = len - 1
  BY <1>4, <1>5
<1>7. regs' = [regs EXCEPT !.s0 = t, !.s1 = u, !.s2 = v, !.s3 = w, !.t9 = x, !.t8 = y]
  BY <1>1, <1>6
<1>8. regs' \in Registers5 /\ regs'.s3 = w /\ regs'.t9 = x /\ regs'.t8 = y
  <2>1. regs \in Registers5
    BY <1>1
  <2> QED
    BY <1>7, <2>1, ZenonT(30) DEF Registers5
<1>9. BufferMade'
  BY <1>1, <1>4, <1>6, <1>8, Filled DEF BufferMade
<1>10. 0 <= regs'.t9 /\ regs'.t9 <= regs'.t8 /\ regs'.t8 < regs'.s3
  BY <1>4, <1>6, <1>8
<1>11. SavedBySubsCipher'
  BY <1>1, <1>2 DEF SavedBySubsCipher
<1>12. Place5'
  BY <1>1, <1>9, <1>10, <1>11 DEF Place5, LOOP_SUBS_CIPHER
<1> QED
  BY <1>1, <1>8, <1>12 DEF Control5, Types5, Caller

LEMMA SubstituteFrame ==
  ASSUME Control5, Substitute \/ PrintBuffer
  PROVE  Control5'
<1>1. /\ Types5 /\ regs \in Registers5 /\ before' = before /\ pc = LOOP_SUBS_CIPHER
      /\ \E byte : StoreByte(regs.t9, byte)
  BY DEF Control5, Types5, Substitute, PrintBuffer
<1>2. /\ SavedBySubsCipher /\ BufferMade
      /\ 0 <= regs.t9 /\ regs.t9 <= regs.t8 /\ regs.t8 < regs.s3
  BY <1>1, Places5
<1>3. regs.t9 \in Int /\ regs.t8 \in Int /\ regs.s3 \in Int
  BY <1>1, Fields5
<1>4. regs.t9 < regs.s3
  BY <1>2, <1>3
<1>5. stack' = stack /\ OfLength(buffer', regs.s3)
  BY <1>1, <1>2, <1>3, <1>4, StoredInside
<1>6. SavedBySubsCipher'
  BY <1>1, <1>2, <1>5 DEF SavedBySubsCipher
<1>7. CASE Substitute
  <2>1. /\ regs.t9 < regs.t8 /\ pc' = pc /\ regs' = [regs EXCEPT !.t9 = regs.t9 + 1]
    BY <1>7 DEF Substitute
  <2>2. PICK u \in Int : u = regs.t9 + 1
    BY <1>3
  <2>3. regs' = [regs EXCEPT !.t9 = u]
    BY <2>1, <2>2
  <2>4. /\ regs' \in Registers5 /\ regs'.s3 = regs.s3 /\ regs'.t9 = u /\ regs'.t8 = regs.t8
    BY <1>1, <2>3 DEF Registers5
  <2>5. 0 <= regs'.t9 /\ regs'.t9 <= regs'.t8 /\ regs'.t8 < regs'.s3
    BY <1>2, <1>3, <2>1, <2>2, <2>4
  <2>6. BufferMade'
    BY <1>5, <2>4 DEF BufferMade
  <2>7. Place5'
    BY <1>1, <1>6, <2>1, <2>5, <2>6 DEF Place5, LOOP_SUBS_CIPHER
  <2> QED
    BY <1>1, <2>4, <2>7 DEF Control5, Types5, Caller
<1>8. CASE PrintBuffer
  <2>1. pc' = printSubstitutedString /\ regs' = [regs EXCEPT !.ra = AfterPrintString]
    BY <1>8 DEF PrintBuffer, Jal
  <2>2. PICK u \in Int : u = AfterPrintString
    BY Labels5
  <2>3. regs' = [regs EXCEPT !.ra = u]
    BY <2>1, <2>2
  <2>4. regs' \in Registers5 /\ regs'.s3 = regs.s3 /\ regs'.ra = u
    BY <1>1, <2>3 DEF Registers5
  <2>5. BufferMade' /\ regs'.ra = AfterPrintString
    BY <1>5, <2>2, <2>4 DEF BufferMade
  <2>6. Place5'
    BY <1>6, <2>1, <2>5 DEF Place5, printSubstitutedString, AfterPrintString
  <2> QED
    BY <1>1, <2>4, <2>6 DEF Control5, Types5, Caller
<1> QED
  BY <1>7, <1>8

LEMMA PrintedFrame ==
  ASSUME Control5, PrintSubstitutedString
  PROVE  Control5'
<1>1. /\ Types5 /\ regs \in Registers5 /\ before' = before /\ stack' = stack /\ buffer' = buffer
      /\ pc = printSubstitutedString /\ pc' = regs'.ra
      /\ regs' = [regs EXCEPT !.a0 = Junk, !.a1 = Junk, !.v0 = Junk, !.t8 = Junk, !.t9 = Junk]
  BY DEF Control5, Types5, PrintSubstitutedString, JrRa
<1>2. SavedBySubsCipher /\ BufferMade /\ regs.ra = AfterPrintString
  BY <1>1, Places5
<1>3. PICK u \in Int : u = Junk
  BY DEF Junk
<1>4. regs' = [regs EXCEPT !.a0 = u, !.a1 = u, !.v0 = u, !.t8 = u, !.t9 = u]
  BY <1>1, <1>3
<1>5. regs' \in Registers5 /\ regs'.ra = regs.ra /\ regs'.s3 = regs.s3
  <2>1. regs \in Registers5
    BY <1>1
  <2> QED
    BY <1>4, <2>1, ZenonT(30) DEF Registers5
<1>6. SavedBySubsCipher' /\ BufferMade' /\ pc' = AfterPrintString
  BY <1>1, <1>2, <1>5 DEF SavedBySubsCipher, BufferMade
<1>7. Place5'
  BY <1>6 DEF Place5, AfterPrintString
<1> QED
  BY <1>1, <1>5, <1>7 DEF Control5, Types5, Caller

LEMMA SubsCipherEnds ==
  ASSUME Control5, SubsCipherReturns
  PROVE  Control5'
<1> DEFINE r == before.regs
<1>1. /\ Types5 /\ regs \in Registers5 /\ before' = before /\ r \in Registers5
      /\ pc = AfterPrintString /\ pc' = regs'.ra /\ stack' = Popped(28)
      /\ buffer' = SubSeq(buffer, regs.s3 + 1, Len(buffer))
      /\ regs' = [regs EXCEPT !.ra = AtSP(0), !.a0 = AtSP(4), !.a1 = AtSP(8), !.s0 = AtSP(12),
                              !.s1 = AtSP(16), !.s2 = AtSP(20), !.s3 = AtSP(24)]
  BY DEF Control5, Types5, SubsCipherReturns, JrRa
<1>2. SavedBySubsCipher /\ BufferMade
  BY <1>1, Places5
<1>3. buffer' = << >>
  BY <1>1, <1>2, LengthOf DEF BufferMade, OfLength
<1>4. stack' = << >>
  BY <1>1, <1>2, SavedWords
<1>5. /\ r.a0 \in Int /\ r.a1 \in Int /\ r.s0 \in Int /\ r.s1 \in Int
      /\ r.s2 \in Int /\ r.s3 \in Int
  BY <1>1, Fields5
<1> HIDE DEF r
<1>6. PICK t \in Int, u \in Int, v \in Int : t = Caller(5) /\ u = r.a0 /\ v = r.a1
  BY <1>5, Labels5
<1>7. PICK w \in Int, x \in Int, y \in Int, z \in Int :
        w = r.s0 /\ x = r.s1 /\ y = r.s2 /\ z = r.s3
  BY <1>5
<1>8. regs' = [regs EXCEPT !.ra = t, !.a0 = u, !.a1 = v, !.s0 = w, !.s1 = x, !.s2 = y, !.s3 = z]
  BY <1>1, <1>2, <1>6, <1>7, SavedWords DEF r
<1>9. /\ regs' \in Registers5
      /\ regs'.ra = t /\ regs'.s0 = w /\ regs'.s1 = x /\ regs'.s2 = y /\ regs'.s3 = z
  <2>1. regs \in Registers5
    BY <1>1
  <2> QED
    BY <1>8, <2>1, ZenonT(30) DEF Registers5
<1>10. SKept' /\ pc' = Caller(5)
  BY <1>1, <1>6, <1>7, <1>9 DEF SKept, r
<1>11. Place5'
  BY <1>3, <1>4, <1>10 DEF Place5, Caller
<1> QED
  BY <1>1, <1>9, <1>11 DEF Control5, Types5, Caller

LEMMA CalledRegisters5 ==
  ASSUME NEW a0 \in Int, NEW a1 \in Int
  PROVE  RegistersAsm5(a0, a1) \in Registers5 /\ RegistersAsm5(a0, a1).ra = Caller(5)
BY DEF RegistersAsm5, Registers5, Junk, Caller, Line

LEMMA CalledBuffer ==
  ASSUME NEW f \in {countLetters, subsCipher}, NEW a1 \in Int, NEW data,
         buffer = << >>, Called(f, RegistersAsm5(0, a1), data)
  PROVE  Control5
<1>1. /\ pc = f /\ regs = RegistersAsm5(0, a1) /\ before.regs = regs /\ stack = << >>
  BY DEF Called
<1>2. regs \in Registers5 /\ regs.ra = Caller(5)
  BY <1>1, CalledRegisters5, 0 \in Int
<1>3. Types5
  BY <1>1, <1>2 DEF Types5
<1>4. Place5
  BY <1>1, <1>2 DEF Place5, SKept
<1> QED
  BY <1>3, <1>4 DEF Control5

LEMMA InitialBuffers ==
  ASSUME InitAsm5
  PROVE  Control5
<1>1. buffer = << >> /\ Junk \in Int /\ MapAddress \in Int
  BY DEF InitAsm5, Junk, MapAddress
<1>2. \/ \E data : Called(countLetters, RegistersAsm5(0, Junk), data)
      \/ \E data : Called(subsCipher, RegistersAsm5(0, MapAddress), data)
  BY DEF InitAsm5
<1> QED
  BY <1>1, <1>2, CalledBuffer

LEMMA BuffersStep ==
  ASSUME Control5, [CodeAsm5]_<<call, buffer>>
  PROVE  Control5'
<1>1. CASE UNCHANGED <<call, buffer>>
  <2>1. pc' = pc /\ regs' = regs /\ stack' = stack /\ before' = before /\ buffer' = buffer
    BY <1>1 DEF call, machine
  <2>2. Types5'
    BY <2>1 DEF Control5, Types5, Caller
  <2>3. /\ SKept' = SKept /\ SavedBySubsCipher' = SavedBySubsCipher /\ BufferMade' = BufferMade
        /\ OfLength(stack, Letters + 2)' = OfLength(stack, Letters + 2)
    BY <2>1 DEF SKept, SavedBySubsCipher, BufferMade, OfLength
  <2>4. Place5' = Place5
    BY <2>1, <2>3 DEF Place5, CountLettersPlaces, Caller, countLetters, LOOP_FILL, AfterFill,
       LOOP_COUNT_LETTERS, LOOP_PRINT_LETTERS, subsCipher, AfterStrlen, LOOP_SUBS_CIPHER,
       AfterPrintString, strlenOfText, LOOP_STRLEN_OF_TEXT, printSubstitutedString
  <2> QED
    BY <2>2, <2>4 DEF Control5
<1>2. CASE CodeAsm5
  BY <1>2, CountLettersFrame, StrlenOfTextFrame, SubsCipherStarts, BufferIsMade,
     SubstituteFrame, PrintedFrame, SubsCipherEnds DEF CodeAsm5
<1> QED
  BY <1>1, <1>2

\* The buffer of subsCipher holds the string and its 0, of whatever length and
\* alignment, so that no byte is stored into the saved words above it; both
\* functions of asm5.s give the stack and the $s registers back.
THEOREM FramesAreIntact == SpecAsm5 => []FrameIntact
<1>1. InitAsm5 => Control5
  BY InitialBuffers
<1>2. Control5 /\ [CodeAsm5]_<<call, buffer>> => Control5'
  BY BuffersStep
<1>3. Control5 => FrameIntact
  <2> SUFFICES ASSUME Control5
               PROVE  FrameIntact
    OBVIOUS
  <2>1. ASSUME pc \in {LOOP_SUBS_CIPHER, printSubstitutedString, AfterPrintString}
        PROVE  SavedBySubsCipher
    BY <2>1, Places5
  <2>2. ASSUME pc = Caller(5)
        PROVE  stack = << >> /\ buffer = << >> /\ SKept
    BY <2>2, Places5
  <2> QED
    BY <2>1, <2>2 DEF FrameIntact, SavedBySubsCipher, GivenBack, SKept
<1> QED
  BY <1>1, <1>2, <1>3, PTL DEF SpecAsm5

-----------------------------------------------------------------------------
(* What asm5.s prints: the data, and how far it has been read. *)

\* The first n values of a table, as a sequence.
FirstOf(table, n) == [k \in 1 .. n |-> table[k]]

\* Another value of the table is printed.
LEMMA NextOfTable ==
  ASSUME NEW N \in Nat, NEW table \in [1 .. N -> Int], NEW n \in 0 .. N, n < N
  PROVE  Append(FirstOf(table, n), table[n + 1]) = FirstOf(table, n + 1)
<1> DEFINE s == FirstOf(table, n)
           t == FirstOf(table, n + 1)
           x == table[n + 1]
           u == Append(s, x)
<1>1. n \in Nat /\ n + 1 \in Nat /\ n + 1 \in 1 .. N
  BY SMT
<1>2. x \in Int /\ s \in [1 .. n -> Int] /\ t \in [1 .. n + 1 -> Int]
  <2>1. \A k \in 1 .. n + 1 : k \in 1 .. N
    BY SMT
  <2>2. \A k \in 1 .. n : k \in 1 .. N
    BY SMT
  <2> QED
    BY <1>1, <2>1, <2>2 DEF FirstOf
<1>3. s \in Seq(Int) /\ Len(s) = n
  BY <1>1, <1>2, SeqDef, LenProperties, SMT
<1>4. \A k \in 1 .. n : s[k] = table[k]
  BY DEF FirstOf
<1>5. \A k \in 1 .. n + 1 : t[k] = table[k]
  BY DEF FirstOf
<1> HIDE DEF s, t, x
<1>6. /\ u \in Seq(Int) /\ Len(u) = n + 1
      /\ \A k \in 1 .. n : u[k] = s[k]
      /\ u[n + 1] = x
  BY <1>2, <1>3, AppendProperties
<1>7. DOMAIN u = 1 .. n + 1 /\ u = [k \in 1 .. n + 1 |-> u[k]]
  BY <1>1, <1>6, LenProperties, SeqDef
<1>8. \A k \in 1 .. n + 1 : u[k] = t[k]
  <2>1. ASSUME NEW k \in 1 .. n + 1 PROVE u[k] = t[k]
    <3>1. CASE k = n + 1
      BY <1>5, <1>6, <3>1 DEF x
    <3>2. CASE k # n + 1
      <4>1. k \in 1 .. n
        BY <1>1, <3>2, SMT
      <4> QED
        BY <1>4, <1>5, <1>6, <4>1
    <3> QED
      BY <3>1, <3>2
  <2> QED
    BY <2>1
<1> HIDE DEF u
<1>9. u = t
  BY <1>2, <1>7, <1>8
<1> QED
  BY <1>9 DEF u, s, t, x

\* A string of characters at address 0, ended by a 0.
IsText(m, n, characters) == m[n] = 0 /\ \A i \in 0 .. n - 1 : m[i] \in characters

\* The place of the counter of a character, and how often characters with the
\* counter k are among the first i.
CounterPlace(c) == CounterOf(c) \div 4 + 1
Counted(m, i, k) == Cardinality({j \in 0 .. i - 1 : CounterPlace(m[j]) = k})
LetterCounts(m, n) == [k \in 1 .. Letters + 1 |-> Counted(m, n, k)]

LEMMA CounterPlaces ==
  ASSUME NEW c \in Characters
  PROVE  /\ CounterPlace(c) \in 1 .. Letters + 1 /\ CounterOf(c) \div 4 + 1 = CounterPlace(c)
         /\ \A k \in 1 .. Letters : CounterPlace(c) = k <=> c \in {96 + k, 64 + k}
         /\ CounterPlace(c) = Letters + 1 <=> c \notin 97 .. 96 + Letters \cup 65 .. 64 + Letters
<1>1. c \in 1 .. 127 /\ Letters \in Nat \ {0} /\ Letters <= 26
  BY CharactersAssumption, LettersAssumption
<1>2. CASE InAlphabet(c, 97)
  <2>1. CounterOf(c) = 4 * (c - 97)
    BY <1>2 DEF CounterOf
  <2>2. CounterPlace(c) = c - 96
    BY <1>1, <2>1, SMT DEF CounterPlace
  <2> QED
    BY <1>1, <1>2, <2>2, SMT DEF InAlphabet, CounterPlace
<1>3. CASE ~InAlphabet(c, 97) /\ InAlphabet(c, 65)
  <2>1. CounterOf(c) = 4 * (c - 65)
    BY <1>3 DEF CounterOf
  <2>2. CounterPlace(c) = c - 64
    BY <1>1, <2>1, SMT DEF CounterPlace
  <2> QED
    BY <1>1, <1>3, <2>2, SMT DEF InAlphabet, CounterPlace
<1>4. CASE ~InAlphabet(c, 97) /\ ~InAlphabet(c, 65)
  <2>1. CounterOf(c) = 4 * Letters
    BY <1>4 DEF CounterOf, Other
  <2>2. CounterPlace(c) = Letters + 1
    BY <1>1, <2>1, SMT DEF CounterPlace
  <2> QED
    BY <1>1, <1>4, <2>2, SMT DEF InAlphabet, CounterPlace
<1> QED
  BY <1>2, <1>3, <1>4

LEMMA CountedNone ==
  ASSUME NEW m, NEW k
  PROVE  Counted(m, 0, k) = 0
<1>1. {j \in 0 .. 0 - 1 : CounterPlace(m[j]) = k} = {}
  BY SMT
<1> QED
  BY <1>1, FS_EmptySet DEF Counted

LEMMA CountedFinite ==
  ASSUME NEW m, NEW i \in Nat, NEW k
  PROVE  /\ IsFiniteSet({j \in 0 .. i - 1 : CounterPlace(m[j]) = k})
         /\ Counted(m, i, k) \in Nat
<1>1. IsFiniteSet(0 .. i - 1)
  <2>1. 0 \in Int /\ i - 1 \in Int
    BY SMT
  <2> QED
    BY <2>1, FS_Interval
<1>2. IsFiniteSet({j \in 0 .. i - 1 : CounterPlace(m[j]) = k})
  BY <1>1, FS_Subset
<1> QED
  BY <1>2, FS_CardinalityType DEF Counted

LEMMA CountedNext ==
  ASSUME NEW m, NEW i \in Nat, NEW k
  PROVE  Counted(m, i + 1, k) = Counted(m, i, k) + IF CounterPlace(m[i]) = k THEN 1 ELSE 0
<1> DEFINE S == {j \in 0 .. i - 1 : CounterPlace(m[j]) = k}
           T == {j \in 0 .. (i + 1) - 1 : CounterPlace(m[j]) = k}
<1>1. \A j : j \in 0 .. (i + 1) - 1 <=> j \in 0 .. i - 1 \/ j = i
  BY SMT
<1>2. i \notin 0 .. i - 1
  BY SMT
<1>3. IsFiniteSet(S) /\ Cardinality(S) \in Nat
  <2>1. IsFiniteSet(S)
    BY CountedFinite
  <2> QED
    BY <2>1, FS_CardinalityType
<1>4. CASE CounterPlace(m[i]) = k
  <2>1. T = S \cup {i} /\ i \notin S
    BY <1>1, <1>2, <1>4
  <2>2. Cardinality(S \cup {i}) = Cardinality(S) + 1
    <3> HIDE DEF S
    <3> QED
      BY <1>3, <2>1, FS_AddElement
  <2> QED
    BY <1>4, <2>1, <2>2 DEF Counted
<1>5. CASE CounterPlace(m[i]) # k
  <2>1. T = S
    BY <1>1, <1>5
  <2>2. Cardinality(S) = Cardinality(S) + 0
    BY <1>3
  <2> QED
    BY <1>5, <2>1, <2>2 DEF Counted
<1> QED
  BY <1>4, <1>5

\* The data: for countLetters the string alone, for subsCipher also the map.
CharacterData(m, n) ==
  /\ n \in Nat /\ DOMAIN m = 0 .. n /\ IsText(m, n, Characters)
CipherData(m, n) ==
  /\ n \in Nat /\ IsText(m, n, DOMAIN Cipher)
  /\ DOMAIN m = 0 .. n \cup {MapAddress + c : c \in DOMAIN Cipher}
  /\ \A c \in DOMAIN Cipher : m[MapAddress + c] = Cipher[c]

\* How many of the counters are 0, of the characters are counted, and of the
\* numbers are printed.
Cleared == \E i \in 0 .. Letters - 1 : /\ regs.t0 = Letters - i /\ regs.t2 = 4 * i
                                      /\ \A k \in 1 .. i : stack[k] = 0
HasCounted(m, n) ==
  \E i \in 0 .. n : regs.t3 = i /\ \A k \in 1 .. Letters + 1 : stack[k] = Counted(m, i, k)
HasPrinted(m, n) ==
  /\ \A k \in 1 .. Letters + 1 : stack[k] = Counted(m, n, k)
  /\ \E i \in 0 .. Letters : regs.t0 = i /\ console = FirstOf(LetterCounts(m, n), i)

\* What countLetters has counted and printed at each place.
Counting(m, n) ==
  /\ before.pc = countLetters /\ CharacterData(m, n)
  /\ pc \in CountLettersPlaces \cup {countLetters, Caller(5)}
  /\ pc \notin {LOOP_PRINT_LETTERS, Caller(5)} => console = << >>
  /\ pc \in {countLetters, LOOP_FILL, AfterFill} => regs.a0 = 0
  /\ pc = LOOP_FILL => Cleared
  /\ pc = AfterFill => \A k \in 1 .. Letters : stack[k] = 0
  /\ pc = LOOP_COUNT_LETTERS => HasCounted(m, n)
  /\ pc = LOOP_PRINT_LETTERS => HasPrinted(m, n)
  /\ pc = Caller(5) => console = FirstOf(LetterCounts(m, n), Letters + 1)

\* The mapped string.
Mapped(m, n) == [k \in 1 .. n |-> Cipher[m[k - 1]]]

\* How much of it is in the buffer; all of it, and the 0.
HasMapped(m, n) ==
  /\ regs.s1 = 0 /\ regs.s2 = MapAddress /\ regs.t8 = n /\ regs.t9 \in 0 .. n
  /\ \A k \in 1 .. regs.t9 : buffer[k] = Mapped(m, n)[k]
HoldsMapped(m, n) ==
  /\ n < regs.s3 /\ buffer[n + 1] = 0
  /\ \A k \in 1 .. n : buffer[k] = Mapped(m, n)[k]

\* How far subsCipher has measured, mapped and printed the string.
Ciphering(m, n) ==
  /\ before.pc = subsCipher /\ CipherData(m, n)
  /\ before.regs.a0 = 0 /\ before.regs.a1 = MapAddress
  /\ pc \in {subsCipher, strlenOfText, LOOP_STRLEN_OF_TEXT, AfterStrlen, LOOP_SUBS_CIPHER,
             printSubstitutedString, AfterPrintString, Caller(5)}
  /\ pc \in {subsCipher, strlenOfText} => regs.a0 = 0
  /\ pc = LOOP_STRLEN_OF_TEXT => regs.v0 \in 0 .. n /\ regs.a0 = regs.v0
  /\ pc = AfterStrlen => regs.v0 = n
  /\ pc = LOOP_SUBS_CIPHER => HasMapped(m, n)
  /\ pc = printSubstitutedString => HoldsMapped(m, n)
  /\ pc \in {AfterPrintString, Caller(5)} => console = Mapped(m, n)

Printing5 ==
  \E m, n : memory = m /\ before.memory = m /\ (Counting(m, n) \/ Ciphering(m, n))

PrintInv5 == Control5 /\ Printing5

-----------------------------------------------------------------------------
(* The initial states. *)

LEMMA StringData ==
  ASSUME NEW characters, NEW n \in Nat, NEW s \in StringOf(characters, n)
  PROVE  DOMAIN s = 0 .. n /\ IsText(s, n, characters)
<1>1. PICK r \in [0 .. n - 1 -> characters] : s = [i \in 0 .. n |-> IF i = n THEN 0 ELSE r[i]]
  BY DEF StringOf
<1>2. n \in 0 .. n /\ \A i \in 0 .. n - 1 : i \in 0 .. n /\ i # n
  BY SMT
<1> QED
  BY <1>1, <1>2 DEF IsText

\* The map ends before the string.
LEMMA MapAddresses ==
  ASSUME NEW c \in DOMAIN Cipher
  PROVE  \A n \in Nat : MapAddress + c \notin 0 .. n /\ (MapAddress + c) - MapAddress = c
<1>1. c \in 1 .. 127
  BY CipherAssumption
<1>2. MapAddress \in Int /\ MapAddress + 128 = 0
  BY DEF MapAddress
<1> QED
  BY <1>1, <1>2

LEMMA TextAndMap ==
  ASSUME NEW n \in Nat, NEW s, DOMAIN s = 0 .. n, IsText(s, n, DOMAIN Cipher)
  PROVE  CipherData(StringAndMap(s), n)
<1> DEFINE m == StringAndMap(s)
           mapped == {MapAddress + c : c \in DOMAIN Cipher}
<1>1. m = [a \in 0 .. n \cup mapped |-> IF a \in 0 .. n THEN s[a] ELSE Cipher[a - MapAddress]]
  BY DEF StringAndMap
<1>2. ASSUME NEW c \in DOMAIN Cipher
      PROVE  m[MapAddress + c] = Cipher[c]
  <2>2. MapAddress + c \notin 0 .. n /\ (MapAddress + c) - MapAddress = c
    BY MapAddresses
  <2>3. MapAddress + c \in mapped
    OBVIOUS
  <2> HIDE DEF m, mapped
  <2> QED
    BY <1>1, <2>2, <2>3
<1>3. DOMAIN m = 0 .. n \cup mapped /\ \A a \in 0 .. n : m[a] = s[a]
  BY <1>1
<1>4. n \in 0 .. n /\ \A i \in 0 .. n - 1 : i \in 0 .. n
  BY SMT
<1>5. IsText(m, n, DOMAIN Cipher)
  BY <1>3, <1>4 DEF IsText
<1> QED
  BY <1>2, <1>3, <1>5 DEF CipherData

LEMMA InitialPrinting5 ==
  ASSUME InitAsm5
  PROVE  Printing5
<1>1. PICK n \in Texts :
        \/ \E s \in StringOf(Characters, n) : Called(countLetters, RegistersAsm5(0, Junk), s)
        \/ \E s \in StringOf(DOMAIN Cipher, n) :
             Called(subsCipher, RegistersAsm5(0, MapAddress), StringAndMap(s))
  BY DEF InitAsm5
<1>2. n \in Nat
  BY TextsAssumption
<1>3. ASSUME NEW s \in StringOf(Characters, n), Called(countLetters, RegistersAsm5(0, Junk), s)
      PROVE  memory = s /\ before.memory = s /\ Counting(s, n)
  <2>1. /\ pc = countLetters /\ regs.a0 = 0 /\ memory = s /\ console = << >>
        /\ before.pc = countLetters /\ before.memory = memory
    BY <1>3 DEF Called, RegistersAsm5
  <2>2. CharacterData(s, n)
    BY <1>2, <1>3, <2>1, StringData DEF CharacterData
  <2> QED
    BY <2>1, <2>2, Labels5 DEF Counting
<1>4. ASSUME NEW s \in StringOf(DOMAIN Cipher, n),
             Called(subsCipher, RegistersAsm5(0, MapAddress), StringAndMap(s))
      PROVE  /\ memory = StringAndMap(s) /\ before.memory = StringAndMap(s)
             /\ Ciphering(StringAndMap(s), n)
  <2>1. /\ pc = subsCipher /\ regs.a0 = 0 /\ memory = StringAndMap(s)
        /\ before.pc = subsCipher /\ before.memory = memory
        /\ before.regs.a0 = 0 /\ before.regs.a1 = MapAddress
    BY <1>4 DEF Called, RegistersAsm5
  <2>2. CipherData(StringAndMap(s), n)
    BY <1>2, <1>4, <2>1, StringData, TextAndMap
  <2> QED
    BY <2>1, <2>2, Labels5 DEF Ciphering
<1> QED
  BY <1>1, <1>3, <1>4 DEF Printing5

-----------------------------------------------------------------------------
(* countLetters, step by step. *)

\* What is said of the data does not change.
LEMMA DataStays ==
  ASSUME NEW m, NEW n
  PROVE  /\ CharacterData(m, n)' <=> CharacterData(m, n)
         /\ CipherData(m, n)' <=> CipherData(m, n)
         /\ LetterCounts(m, n)' = LetterCounts(m, n)
         /\ Mapped(m, n)' = Mapped(m, n)
         /\ \A i, k : Counted(m, i, k)' = Counted(m, i, k)
         /\ \A i : FirstOf(LetterCounts(m, n), i)' = FirstOf(LetterCounts(m, n), i)
<1>1. CharacterData(m, n)' <=> CharacterData(m, n)
  BY DEF CharacterData, IsText
<1>2. CipherData(m, n)' <=> CipherData(m, n)
  BY DEF CipherData, IsText, MapAddress
<1>3. \A i, k : Counted(m, i, k)' = Counted(m, i, k)
  BY DEF Counted, CounterPlace, CounterOf, InAlphabet, Other
<1>4. LetterCounts(m, n)' = LetterCounts(m, n)
  BY DEF LetterCounts, Counted, CounterPlace, CounterOf, InAlphabet, Other
<1>5. \A i : FirstOf(LetterCounts(m, n), i)' = FirstOf(LetterCounts(m, n), i)
  BY DEF FirstOf, LetterCounts, Counted, CounterPlace, CounterOf, InAlphabet, Other
<1>6. Mapped(m, n)' = Mapped(m, n)
  BY DEF Mapped
<1> QED
  BY <1>1, <1>2, <1>3, <1>4, <1>5, <1>6

LEMMA CounterStored ==
  ASSUME OfLength(stack, Letters + 2), NEW i \in 1 .. Letters + 2, NEW word,
         stack' = [stack EXCEPT ![i] = word]
  PROVE  \A k \in 1 .. Letters + 2 : stack'[k] = IF k = i THEN word ELSE stack[k]
<1>1. PICK S : stack \in [1 .. Letters + 2 -> S]
  BY DEF OfLength
<1> QED
  BY <1>1

\* The places where countLetters counts.
LEMMA CountingPlaces ==
  ASSUME Control5, pc \in CountLettersPlaces
  PROVE  OfLength(stack, Letters + 2) /\ regs \in Registers5 /\ regs.ra = Caller(5)
BY Places5 DEF Control5, Types5

LEMMA CountLettersCounts ==
  ASSUME NEW m, NEW n, Control5, Counting(m, n), CountLetters
  PROVE  Counting(m, n)'
<1>1. /\ pc = countLetters /\ pc' = LOOP_FILL /\ console' = console /\ before' = before
      /\ regs' = [regs EXCEPT !.t0 = Letters, !.t2 = 0]
  BY DEF CountLetters
<1>2. regs' \in [DOMAIN regs -> {regs'[f] : f \in DOMAIN regs}] /\ regs \in Registers5
  BY <1>1 DEF Control5, Types5
<1>3. regs'.a0 = 0 /\ regs'.t0 = Letters /\ regs'.t2 = 0
  <2>1. regs.a0 = 0
    BY <1>1, Labels5 DEF Counting
  <2> QED
    BY <1>1, <1>2, <2>1 DEF Registers5
<1>4. /\ before.pc = countLetters /\ CharacterData(m, n) /\ console = << >>
  BY <1>1, Labels5 DEF Counting
<1>5. 0 \in 0 .. Letters - 1 /\ regs'.t0 = Letters - 0 /\ regs'.t2 = 4 * 0
  BY <1>3, LettersAssumption
<1>6. \A k \in 1 .. 0 : stack'[k] = 0
  BY SMT
<1>7. Cleared'
  BY <1>5, <1>6 DEF Cleared
<1> QED
  BY <1>1, <1>3, <1>4, <1>7, DataStays, Labels5
     DEF Counting, CountLettersPlaces, countLetters, LOOP_FILL, AfterFill, LOOP_COUNT_LETTERS,
         LOOP_PRINT_LETTERS, Caller

LEMMA FillCounterCounts ==
  ASSUME NEW m, NEW n, Control5, Counting(m, n), FillCounter
  PROVE  Counting(m, n)'
<1>1. /\ pc = LOOP_FILL /\ console' = console /\ before' = before
      /\ regs' = [regs EXCEPT !.t0 = regs.t0 - 1, !.t2 = regs.t2 + 4]
      /\ stack' = Stored(regs.t2, 0)
      /\ pc' = IF regs'.t0 = 0 THEN AfterFill ELSE LOOP_FILL
  BY DEF FillCounter
<1>2. /\ before.pc = countLetters /\ CharacterData(m, n) /\ console = << >> /\ regs.a0 = 0
  BY <1>1, Labels5 DEF Counting
<1>3. PICK i \in 0 .. Letters - 1 : /\ regs.t0 = Letters - i /\ regs.t2 = 4 * i
                                    /\ \A k \in 1 .. i : stack[k] = 0
  BY <1>1, Labels5 DEF Counting, Cleared
<1>4. OfLength(stack, Letters + 2) /\ regs \in Registers5
  BY <1>1, CountingPlaces DEF CountLettersPlaces
<1>5. regs'.a0 = 0 /\ regs'.t0 = regs.t0 - 1 /\ regs'.t2 = regs.t2 + 4
  BY <1>1, <1>2, <1>4 DEF Registers5
<1>6. Letters \in Nat \ {0} /\ i \in Int
  BY LettersAssumption
<1>7. regs'.t0 = Letters - (i + 1) /\ regs'.t2 = 4 * (i + 1) /\ i + 1 \in 1 .. Letters
  BY <1>3, <1>5, <1>6
<1>8. \A k \in 1 .. i + 1 : stack'[k] = 0
  <2>1. stack' = [stack EXCEPT ![i + 1] = 0]
    <3>1. regs.t2 \div 4 + 1 = i + 1
      BY <1>3, <1>6, SMT
    <3> QED
      BY <1>1, <3>1 DEF Stored
  <2>2. i + 1 \in 1 .. Letters + 2
    BY <1>6, SMT
  <2>3. \A k \in 1 .. Letters + 2 : stack'[k] = IF k = i + 1 THEN 0 ELSE stack[k]
    BY <1>4, <2>1, <2>2, CounterStored
  <2>4. \A k \in 1 .. i + 1 : k \in 1 .. Letters + 2 /\ (k = i + 1 \/ k \in 1 .. i)
    BY <1>6, SMT
  <2> QED
    BY <1>3, <2>3, <2>4
<1>9. CASE i + 1 = Letters
  <2>1. pc' = AfterFill
    <3>1. regs'.t0 = 0
      BY <1>6, <1>7, <1>9
    <3> QED
      BY <1>1, <3>1
  <2>2. \A k \in 1 .. Letters : stack'[k] = 0
    BY <1>8, <1>9
  <2> QED
    BY <1>1, <1>2, <1>5, <2>1, <2>2, DataStays, Labels5
       DEF Counting, CountLettersPlaces, countLetters, LOOP_FILL, AfterFill, LOOP_COUNT_LETTERS,
           LOOP_PRINT_LETTERS, Caller
<1>10. CASE i + 1 # Letters
  <2>1. regs'.t0 # 0 /\ i + 1 \in 0 .. Letters - 1
    BY <1>6, <1>7, <1>10
  <2>2. pc' = LOOP_FILL
    BY <1>1, <2>1
  <2>3. Cleared'
    BY <1>7, <1>8, <2>1 DEF Cleared
  <2> QED
    BY <1>1, <1>2, <1>5, <2>2, <2>3, DataStays, Labels5
       DEF Counting, CountLettersPlaces, countLetters, LOOP_FILL, AfterFill, LOOP_COUNT_LETTERS,
           LOOP_PRINT_LETTERS, Caller
<1> QED
  BY <1>9, <1>10

LEMMA StartCountingCounts ==
  ASSUME NEW m, NEW n, Control5, Counting(m, n), StartCounting
  PROVE  Counting(m, n)'
<1>1. /\ pc = AfterFill /\ pc' = LOOP_COUNT_LETTERS /\ console' = console /\ before' = before
      /\ stack' = [stack EXCEPT ![Other \div 4 + 1] = 0, ![Other \div 4 + 2] = regs.a0]
      /\ regs' = [regs EXCEPT !.t3 = regs.a0]
  BY DEF StartCounting
<1>2. /\ before.pc = countLetters /\ CharacterData(m, n) /\ console = << >> /\ regs.a0 = 0
      /\ \A k \in 1 .. Letters : stack[k] = 0
  BY <1>1, Labels5 DEF Counting
<1>3. OfLength(stack, Letters + 2) /\ regs \in Registers5
  BY <1>1, CountingPlaces DEF CountLettersPlaces
<1>4. regs'.t3 = 0
  BY <1>1, <1>2, <1>3 DEF Registers5
<1>5. Letters \in Nat \ {0} /\ 0 \in 0 .. n
  BY <1>2, LettersAssumption, SMT DEF CharacterData
<1>6. \A k \in 1 .. Letters + 1 : stack'[k] = Counted(m, 0, k)
  <2>1. Other \div 4 + 1 = Letters + 1 /\ Other \div 4 + 2 = Letters + 2
    BY <1>5, SMT DEF Other
  <2>2. stack' = [stack EXCEPT ![Letters + 1] = 0, ![Letters + 2] = regs.a0]
    BY <1>1, <2>1
  <2>3. PICK S : stack \in [1 .. Letters + 2 -> S]
    BY <1>3 DEF OfLength
  <2>4. \A k \in 1 .. Letters + 1 :
          /\ k \in 1 .. Letters + 2 /\ k # Letters + 2
          /\ k = Letters + 1 \/ k \in 1 .. Letters
    BY <1>5, SMT
  <2>5. \A k \in 1 .. Letters + 1 : stack'[k] = 0
    BY <1>2, <2>2, <2>3, <2>4
  <2> QED
    BY <2>5, CountedNone
<1>7. HasCounted(m, n)'
  BY <1>4, <1>5, <1>6, DataStays DEF HasCounted
<1> QED
  BY <1>1, <1>2, <1>7, DataStays, Labels5
     DEF Counting, CountLettersPlaces, countLetters, LOOP_FILL, AfterFill, LOOP_COUNT_LETTERS,
         LOOP_PRINT_LETTERS, Caller

LEMMA CharacterCounted ==
  ASSUME NEW m, NEW n, Control5, Counting(m, n), memory = m, CountCharacter
  PROVE  Counting(m, n)'
<1>1. /\ pc = LOOP_COUNT_LETTERS /\ pc' = pc /\ console' = console /\ before' = before
      /\ regs' = [regs EXCEPT !.t3 = regs.t3 + 1] /\ m[regs.t3] # 0
      /\ stack' = Stored(CounterOf(m[regs.t3]), AtSP(CounterOf(m[regs.t3])) + 1)
  BY DEF CountCharacter
<1>2. /\ before.pc = countLetters /\ CharacterData(m, n) /\ console = << >>
  BY <1>1, Labels5 DEF Counting
<1>3. PICK i \in 0 .. n : /\ regs.t3 = i
                          /\ \A k \in 1 .. Letters + 1 : stack[k] = Counted(m, i, k)
  BY <1>1, Labels5 DEF Counting, HasCounted
<1>4. OfLength(stack, Letters + 2) /\ regs \in Registers5
  BY <1>1, CountingPlaces DEF CountLettersPlaces
<1>5. Letters \in Nat \ {0} /\ n \in Nat /\ i \in Nat
  BY <1>2, LettersAssumption, SMT DEF CharacterData
<1>6. i \in 0 .. n - 1 /\ m[i] \in Characters
  <2>1. i # n
    BY <1>1, <1>2, <1>3 DEF CharacterData, IsText
  <2>2. i \in 0 .. n - 1
    BY <1>5, <2>1
  <2> QED
    BY <1>2, <2>2 DEF CharacterData, IsText
<1>7. i + 1 \in 0 .. n /\ regs'.t3 = i + 1
  <2>1. regs'.t3 = i + 1
    BY <1>1, <1>3, <1>4 DEF Registers5
  <2> QED
    BY <1>5, <1>6, <2>1
<1>8. \A k \in 1 .. Letters + 1 : stack'[k] = Counted(m, i + 1, k)
  <2> DEFINE p == CounterPlace(m[i])
  <2>1. p \in 1 .. Letters + 1 /\ CounterOf(m[i]) \div 4 + 1 = p
    BY <1>6, CounterPlaces
  <2>2. stack' = [stack EXCEPT ![p] = stack[p] + 1]
    BY <1>1, <1>3, <2>1 DEF Stored, AtSP
  <2>3. \A k : Counted(m, i + 1, k) = Counted(m, i, k) + IF p = k THEN 1 ELSE 0
    BY <1>5, CountedNext
  <2>4. \A k : Counted(m, i, k) \in Nat
    BY <1>5, CountedFinite
  <2> HIDE DEF p
  <2>5. p \in 1 .. Letters + 2 /\ \A k \in 1 .. Letters + 1 : k \in 1 .. Letters + 2
    BY <1>5, <2>1, SMT
  <2>6. \A k \in 1 .. Letters + 2 : stack'[k] = IF k = p THEN stack[p] + 1 ELSE stack[k]
    BY <1>4, <2>2, <2>5, CounterStored
  <2>7. ASSUME NEW k \in 1 .. Letters + 1
        PROVE  stack'[k] = Counted(m, i + 1, k)
    <3>1. CASE k = p
      BY <1>3, <2>3, <2>5, <2>6, <3>1
    <3>2. CASE k # p
      <4>1. Counted(m, i + 1, k) = Counted(m, i, k) + 0
        BY <2>3, <3>2
      <4>2. Counted(m, i, k) + 0 = Counted(m, i, k)
        BY <2>4
      <4> QED
        BY <1>3, <2>5, <2>6, <3>2, <4>1, <4>2
    <3> QED
      BY <3>1, <3>2
  <2> QED
    BY <2>7
<1>9. HasCounted(m, n)'
  BY <1>7, <1>8, DataStays DEF HasCounted
<1> QED
  BY <1>1, <1>2, <1>9, DataStays, Labels5
     DEF Counting, CountLettersPlaces, countLetters, LOOP_FILL, AfterFill, LOOP_COUNT_LETTERS,
         LOOP_PRINT_LETTERS, Caller

LEMMA CountingDoneCounts ==
  ASSUME NEW m, NEW n, Control5, Counting(m, n), memory = m, CountingDone
  PROVE  Counting(m, n)'
<1>1. /\ pc = LOOP_COUNT_LETTERS /\ pc' = LOOP_PRINT_LETTERS /\ console' = console
      /\ before' = before /\ stack' = stack
      /\ regs' = [regs EXCEPT !.t0 = 0] /\ m[regs.t3] = 0
  BY DEF CountingDone
<1>2. /\ before.pc = countLetters /\ CharacterData(m, n) /\ console = << >>
  BY <1>1, Labels5 DEF Counting
<1>3. PICK i \in 0 .. n : /\ regs.t3 = i
                          /\ \A k \in 1 .. Letters + 1 : stack[k] = Counted(m, i, k)
  BY <1>1, Labels5 DEF Counting, HasCounted
<1>4. regs \in Registers5
  BY <1>1, CountingPlaces DEF CountLettersPlaces
<1>5. i = n
  <2>1. CASE i # n
    <3>1. n \in Nat
      BY <1>2 DEF CharacterData
    <3>2. i \in 0 .. n - 1
      BY <2>1, <3>1
    <3>3. m[i] \in 1 .. 127 /\ m[i] = 0
      BY <1>1, <1>2, <1>3, <3>2, CharactersAssumption DEF CharacterData, IsText
    <3> QED
      BY <3>3
  <2> QED
    BY <2>1
<1>6. HasPrinted(m, n)'
  <2>1. regs'.t0 = 0 /\ 0 \in 0 .. Letters
    BY <1>1, <1>4, LettersAssumption DEF Registers5
  <2>2. FirstOf(LetterCounts(m, n), 0) = << >>
    <3>1. 1 .. 0 = {}
      BY SMT
    <3> QED
      BY <3>1 DEF FirstOf
  <2>3. \A k \in 1 .. Letters + 1 : stack'[k] = Counted(m, n, k)
    BY <1>1, <1>3, <1>5
  <2>4. console' = FirstOf(LetterCounts(m, n), 0)
    BY <1>1, <1>2, <2>2
  <2> QED
    BY <2>1, <2>3, <2>4, DataStays DEF HasPrinted
<1> QED
  BY <1>1, <1>2, <1>6, DataStays, Labels5
     DEF Counting, CountLettersPlaces, countLetters, LOOP_FILL, AfterFill, LOOP_COUNT_LETTERS,
         LOOP_PRINT_LETTERS, Caller

\* The table of counts, which the frame holds.
LEMMA CountsInFrame ==
  ASSUME NEW m, NEW n \in Nat,
         \A k \in 1 .. Letters + 1 : stack[k] = Counted(m, n, k)
  PROVE  /\ LetterCounts(m, n) \in [1 .. Letters + 1 -> Int]
         /\ \A i \in 0 .. Letters :
              /\ AtSP(4 * i) = LetterCounts(m, n)[i + 1]
              /\ Append(FirstOf(LetterCounts(m, n), i), AtSP(4 * i)) = FirstOf(LetterCounts(m, n), i + 1)
<1>1. \A k : Counted(m, n, k) \in Int
  <2>1. ASSUME NEW k PROVE Counted(m, n, k) \in Int
    <3>1. Counted(m, n, k) \in Nat
      BY CountedFinite
    <3> QED
      BY <3>1
  <2> QED
    BY <2>1
<1>2. LetterCounts(m, n) \in [1 .. Letters + 1 -> Int]
  BY <1>1 DEF LetterCounts
<1>3. Letters \in Nat
  BY LettersAssumption
<1>4. ASSUME NEW i \in 0 .. Letters
      PROVE  AtSP(4 * i) = LetterCounts(m, n)[i + 1]
  <2>1. (4 * i) \div 4 + 1 = i + 1 /\ i + 1 \in 1 .. Letters + 1
    BY <1>3, SMT
  <2> QED
    BY <2>1 DEF AtSP, LetterCounts
<1>5. ASSUME NEW i \in 0 .. Letters
      PROVE  Append(FirstOf(LetterCounts(m, n), i), LetterCounts(m, n)[i + 1])
               = FirstOf(LetterCounts(m, n), i + 1)
  <2>1. PICK N \in Nat : N = Letters + 1
    BY <1>3
  <2>2. i \in 0 .. N /\ i < N
    BY <1>3, <2>1, SMT
  <2> QED
    BY <1>2, <2>1, <2>2, NextOfTable
<1> QED
  BY <1>2, <1>4, <1>5

LEMMA CounterPrinted ==
  ASSUME NEW m, NEW n, Control5, Counting(m, n), PrintCounter
  PROVE  Counting(m, n)'
<1>1. /\ pc = LOOP_PRINT_LETTERS /\ pc' = pc /\ before' = before /\ stack' = stack
      /\ regs.t0 < Letters /\ console' = Append(console, AtSP(4 * regs.t0))
      /\ regs' = [regs EXCEPT !.t0 = regs.t0 + 1]
  BY DEF PrintCounter
<1>2. before.pc = countLetters /\ CharacterData(m, n) /\ HasPrinted(m, n)
  BY <1>1, Labels5 DEF Counting
<1>3. PICK i \in 0 .. Letters : regs.t0 = i /\ console = FirstOf(LetterCounts(m, n), i)
  BY <1>2 DEF HasPrinted
<1>4. \A k \in 1 .. Letters + 1 : stack[k] = Counted(m, n, k)
  BY <1>2 DEF HasPrinted
<1>5. console' = FirstOf(LetterCounts(m, n), i + 1)
  BY <1>1, <1>2, <1>3, <1>4, CountsInFrame DEF CharacterData
<1>6. regs'.t0 = i + 1 /\ i + 1 \in 0 .. Letters
  <2>1. regs \in Registers5
    BY <1>1, CountingPlaces DEF CountLettersPlaces
  <2>2. regs'.t0 = i + 1
    BY <1>1, <1>3, <2>1 DEF Registers5
  <2> QED
    BY <1>1, <1>3, <2>2, LettersAssumption
<1>7. HasPrinted(m, n)'
  BY <1>1, <1>4, <1>5, <1>6, DataStays DEF HasPrinted
<1>8. before'.pc = countLetters /\ pc' = 5162
  BY <1>1, <1>2, Labels5
<1> QED
  BY <1>2, <1>7, <1>8, DataStays, Labels5
     DEF Counting, CountLettersPlaces, countLetters, LOOP_FILL, AfterFill, LOOP_COUNT_LETTERS,
         LOOP_PRINT_LETTERS, Caller

LEMMA LastCounterPrinted ==
  ASSUME NEW m, NEW n, Control5, Counting(m, n), CountLettersReturns
  PROVE  Counting(m, n)'
<1>1. /\ pc = LOOP_PRINT_LETTERS /\ pc' = regs.ra /\ before' = before
      /\ regs.t0 >= Letters /\ console' = Append(console, AtSP(Other))
  BY DEF CountLettersReturns
<1>2. before.pc = countLetters /\ CharacterData(m, n) /\ HasPrinted(m, n)
  BY <1>1, Labels5 DEF Counting
<1>3. PICK i \in 0 .. Letters : regs.t0 = i /\ console = FirstOf(LetterCounts(m, n), i)
  BY <1>2 DEF HasPrinted
<1>4. \A k \in 1 .. Letters + 1 : stack[k] = Counted(m, n, k)
  BY <1>2 DEF HasPrinted
<1>5. i = Letters /\ Other = 4 * i
  BY <1>1, <1>3, LettersAssumption DEF Other
<1>6. console' = FirstOf(LetterCounts(m, n), Letters + 1)
  BY <1>1, <1>2, <1>3, <1>4, <1>5, CountsInFrame DEF CharacterData
<1>7. pc' = Caller(5)
  BY <1>1, CountingPlaces DEF CountLettersPlaces
<1> QED
  BY <1>1, <1>2, <1>6, <1>7, DataStays, Labels5
     DEF Counting, CountLettersPlaces, countLetters, LOOP_FILL, AfterFill, LOOP_COUNT_LETTERS,
         LOOP_PRINT_LETTERS, Caller

-----------------------------------------------------------------------------
(* subsCipher, step by step. *)

\* The places of the data in memory.
LEMMA StringCharacters ==
  ASSUME NEW m, NEW n, CipherData(m, n)
  PROVE  /\ n \in Nat /\ m[n] = 0
         /\ \A i \in 0 .. n - 1 : /\ m[i] # 0 /\ m[i] \in DOMAIN Cipher
                                  /\ m[MapAddress + m[i]] = Mapped(m, n)[i + 1]
         /\ Mapped(m, n) \in [1 .. n -> Int]
         /\ \A k \in 1 .. n : Mapped(m, n)[k] # 0
<1>1. /\ n \in Nat /\ m[n] = 0 /\ \A i \in 0 .. n - 1 : m[i] \in DOMAIN Cipher
      /\ \A c \in DOMAIN Cipher : m[MapAddress + c] = Cipher[c]
  BY DEF CipherData, IsText
<1>2. \A c \in DOMAIN Cipher : c # 0
  BY CipherAssumption
<1>3. \A c \in DOMAIN Cipher : Cipher[c] \in Int /\ Cipher[c] # 0
  BY CipherAssumption
<1>4. \A i \in 0 .. n - 1 : i + 1 \in 1 .. n /\ (i + 1) - 1 = i
  BY <1>1, SMT
<1>5. \A k \in 1 .. n : k - 1 \in 0 .. n - 1
  BY <1>1, SMT
<1>6. \A i \in 0 .. n - 1 : Mapped(m, n)[i + 1] = Cipher[m[i]]
  BY <1>4 DEF Mapped
<1>7. \A k \in 1 .. n : Mapped(m, n)[k] = Cipher[m[k - 1]]
  BY DEF Mapped
<1>8. Mapped(m, n) \in [1 .. n -> Int]
  BY <1>1, <1>3, <1>5 DEF Mapped
<1>9. \A k \in 1 .. n : Mapped(m, n)[k] # 0
  BY <1>1, <1>3, <1>5, <1>7
<1>10. \A i \in 0 .. n - 1 : m[MapAddress + m[i]] = Mapped(m, n)[i + 1]
  BY <1>1, <1>6, Zenon
<1>11. \A i \in 0 .. n - 1 : m[i] # 0 /\ m[i] \in DOMAIN Cipher
  BY <1>1, <1>2, Zenon
<1> QED
  BY <1>1, <1>8, <1>9, <1>10, <1>11, Zenon

LEMMA SubsCipherPrints ==
  ASSUME NEW m, NEW n, Control5, Ciphering(m, n), memory = m,
         \/ SubsCipher \/ StrlenOfText \/ StrlenOfTextCounts \/ StrlenOfTextReturns
  PROVE  Ciphering(m, n)'
<1>1. before' = before /\ regs \in Registers5
  BY DEF SubsCipher, StrlenOfText, StrlenOfTextCounts, StrlenOfTextReturns, Control5, Types5
<1>2. /\ before.pc = subsCipher /\ CipherData(m, n)
      /\ before.regs.a0 = 0 /\ before.regs.a1 = MapAddress
  BY DEF Ciphering
<1>3. n \in Nat /\ \A i \in 0 .. n - 1 : m[i] # 0
  BY <1>2, StringCharacters
<1>4. CASE SubsCipher
  <2>1. pc = subsCipher /\ pc' = strlenOfText /\ regs' = [regs EXCEPT !.ra = AfterStrlen]
    BY <1>4 DEF SubsCipher, Jal
  <2>2. regs'.a0 = 0
    BY <1>1, <2>1, Labels5 DEF Ciphering, Registers5
  <2> QED
    BY <1>1, <1>2, <2>1, <2>2, DataStays, Labels5
       DEF Ciphering, subsCipher, strlenOfText, LOOP_STRLEN_OF_TEXT, AfterStrlen,
           LOOP_SUBS_CIPHER, printSubstitutedString, AfterPrintString, Caller, MapAddress
<1>5. CASE StrlenOfText
  <2>1. pc = strlenOfText /\ pc' = LOOP_STRLEN_OF_TEXT /\ regs' = [regs EXCEPT !.v0 = 0]
    BY <1>5 DEF StrlenOfText
  <2>2. regs'.a0 = 0 /\ regs'.v0 = 0 /\ 0 \in 0 .. n
    BY <1>1, <1>3, <2>1, Labels5 DEF Ciphering, Registers5
  <2> QED
    BY <1>1, <1>2, <2>1, <2>2, DataStays, Labels5
       DEF Ciphering, subsCipher, strlenOfText, LOOP_STRLEN_OF_TEXT, AfterStrlen,
           LOOP_SUBS_CIPHER, printSubstitutedString, AfterPrintString, Caller, MapAddress
<1>6. CASE StrlenOfTextCounts
  <2>1. /\ pc = LOOP_STRLEN_OF_TEXT /\ pc' = pc /\ m[regs.a0] # 0
        /\ regs' = [regs EXCEPT !.v0 = regs.v0 + 1, !.a0 = regs.a0 + 1]
    BY <1>6 DEF StrlenOfTextCounts
  <2>2. regs.v0 \in 0 .. n /\ regs.a0 = regs.v0 /\ m[n] = 0
    BY <1>2, <2>1, Labels5, StringCharacters DEF Ciphering
  <2>3. regs'.v0 = regs.v0 + 1 /\ regs'.a0 = regs.a0 + 1
    BY <1>1, <2>1 DEF Registers5
  <2>4. regs'.v0 \in 0 .. n /\ regs'.a0 = regs'.v0
    <3>1. regs.v0 # n
      BY <2>1, <2>2
    <3> QED
      BY <1>3, <2>2, <2>3, <3>1
  <2> QED
    BY <1>1, <1>2, <2>1, <2>4, DataStays, Labels5
       DEF Ciphering, subsCipher, strlenOfText, LOOP_STRLEN_OF_TEXT, AfterStrlen,
           LOOP_SUBS_CIPHER, printSubstitutedString, AfterPrintString, Caller, MapAddress
<1>7. CASE StrlenOfTextReturns
  <2>1. pc = LOOP_STRLEN_OF_TEXT /\ pc' = regs.ra /\ m[regs.a0] = 0 /\ regs' = regs
    BY <1>7 DEF StrlenOfTextReturns
  <2>2. regs.v0 \in 0 .. n /\ regs.a0 = regs.v0
    BY <2>1, Labels5 DEF Ciphering
  <2>3. regs.v0 = n
    <3>1. CASE regs.v0 \in 0 .. n - 1
      BY <1>3, <2>1, <2>2, <3>1
    <3> QED
      BY <1>3, <2>2, <3>1
  <2>4. pc' = AfterStrlen
    BY <2>1, Labels5, Places5
  <2> QED
    BY <1>1, <1>2, <2>1, <2>3, <2>4, DataStays, Labels5
       DEF Ciphering, subsCipher, strlenOfText, LOOP_STRLEN_OF_TEXT, AfterStrlen,
           LOOP_SUBS_CIPHER, printSubstitutedString, AfterPrintString, Caller, MapAddress
<1> QED
  BY <1>4, <1>5, <1>6, <1>7

LEMMA BufferForCipher ==
  ASSUME NEW m, NEW n, Control5, Ciphering(m, n), MakeBuffer
  PROVE  Ciphering(m, n)'
<1>1. /\ pc = AfterStrlen /\ pc' = LOOP_SUBS_CIPHER /\ before' = before /\ regs \in Registers5
      /\ regs' = [regs EXCEPT !.s0 = regs.v0 + 1, !.s1 = AtSP(4), !.s2 = AtSP(8),
                              !.s3 = RoundedUp(regs.v0 + 1), !.t9 = 0,
                              !.t8 = (regs.v0 + 1) - 1]
  BY DEF MakeBuffer, Control5, Types5
<1>2. /\ before.pc = subsCipher /\ CipherData(m, n)
      /\ before.regs.a0 = 0 /\ before.regs.a1 = MapAddress /\ regs.v0 = n
  BY <1>1, Labels5 DEF Ciphering
<1>3. AtSP(4) = 0 /\ AtSP(8) = MapAddress
  BY <1>1, <1>2, Labels5, Places5, SavedWords DEF Control5
<1>4. n \in Nat /\ 0 \in 0 .. n /\ (n + 1) - 1 = n
  BY <1>2, SMT DEF CipherData
<1>5. regs'.s1 = 0 /\ regs'.s2 = MapAddress /\ regs'.t9 = 0 /\ regs'.t8 = n
  <2>1. PICK t, u, v, w, x, y :
          /\ t = regs.v0 + 1 /\ u = AtSP(4) /\ v = AtSP(8) /\ w = RoundedUp(regs.v0 + 1)
          /\ x = 0 /\ y = (regs.v0 + 1) - 1
    OBVIOUS
  <2>2. regs' = [regs EXCEPT !.s0 = t, !.s1 = u, !.s2 = v, !.s3 = w, !.t9 = x, !.t8 = y]
    BY <1>1, <2>1
  <2>3. regs \in Registers5
    BY <1>1
  <2>4. regs'.s1 = u /\ regs'.s2 = v /\ regs'.t9 = x /\ regs'.t8 = y
    BY <2>2, <2>3, ZenonT(30) DEF Registers5
  <2> QED
    BY <1>2, <1>3, <1>4, <2>1, <2>4
<1>6. \A k \in 1 .. 0 : buffer'[k] = Mapped(m, n)[k]
  BY SMT
<1>7. HasMapped(m, n)'
  BY <1>4, <1>5, <1>6, DataStays DEF HasMapped, MapAddress
<1> QED
  BY <1>1, <1>2, <1>7, DataStays, Labels5
     DEF Ciphering, subsCipher, strlenOfText, LOOP_STRLEN_OF_TEXT, AfterStrlen,
         LOOP_SUBS_CIPHER, printSubstitutedString, AfterPrintString, Caller, MapAddress

\* A byte that is stored inside the buffer, and the others.
LEMMA ByteStored ==
  ASSUME Control5, pc = LOOP_SUBS_CIPHER, NEW byte, StoreByte(regs.t9, byte)
  PROVE  /\ regs.t9 \in Nat /\ regs.t9 <= regs.t8 /\ regs.t8 < regs.s3
         /\ buffer'[regs.t9 + 1] = byte
         /\ \A k \in 1 .. regs.t9 : buffer'[k] = buffer[k]
<1>1. /\ OfLength(buffer, regs.s3) /\ regs \in Registers5
      /\ 0 <= regs.t9 /\ regs.t9 <= regs.t8 /\ regs.t8 < regs.s3
  BY Labels5, Places5 DEF Control5, Types5, BufferMade
<1>2. PICK i \in Int, t \in Int, size \in Int : i = regs.t9 /\ t = regs.t8 /\ size = regs.s3
  BY <1>1, Fields5
<1>3. i \in Nat /\ i <= t /\ t < size /\ size \in Nat /\ OfLength(buffer, size)
  <2>1. OfLength(buffer, size)
    BY <1>1, <1>2
  <2>2. size \in Nat
    BY <2>1 DEF OfLength
  <2> QED
    BY <1>1, <1>2, <2>1, <2>2
<1>4. i < Len(buffer)
  BY <1>3, LengthOf
<1>5. buffer' = [buffer EXCEPT ![i + 1] = byte]
  BY <1>2, <1>4 DEF StoreByte
<1>6. PICK S : buffer \in [1 .. size -> S]
  BY <1>3 DEF OfLength
<1>7. i + 1 \in 1 .. size /\ \A k \in 1 .. i : k \in 1 .. size /\ k # i + 1
  BY <1>3, SMT
<1> QED
  BY <1>2, <1>3, <1>5, <1>6, <1>7

LEMMA CharacterMapped ==
  ASSUME NEW m, NEW n, Control5, Ciphering(m, n), memory = m, Substitute
  PROVE  Ciphering(m, n)'
<1>1. /\ pc = LOOP_SUBS_CIPHER /\ pc' = pc /\ before' = before /\ regs \in Registers5
      /\ regs.t9 < regs.t8 /\ regs' = [regs EXCEPT !.t9 = regs.t9 + 1]
      /\ StoreByte(regs.t9, m[regs.s2 + m[regs.s1 + regs.t9]])
  BY DEF Substitute, Control5, Types5
<1>2. /\ before.pc = subsCipher /\ CipherData(m, n)
      /\ before.regs.a0 = 0 /\ before.regs.a1 = MapAddress
      /\ regs.s1 = 0 /\ regs.s2 = MapAddress /\ regs.t8 = n
      /\ regs.t9 \in 0 .. n /\ \A k \in 1 .. regs.t9 : buffer[k] = Mapped(m, n)[k]
  BY <1>1, Labels5 DEF Ciphering, HasMapped
<1>3. PICK i \in 0 .. n : i = regs.t9
  BY <1>2
<1>4. /\ n \in Nat /\ i \in 0 .. n - 1 /\ i + 1 \in 0 .. n /\ 0 + i = i
  <2>1. n \in Nat
    BY <1>2 DEF CipherData
  <2> QED
    BY <1>1, <1>2, <1>3, <2>1, SMT
<1>5. m[regs.s2 + m[regs.s1 + regs.t9]] = Mapped(m, n)[i + 1]
  BY <1>2, <1>3, <1>4, StringCharacters
<1>6. buffer'[i + 1] = Mapped(m, n)[i + 1] /\ \A k \in 1 .. i : buffer'[k] = buffer[k]
  BY <1>1, <1>3, <1>5, ByteStored
<1>7. \A k \in 1 .. i + 1 : buffer'[k] = Mapped(m, n)[k]
  <2>1. \A k \in 1 .. i + 1 : k = i + 1 \/ k \in 1 .. i
    BY <1>4, SMT
  <2> QED
    BY <1>2, <1>3, <1>6, <2>1
<1>8. regs'.t9 = i + 1 /\ regs'.s1 = 0 /\ regs'.s2 = MapAddress /\ regs'.t8 = n
  BY <1>1, <1>2, <1>3 DEF Registers5
<1>9. HasMapped(m, n)'
  BY <1>4, <1>7, <1>8, DataStays DEF HasMapped, MapAddress
<1> QED
  BY <1>1, <1>2, <1>9, DataStays, Labels5
     DEF Ciphering, subsCipher, strlenOfText, LOOP_STRLEN_OF_TEXT, AfterStrlen,
         LOOP_SUBS_CIPHER, printSubstitutedString, AfterPrintString, Caller, MapAddress

LEMMA EndStored ==
  ASSUME NEW m, NEW n, Control5, Ciphering(m, n), PrintBuffer
  PROVE  Ciphering(m, n)'
<1>1. /\ pc = LOOP_SUBS_CIPHER /\ pc' = printSubstitutedString /\ before' = before
      /\ regs \in Registers5 /\ regs.t9 >= regs.t8 /\ StoreByte(regs.t9, 0)
      /\ regs' = [regs EXCEPT !.ra = AfterPrintString]
  BY DEF PrintBuffer, Jal, Control5, Types5
<1>2. /\ before.pc = subsCipher /\ CipherData(m, n)
      /\ before.regs.a0 = 0 /\ before.regs.a1 = MapAddress
      /\ regs.t8 = n /\ regs.t9 \in 0 .. n
      /\ \A k \in 1 .. regs.t9 : buffer[k] = Mapped(m, n)[k]
  BY <1>1, Labels5 DEF Ciphering, HasMapped
<1>3. n \in Nat /\ regs.t9 = n
  <2>1. n \in Nat
    BY <1>2 DEF CipherData
  <2> QED
    BY <1>1, <1>2, <2>1, SMT
<1>4. /\ n < regs.s3 /\ buffer'[n + 1] = 0
      /\ \A k \in 1 .. n : buffer'[k] = buffer[k]
  BY <1>1, <1>2, <1>3, ByteStored
<1>5. regs'.s3 = regs.s3
  BY <1>1 DEF Registers5
<1>6. HoldsMapped(m, n)'
  BY <1>2, <1>3, <1>4, <1>5, DataStays DEF HoldsMapped
<1> QED
  BY <1>1, <1>2, <1>6, DataStays, Labels5
     DEF Ciphering, subsCipher, strlenOfText, LOOP_STRLEN_OF_TEXT, AfterStrlen,
         LOOP_SUBS_CIPHER, printSubstitutedString, AfterPrintString, Caller, MapAddress

\* What is printed up to the first 0.
LEMMA BeforeFirst0 ==
  ASSUME NEW n \in Nat, NEW size, size \in Nat, n < size, OfLength(buffer, size),
         buffer[n + 1] = 0, NEW table, table \in [1 .. n -> Int],
         \A k \in 1 .. n : table[k] # 0 /\ buffer[k] = table[k],
         NEW zeros, zeros = {k \in DOMAIN buffer : buffer[k] = 0}
  PROVE  /\ zeros # {}
         /\ (CHOOSE k \in zeros : \A l \in zeros : k <= l) - 1 = n
         /\ SubSeq(buffer, 1, n) = table
<1>1. PICK S : buffer \in [1 .. size -> S]
  BY DEF OfLength
<1>2. n + 1 \in zeros
  BY <1>1, SMT
<1>3. \A l \in zeros : l \in 1 .. size /\ l >= n + 1
  <2>1. ASSUME NEW l \in zeros PROVE l \in 1 .. size /\ l >= n + 1
    <3>1. l \in 1 .. size /\ buffer[l] = 0
      BY <1>1
    <3>2. l \notin 1 .. n
      BY <3>1
    <3> QED
      BY <3>1, <3>2, SMT
  <2> QED
    BY <2>1
<1> DEFINE first == CHOOSE k \in zeros : \A l \in zeros : k <= l
<1>4. first \in zeros /\ \A l \in zeros : first <= l
  <2>1. \E k \in zeros : \A l \in zeros : k <= l
    BY <1>2, <1>3
  <2> QED
    BY <2>1
<1> HIDE DEF first
<1>5. first - 1 = n
  <2>1. first \in 1 .. size /\ first >= n + 1 /\ first <= n + 1
    BY <1>2, <1>3, <1>4
  <2> QED
    BY <2>1, SMT
<1>6. SubSeq(buffer, 1, n) = table
  <2>1. buffer \in Seq(S) /\ Len(buffer) = size
    BY <1>1, SeqDef, LenProperties, SMT
  <2>2. \A i \in 1 .. n : buffer[i] \in S
    BY <1>1, SMT
  <2> DEFINE t == SubSeq(buffer, 1, n)
  <2>3. t \in Seq(S) /\ Len(t) = n /\ \A i \in 1 .. n : t[i] = buffer[i]
    <3>1. \A i \in 1 .. n : 1 + i - 1 = i
      BY SMT
    <3>2. /\ t \in Seq(S)
          /\ Len(t) = IF 1 <= n THEN n - 1 + 1 ELSE 0
          /\ \A i \in 1 .. n - 1 + 1 : t[i] = buffer[1 + i - 1]
      <4>1. \A i \in 1 .. n : i \in DOMAIN buffer
        BY <1>1, SMT
      <4> QED
        BY <2>1, <2>2, <4>1, SubSeqProperties
    <3> QED
      BY <3>1, <3>2, SMT
  <2> HIDE DEF t
  <2>4. t = [i \in 1 .. n |-> t[i]]
    BY <2>3, LenProperties, SeqDef
  <2>5. t = table
    BY <2>3, <2>4
  <2> QED
    BY <2>5 DEF t
<1> QED
  BY <1>2, <1>5, <1>6 DEF first

LEMMA MappedPrinted ==
  ASSUME NEW m, NEW n, Control5, Ciphering(m, n), PrintSubstitutedString
  PROVE  Ciphering(m, n)'
<1> DEFINE zeros == {k \in DOMAIN buffer : buffer[k] = 0}
<1>1. /\ pc = printSubstitutedString /\ pc' = regs'.ra /\ before' = before /\ regs \in Registers5
      /\ regs' = [regs EXCEPT !.a0 = Junk, !.a1 = Junk, !.v0 = Junk, !.t8 = Junk, !.t9 = Junk]
      /\ console' = SubSeq(buffer, 1, IF zeros = {} THEN Len(buffer)
                                      ELSE (CHOOSE k \in zeros : \A l \in zeros : k <= l) - 1)
  BY DEF PrintSubstitutedString, JrRa, Control5, Types5
<1>2. /\ before.pc = subsCipher /\ CipherData(m, n)
      /\ before.regs.a0 = 0 /\ before.regs.a1 = MapAddress
      /\ n < regs.s3 /\ buffer[n + 1] = 0
      /\ \A k \in 1 .. n : buffer[k] = Mapped(m, n)[k]
  BY <1>1, Labels5 DEF Ciphering, HoldsMapped
<1>3. /\ n \in Nat /\ Mapped(m, n) \in [1 .. n -> Int]
      /\ \A k \in 1 .. n : Mapped(m, n)[k] # 0
  BY <1>2, StringCharacters
<1>4. OfLength(buffer, regs.s3) /\ regs.ra = AfterPrintString
  BY <1>1, Labels5, Places5 DEF BufferMade
<1>5. regs.s3 \in Nat
  BY <1>4 DEF OfLength
<1>6. zeros # {} /\ (CHOOSE k \in zeros : \A l \in zeros : k <= l) - 1 = n
      /\ SubSeq(buffer, 1, n) = Mapped(m, n)
  <2>1. PICK size, table, z :
          /\ size = regs.s3 /\ table = Mapped(m, n) /\ z = zeros
          /\ size \in Nat /\ table \in [1 .. n -> Int]
    BY <1>3, <1>5
  <2>2. \A k \in 1 .. n : table[k] # 0 /\ buffer[k] = table[k]
    BY <1>2, <1>3, <2>1
  <2>3. n < size /\ OfLength(buffer, size)
    BY <1>2, <1>4, <2>1
  <2>4. z = {k \in DOMAIN buffer : buffer[k] = 0}
    BY <2>1
  <2>5. z # {} /\ (CHOOSE k \in z : \A l \in z : k <= l) - 1 = n /\ SubSeq(buffer, 1, n) = table
    BY <1>2, <1>3, <2>1, <2>2, <2>3, <2>4, BeforeFirst0
  <2> HIDE DEF zeros
  <2> QED
    BY <2>1, <2>5
<1> HIDE DEF zeros
<1>7. console' = Mapped(m, n)
  BY <1>1, <1>6
<1>8. pc' = AfterPrintString
  <2>1. PICK u : u = Junk
    OBVIOUS
  <2>2. regs' = [regs EXCEPT !.a0 = u, !.a1 = u, !.v0 = u, !.t8 = u, !.t9 = u]
    BY <1>1, <2>1
  <2>3. regs \in Registers5
    BY <1>1
  <2>4. regs'.ra = regs.ra
    BY <2>2, <2>3, ZenonT(30) DEF Registers5
  <2> QED
    BY <1>1, <1>4, <2>4
<1>9. /\ before'.pc = subsCipher /\ before'.regs.a0 = 0 /\ before'.regs.a1 = MapAddress
      /\ pc' = 5291
  BY <1>1, <1>2, <1>8, Labels5
<1> QED
  BY <1>2, <1>7, <1>9, DataStays, Labels5
     DEF Ciphering, subsCipher, strlenOfText, LOOP_STRLEN_OF_TEXT, AfterStrlen,
         LOOP_SUBS_CIPHER, printSubstitutedString, AfterPrintString, Caller, MapAddress

LEMMA CipherEnds ==
  ASSUME NEW m, NEW n, Control5, Ciphering(m, n), SubsCipherReturns, pc' = Caller(5)
  PROVE  Ciphering(m, n)'
<1>1. pc = AfterPrintString /\ before' = before /\ console' = console
  BY DEF SubsCipherReturns
<1>2. /\ before.pc = subsCipher /\ CipherData(m, n)
      /\ before.regs.a0 = 0 /\ before.regs.a1 = MapAddress /\ console = Mapped(m, n)
  BY <1>1, Labels5 DEF Ciphering
<1>3. /\ before'.pc = subsCipher /\ before'.regs.a0 = 0 /\ before'.regs.a1 = MapAddress
      /\ console' = Mapped(m, n) /\ pc' = 5000
  BY <1>1, <1>2, Labels5
<1> QED
  BY <1>2, <1>3, DataStays, Labels5
     DEF Ciphering, subsCipher, strlenOfText, LOOP_STRLEN_OF_TEXT, AfterStrlen,
         LOOP_SUBS_CIPHER, printSubstitutedString, AfterPrintString, Caller, MapAddress

LEMMA ReturnsToCaller5 ==
  ASSUME Control5, SubsCipherReturns
  PROVE  pc' = Caller(5)
<1>1. /\ pc = AfterPrintString /\ pc' = regs'.ra /\ regs \in Registers5
      /\ regs' = [regs EXCEPT !.ra = AtSP(0), !.a0 = AtSP(4), !.a1 = AtSP(8), !.s0 = AtSP(12),
                              !.s1 = AtSP(16), !.s2 = AtSP(20), !.s3 = AtSP(24)]
  BY DEF Control5, Types5, SubsCipherReturns, JrRa
<1>2. AtSP(0) = Caller(5)
  BY <1>1, Labels5, Places5, SavedWords DEF Control5
<1>3. PICK t, u, v, w, x, y, z :
        /\ t = AtSP(0) /\ u = AtSP(4) /\ v = AtSP(8) /\ w = AtSP(12) /\ x = AtSP(16)
        /\ y = AtSP(20) /\ z = AtSP(24)
  OBVIOUS
<1>4. regs' = [regs EXCEPT !.ra = t, !.a0 = u, !.a1 = v, !.s0 = w, !.s1 = x, !.s2 = y, !.s3 = z]
  BY <1>1, <1>3
<1>5. regs'.ra = t
  <2>1. regs \in Registers5
    BY <1>1
  <2> QED
    BY <1>4, <2>1, ZenonT(30) DEF Registers5
<1> QED
  BY <1>1, <1>2, <1>3, <1>5

\* Which function the code belongs to.
LEMMA CodeOfFunction5 ==
  /\ (\/ CountLetters \/ FillCounter \/ StartCounting \/ CountCharacter \/ CountingDone
      \/ PrintCounter \/ CountLettersReturns)
       => pc \in CountLettersPlaces \cup {countLetters}
  /\ (\/ SubsCipher \/ StrlenOfText \/ StrlenOfTextCounts \/ StrlenOfTextReturns
      \/ MakeBuffer \/ Substitute \/ PrintBuffer \/ PrintSubstitutedString
      \/ SubsCipherReturns)
       => pc \in {subsCipher, strlenOfText, LOOP_STRLEN_OF_TEXT, AfterStrlen, LOOP_SUBS_CIPHER,
                 printSubstitutedString, AfterPrintString}
<1>1. ASSUME \/ CountLetters \/ FillCounter \/ StartCounting \/ CountCharacter \/ CountingDone
             \/ PrintCounter \/ CountLettersReturns
      PROVE  pc \in CountLettersPlaces \cup {countLetters}
  BY <1>1, Zenon DEF CountLettersPlaces, CountLetters, FillCounter, StartCounting, CountCharacter,
     CountingDone, PrintCounter, CountLettersReturns
<1>2. ASSUME \/ SubsCipher \/ StrlenOfText \/ StrlenOfTextCounts \/ StrlenOfTextReturns
             \/ MakeBuffer \/ Substitute \/ PrintBuffer \/ PrintSubstitutedString
             \/ SubsCipherReturns
      PROVE  pc \in {subsCipher, strlenOfText, LOOP_STRLEN_OF_TEXT, AfterStrlen, LOOP_SUBS_CIPHER,
                    printSubstitutedString, AfterPrintString}
  BY <1>2, Zenon DEF StrlenOfText, StrlenOfTextCounts, StrlenOfTextReturns, SubsCipher, MakeBuffer,
     Substitute, PrintBuffer, PrintSubstitutedString, SubsCipherReturns
<1> QED
  BY <1>1, <1>2

LEMMA PlacesOfFunctions5 ==
  (CountLettersPlaces \cup {countLetters})
    \cap {subsCipher, strlenOfText, LOOP_STRLEN_OF_TEXT, AfterStrlen, LOOP_SUBS_CIPHER,
          printSubstitutedString, AfterPrintString} = {}
BY Labels5, SMT DEF CountLettersPlaces

LEMMA PrintingStep5 ==
  ASSUME PrintInv5, [CodeAsm5]_<<call, buffer>>
  PROVE  PrintInv5'
<1>1. Control5 /\ Control5'
  BY BuffersStep DEF PrintInv5
<1>2. PICK m, n : memory = m /\ before.memory = m /\ (Counting(m, n) \/ Ciphering(m, n))
  BY DEF PrintInv5, Printing5
<1>3. CASE UNCHANGED <<call, buffer>>
  <2>1. /\ pc' = pc /\ regs' = regs /\ stack' = stack /\ before' = before /\ buffer' = buffer
        /\ memory' = memory /\ console' = console
    BY <1>3 DEF call, machine
  <2>2. Cleared' = Cleared /\ HasCounted(m, n)' = HasCounted(m, n)
    BY <2>1 DEF Cleared, HasCounted, Counted, CounterPlace, CounterOf, InAlphabet, Other
  <2>3. HasPrinted(m, n)' = HasPrinted(m, n)
    BY <2>1 DEF HasPrinted, Counted, CounterPlace, CounterOf, InAlphabet, Other, FirstOf, LetterCounts
  <2>4. HasMapped(m, n)' = HasMapped(m, n) /\ HoldsMapped(m, n)' = HoldsMapped(m, n)
    BY <2>1 DEF HasMapped, HoldsMapped, Mapped, MapAddress
  <2>5. Counting(m, n) => Counting(m, n)'
    BY <2>1, <2>2, <2>3, DataStays
       DEF Counting, CountLettersPlaces, countLetters, LOOP_FILL, AfterFill, LOOP_COUNT_LETTERS,
           LOOP_PRINT_LETTERS, Caller
  <2>6. Ciphering(m, n) => Ciphering(m, n)'
    BY <2>1, <2>4, DataStays
       DEF Ciphering, subsCipher, strlenOfText, LOOP_STRLEN_OF_TEXT, AfterStrlen,
           LOOP_SUBS_CIPHER, printSubstitutedString, AfterPrintString, Caller, MapAddress
  <2> QED
    BY <1>1, <1>2, <2>1, <2>5, <2>6 DEF PrintInv5, Printing5
<1>4. CASE CodeAsm5
  <2>1. memory' = memory /\ before' = before
    BY <1>4 DEF CodeAsm5, CountLetters, FillCounter, StartCounting, CountCharacter, CountingDone,
       PrintCounter, CountLettersReturns, StrlenOfText, StrlenOfTextCounts, StrlenOfTextReturns,
       SubsCipher, MakeBuffer, Substitute, PrintBuffer, PrintSubstitutedString, SubsCipherReturns
  <2>2. CASE Counting(m, n)
    <3>1. pc \in CountLettersPlaces \cup {countLetters, Caller(5)}
      BY <2>2 DEF Counting
    <3>2. \/ CountLetters \/ FillCounter \/ StartCounting \/ CountCharacter \/ CountingDone
          \/ PrintCounter \/ CountLettersReturns
      <4>1. pc \notin {subsCipher, strlenOfText, LOOP_STRLEN_OF_TEXT, AfterStrlen,
                       LOOP_SUBS_CIPHER, printSubstitutedString, AfterPrintString}
        BY <3>1, PlacesOfFunctions5, Labels5
      <4> QED
        BY <1>4, <4>1, CodeOfFunction5 DEF CodeAsm5
    <3>3. Counting(m, n)'
      BY <1>1, <1>2, <2>2, <3>2, CountLettersCounts, FillCounterCounts, StartCountingCounts,
         CharacterCounted, CountingDoneCounts, CounterPrinted, LastCounterPrinted
    <3> QED
      BY <1>1, <1>2, <2>1, <3>3 DEF PrintInv5, Printing5
  <2>3. CASE Ciphering(m, n)
    <3>1. pc \in {subsCipher, strlenOfText, LOOP_STRLEN_OF_TEXT, AfterStrlen, LOOP_SUBS_CIPHER,
                  printSubstitutedString, AfterPrintString, Caller(5)}
      BY <2>3 DEF Ciphering
    <3>2. \/ SubsCipher \/ StrlenOfText \/ StrlenOfTextCounts \/ StrlenOfTextReturns
          \/ MakeBuffer \/ Substitute \/ PrintBuffer \/ PrintSubstitutedString
          \/ SubsCipherReturns
      <4>1. pc \notin CountLettersPlaces \cup {countLetters}
        BY <3>1, PlacesOfFunctions5, Labels5 DEF CountLettersPlaces
      <4> QED
        BY <1>4, <4>1, CodeOfFunction5 DEF CodeAsm5
    <3>3. Ciphering(m, n)'
      BY <1>1, <1>2, <2>3, <3>2, SubsCipherPrints, BufferForCipher, CharacterMapped, EndStored,
         MappedPrinted, CipherEnds, ReturnsToCaller5
    <3> QED
      BY <1>1, <1>2, <2>1, <3>3 DEF PrintInv5, Printing5
  <2> QED
    BY <1>2, <2>2, <2>3
<1> QED
  BY <1>3, <1>4

-----------------------------------------------------------------------------
(* What the property says of the counts and of the text. *)

LEMMA LettersCounted ==
  ASSUME NEW m, NEW n, CharacterData(m, n), NEW k \in 1 .. Letters
  PROVE  Counted(m, n, k) = Cardinality({i \in DOMAIN m : m[i] \in {96 + k, 64 + k}})
<1>1. n \in Nat /\ DOMAIN m = 0 .. n /\ m[n] = 0 /\ \A i \in 0 .. n - 1 : m[i] \in Characters
  BY DEF CharacterData, IsText
<1>2. \A i \in 0 .. n : i = n \/ i \in 0 .. n - 1
  BY <1>1, SMT
<1>3. \A i \in 0 .. n - 1 : i \in 0 .. n
  BY <1>1, SMT
<1>4. 0 \notin {96 + k, 64 + k}
  BY LettersAssumption, SMT
<1>5. \A i \in 0 .. n - 1 : CounterPlace(m[i]) = k <=> m[i] \in {96 + k, 64 + k}
  BY <1>1, CounterPlaces
<1>6. {i \in DOMAIN m : m[i] \in {96 + k, 64 + k}} = {j \in 0 .. n - 1 : CounterPlace(m[j]) = k}
  BY <1>1, <1>2, <1>3, <1>4, <1>5
<1> QED
  BY <1>6 DEF Counted

LEMMA OthersCounted ==
  ASSUME NEW m, NEW n, CharacterData(m, n), NEW letters,
         letters = 97 .. 96 + Letters \cup 65 .. 64 + Letters
  PROVE  Counted(m, n, Letters + 1)
           = Cardinality({i \in DOMAIN m : m[i] \in Characters \ letters})
<1>1. n \in Nat /\ DOMAIN m = 0 .. n /\ m[n] = 0 /\ \A i \in 0 .. n - 1 : m[i] \in Characters
  BY DEF CharacterData, IsText
<1>2. \A i \in 0 .. n : i = n \/ i \in 0 .. n - 1
  BY <1>1, SMT
<1>3. \A i \in 0 .. n - 1 : i \in 0 .. n
  BY <1>1, SMT
<1>4. 0 \notin Characters
  BY CharactersAssumption
<1>5. \A i \in 0 .. n - 1 : CounterPlace(m[i]) = Letters + 1 <=> m[i] \notin letters
  BY <1>1, CounterPlaces
<1>6. {i \in DOMAIN m : m[i] \in Characters \ letters}
        = {j \in 0 .. n - 1 : CounterPlace(m[j]) = Letters + 1}
  BY <1>1, <1>2, <1>3, <1>4, <1>5
<1> QED
  BY <1>6 DEF Counted

LEMMA TextMeasured ==
  ASSUME NEW m, NEW n, CipherData(m, n)
  PROVE  Cardinality({a \in DOMAIN m : a >= 0 /\ m[a] # 0}) = n
<1>1. n \in Nat /\ m[n] = 0 /\ \A i \in 0 .. n - 1 : m[i] # 0
  BY StringCharacters
<1>2. DOMAIN m = 0 .. n \cup {MapAddress + c : c \in DOMAIN Cipher}
  BY DEF CipherData
<1>3. \A c \in DOMAIN Cipher : ~ (MapAddress + c >= 0)
  <2>1. ASSUME NEW c \in DOMAIN Cipher PROVE ~ (MapAddress + c >= 0)
    <3>1. c \in 1 .. 127
      BY CipherAssumption
    <3>2. MapAddress \in Int /\ MapAddress + 128 = 0
      BY DEF MapAddress
    <3> QED
      BY <3>1, <3>2
  <2> QED
    BY <2>1
<1>4. /\ \A i \in 0 .. n : i = n \/ i \in 0 .. n - 1
      /\ \A i \in 0 .. n - 1 : i \in 0 .. n /\ i >= 0
  BY <1>1, SMT
<1>5. {a \in DOMAIN m : a >= 0 /\ m[a] # 0} = 0 .. n - 1
  BY <1>1, <1>2, <1>3, <1>4
<1>6. Cardinality(0 .. n - 1) = n
  <2>1. PICK b \in Int : b = n - 1
    BY <1>1
  <2>2. 0 \in Int
    OBVIOUS
  <2>3. Cardinality(0 .. b) = IF 0 > b THEN 0 ELSE b - 0 + 1
    BY <2>2, FS_Interval
  <2> QED
    BY <1>1, <2>1, <2>3
<1> QED
  BY <1>5, <1>6

\* countLetters prints how often each letter of the alphabet occurs in the string and how
\* many characters are none, subsCipher what the map makes of the string: for
\* strings of any length and any map.
THEOREM StringsArePrinted == SpecAsm5 => []PrintedRight
<1>1. InitAsm5 => PrintInv5
  BY InitialBuffers, InitialPrinting5 DEF PrintInv5
<1>2. PrintInv5 /\ [CodeAsm5]_<<call, buffer>> => PrintInv5'
  BY PrintingStep5
<1>3. PrintInv5 => PrintedRight
  <2> SUFFICES ASSUME PrintInv5, pc = Caller(5)
               PROVE  LET m == before.memory
                          HowMany(set) == Cardinality({i \in DOMAIN m : m[i] \in set})
                          letters == 97 .. 96 + Letters \cup 65 .. 64 + Letters
                          text == {a \in DOMAIN m : a >= 0 /\ m[a] # 0}
                      IN  console = IF before.pc = countLetters
                            THEN [k \in 1 .. Letters + 1 |->
                                    IF k <= Letters THEN HowMany({96 + k, 64 + k})
                                    ELSE HowMany(Characters \ letters)]
                            ELSE [k \in 1 .. Cardinality(text) |-> Cipher[m[k - 1]]]
    BY DEF PrintedRight
  <2>1. PICK m, n : before.memory = m /\ (Counting(m, n) \/ Ciphering(m, n))
    BY DEF PrintInv5, Printing5
  <2> DEFINE letters == 97 .. 96 + Letters \cup 65 .. 64 + Letters
             counts == [k \in 1 .. Letters + 1 |->
                          IF k <= Letters
                          THEN Cardinality({i \in DOMAIN m : m[i] \in {96 + k, 64 + k}})
                          ELSE Cardinality({i \in DOMAIN m : m[i] \in Characters \ letters})]
  <2>2. CASE Counting(m, n)
    <3>1. /\ before.pc = countLetters /\ CharacterData(m, n)
          /\ console = FirstOf(LetterCounts(m, n), Letters + 1)
      BY <2>2, Labels5 DEF Counting
    <3>2. console = [k \in 1 .. Letters + 1 |-> Counted(m, n, k)]
      BY <3>1 DEF FirstOf, LetterCounts
    <3>3. ASSUME NEW k \in 1 .. Letters + 1
          PROVE  Counted(m, n, k)
                   = IF k <= Letters
                     THEN Cardinality({i \in DOMAIN m : m[i] \in {96 + k, 64 + k}})
                     ELSE Cardinality({i \in DOMAIN m : m[i] \in Characters \ letters})
      <4>1. CASE k <= Letters
        <5>1. k \in 1 .. Letters
          BY <4>1, LettersAssumption, SMT
        <5> QED
          BY <3>1, <4>1, <5>1, LettersCounted
      <4>2. CASE ~ k <= Letters
        <5>1. k = Letters + 1
          BY <4>2, LettersAssumption, SMT
        <5>2. Counted(m, n, Letters + 1)
                = Cardinality({i \in DOMAIN m : m[i] \in Characters \ letters})
          <6>1. letters = 97 .. 96 + Letters \cup 65 .. 64 + Letters
            OBVIOUS
          <6> HIDE DEF letters
          <6> QED
            BY <3>1, <6>1, OthersCounted
        <5> QED
          BY <4>2, <5>1, <5>2
      <4> QED
        BY <4>1, <4>2
    <3>4. console = counts
      BY <3>2, <3>3
    <3> QED
      BY <2>1, <3>1, <3>4
  <2>3. CASE Ciphering(m, n)
    <3>1. before.pc = subsCipher /\ CipherData(m, n) /\ console = Mapped(m, n)
      BY <2>3, Labels5 DEF Ciphering
    <3>2. before.pc # countLetters
      BY <3>1, Labels5
    <3>3. Cardinality({a \in DOMAIN m : a >= 0 /\ m[a] # 0}) = n
      BY <3>1, TextMeasured
    <3>4. console = [k \in 1 .. n |-> Cipher[m[k - 1]]]
      BY <3>1 DEF Mapped
    <3> QED
      BY <2>1, <3>2, <3>3, <3>4
  <2> QED
    BY <2>1, <2>2, <2>3
<1> QED
  BY <1>1, <1>2, <1>3, PTL DEF SpecAsm5

-----------------------------------------------------------------------------
(* What asm3.s computes. *)

\* A divisor leaves no remainder.
LEMMA DivisorOf ==
  ASSUME NEW d \in Nat \ {0}, NEW n \in Nat
  PROVE  IsDivisor(d, n) <=> \E q \in Nat : n = d * q
<1>1. n = d * (n \div d) + (n % d) /\ n \div d \in Nat
  BY SMT
<1>2. IsDivisor(d, n) => n = d * (n \div d)
  BY <1>1, SMT DEF IsDivisor
<1>3. ASSUME NEW q \in Nat, n = d * q
      PROVE  n % d = 0
  BY <1>3, SMT
<1> QED
  BY <1>1, <1>2, <1>3 DEF IsDivisor

\* The two numbers of gcf's recursion have the divisors of those before.
LEMMA DivisorsOfRemainder ==
  ASSUME NEW d \in Nat \ {0}, NEW a \in Nat \ {0}, NEW b \in Nat \ {0}
  PROVE  IsDivisor(d, a) /\ IsDivisor(d, b) <=> IsDivisor(d, b) /\ IsDivisor(d, a % b)
<1> DEFINE q == a \div b
<1>1. a = b * q + (a % b) /\ q \in Nat /\ a % b \in Nat
  BY SMT
<1> HIDE DEF q
<1>2. ASSUME NEW x \in Nat, NEW y \in Nat, a = d * x, b = d * y
      PROVE  x - y * q \in Nat /\ a % b = d * (x - y * q)
  <2>1. a % b = d * x - (d * y) * q
    BY <1>1, <1>2, SMT
  <2>2. (d * y) * q = d * (y * q) /\ y * q \in Nat
    BY <1>1, SMT
  <2>3. d * x - d * (y * q) = d * (x - y * q)
    BY <1>1, <2>2, SMT
  <2> QED
    BY <1>1, <2>1, <2>2, <2>3, SMT
<1>3. ASSUME NEW y \in Nat, NEW z \in Nat, b = d * y, a % b = d * z
      PROVE  y * q + z \in Nat /\ a = d * (y * q + z)
  <2>1. a = (d * y) * q + d * z
    BY <1>1, <1>3, SMT
  <2>2. (d * y) * q = d * (y * q) /\ y * q \in Nat
    BY <1>1, SMT
  <2>3. d * (y * q) + d * z = d * (y * q + z)
    BY <1>1, <2>2, SMT
  <2> QED
    BY <1>1, <2>1, <2>2, <2>3, SMT
<1>4. /\ IsDivisor(d, a) <=> \E x \in Nat : a = d * x
      /\ IsDivisor(d, b) <=> \E y \in Nat : b = d * y
      /\ IsDivisor(d, a % b) <=> \E z \in Nat : a % b = d * z
  BY <1>1, DivisorOf
<1>5. ASSUME IsDivisor(d, a), IsDivisor(d, b)
      PROVE  IsDivisor(d, a % b)
  <2>1. PICK x \in Nat : a = d * x
    BY <1>4, <1>5, Zenon
  <2>2. PICK y \in Nat : b = d * y
    BY <1>4, <1>5, Zenon
  <2> QED
    BY <1>2, <1>4, <2>1, <2>2, Zenon
<1>6. ASSUME IsDivisor(d, b), IsDivisor(d, a % b)
      PROVE  IsDivisor(d, a)
  <2>1. PICK y \in Nat : b = d * y
    BY <1>4, <1>6, Zenon
  <2>2. PICK z \in Nat : a % b = d * z
    BY <1>4, <1>6, Zenon
  <2> QED
    BY <1>3, <1>4, <2>1, <2>2, Zenon
<1> QED
  BY <1>5, <1>6

-----------------------------------------------------------------------------
(* What the rotations print and add up. *)

\* The argument that is at place j, from 0, after i rotations.
Rotated(arguments, i, j) == arguments[((i + j) % Len(arguments)) + 1]

\* Each rotation adds what has become the first argument.
LEMMA NextSum ==
  ASSUME NEW arguments \in Seq(Int), Len(arguments) # 0
  PROVE  /\ SumOfFirsts(arguments, 0) = 0
         /\ \A i \in Nat : /\ SumOfFirsts(arguments, i) \in Int
                          /\ SumOfFirsts(arguments, i + 1)
                               = SumOfFirsts(arguments, i) + Rotated(arguments, i, 0)
<1> DEFINE n == Len(arguments)
           At(i) == arguments[(i % n) + 1]
           Body(s) == [r \in Nat |-> IF r = 0 THEN 0 ELSE s[r - 1] + At(r - 1)]
           sums == CHOOSE s : s = Body(s)
           g == [i \in Nat |-> [v \in Int |-> v + At(i)]]
<1>1. n \in Nat \ {0}
  BY LenProperties
<1>2. ASSUME NEW i \in Nat
      PROVE  At(i) \in Int /\ At(i) = Rotated(arguments, i, 0)
  <2>1. (i % n) + 1 \in 1 .. n /\ i + 0 = i
    BY <1>1, SMT
  <2> QED
    BY <2>1, ElementOfSeq DEF Rotated
<1> HIDE DEF At
<1>3. \A i \in Nat, v \in Int : v + At(i) \in Int
  BY <1>2, SMT
<1>4. g \in [Nat -> [Int -> Int]] /\ 0 \in Int
  <2>1. g \in [Nat -> [Int -> Int]]
    BY <1>3, Zenon
  <2> QED
    BY <2>1, SMT
<1>5. \A i \in Nat, v \in Int : g[i][v] = v + At(i)
  BY Zenon
<1> HIDE DEF g
<1>6. PICK f : SolvesRecursion(f, Int, 0, g)
  BY <1>4, RecursiveFunction
<1> USE DEF SolvesRecursion
<1>7. f = Body(f)
  <2>1. ASSUME NEW r \in Nat
        PROVE  f[r] = IF r = 0 THEN 0 ELSE f[r - 1] + At(r - 1)
    <3>1. CASE r = 0
      BY <3>1, <1>6
    <3>2. CASE r # 0
      <4>1. r - 1 \in Nat /\ (r - 1) + 1 = r
        BY <3>2, SMT
      <4>2. f[r] = g[r - 1][f[r - 1]] /\ f[r - 1] \in Int
        BY <4>1, <1>6, Zenon
      <4> QED
        BY <3>2, <4>1, <4>2, <1>5, Zenon
    <3> QED
      BY <3>1, <3>2
  <2>2. f = [r \in Nat |-> f[r]]
    BY <1>6
  <2> QED
    BY <2>1, <2>2, Zenon
<1>8. sums = Body(sums)
  <2> HIDE DEF Body
  <2> QED
    BY <1>7
<1>9. \A i \in Nat : SumOfFirsts(arguments, i) = sums[i]
  BY Zenon DEF SumOfFirsts, At
<1> HIDE DEF sums
<1>10. sums[0] = 0 /\ \A i \in Nat : sums[i + 1] = sums[i] + At(i)
  <2>1. sums[0] = 0
    BY <1>8, SMT
  <2>2. ASSUME NEW i \in Nat PROVE sums[i + 1] = sums[i] + At(i)
    <3>1. i + 1 \in Nat /\ i + 1 # 0 /\ (i + 1) - 1 = i
      BY SMT
    <3> QED
      BY <1>8, <3>1, Zenon
  <2> QED
    BY <2>1, <2>2
<1>11. \A i \in Nat : sums[i] \in Int
  <2> DEFINE P == {i \in Nat : sums[i] \in Int}
  <2>1. 0 \in P
    BY <1>10, SMT
  <2>2. \A i \in Nat : i \in P => i + 1 \in P
    <3> TAKE i \in Nat
    <3>1. sums[i] \in Int => sums[i] + At(i) \in Int
      BY <1>2, SMT
    <3>2. sums[i + 1] = sums[i] + At(i) /\ i + 1 \in Nat
      BY <1>10, SMT
    <3> QED
      BY <3>1, <3>2
  <2> HIDE DEF P
  <2>3. Nat \subseteq P
    BY <2>1, <2>2, SetInduction
  <2> QED
    BY <2>3 DEF P
<1>12. \A i \in Nat : i + 1 \in Nat
  BY SMT
<1> QED
  BY <1>2, <1>9, <1>10, <1>11, <1>12

\* A sequence that is another one and what follows it.
LEMMA Joined ==
  ASSUME NEW s \in Seq(Int), NEW u \in Seq(Int), NEW t \in Seq(Int), Len(t) = Len(s) + Len(u),
         \A k \in 1 .. Len(s) : t[k] = s[k],
         \A k \in 1 .. Len(u) : t[Len(s) + k] = u[k]
  PROVE  s \o u = t
<1> DEFINE v == s \o u
<1>1. /\ v \in Seq(Int) /\ Len(v) = Len(s) + Len(u)
      /\ \A i \in 1 .. Len(s) + Len(u) : v[i] = IF i <= Len(s) THEN s[i] ELSE u[i - Len(s)]
  BY ConcatProperties
<1>2. Len(s) \in Nat /\ Len(u) \in Nat
  BY LenProperties
<1> HIDE DEF v
<1>3. ASSUME NEW i \in 1 .. Len(v)
      PROVE  v[i] = t[i]
  <2>1. CASE i <= Len(s)
    <3>1. i \in 1 .. Len(s)
      BY <1>1, <1>2, <2>1, SMT
    <3> QED
      BY <1>1, <2>1, <3>1
  <2>2. CASE ~ i <= Len(s)
    <3>1. i - Len(s) \in 1 .. Len(u) /\ Len(s) + (i - Len(s)) = i
      BY <1>1, <1>2, <2>2, SMT
    <3> QED
      BY <1>1, <2>2, <3>1, Zenon
  <2> QED
    BY <2>1, <2>2
<1>4. v = t
  BY <1>1, <1>3, SeqEqual
<1> QED
  BY <1>4 DEF v

\* What the rotations print, as a sequence.
LEMMA RotationsPrinted ==
  ASSUME NEW arguments \in Seq(Int), NEW n \in {3, 6}, Len(arguments) = n, NEW i \in Nat
  PROVE  /\ Rotations(arguments, i) \in Seq(Int)
         /\ Len(Rotations(arguments, i)) = n * i
         /\ \A r \in 0 .. i - 1, j \in 0 .. n - 1 :
              Rotations(arguments, i)[n * r + j + 1] = Rotated(arguments, r, j)
<1> DEFINE item(k) == arguments[((((k - 1) \div n) + ((k - 1) % n)) % n) + 1]
           s == Rotations(arguments, i)
<1>1. n * i \in Nat
  BY SMT
<1>2. ASSUME NEW k \in 1 .. n * i
      PROVE  item(k) \in Int
  <2>1. ((((k - 1) \div n) + ((k - 1) % n)) % n) + 1 \in 1 .. n
    BY <1>1, SMT
  <2> QED
    BY <2>1, ElementOfSeq
<1>3. s = [k \in 1 .. n * i |-> item(k)]
  BY DEF Rotations
<1>4. ASSUME NEW r \in 0 .. i - 1, NEW j \in 0 .. n - 1
      PROVE  n * r + j + 1 \in 1 .. n * i /\ item(n * r + j + 1) = Rotated(arguments, r, j)
  <2>1. n * r + j + 1 \in 1 .. n * i
    BY SMT
  <2>2. (n * r + j + 1 - 1) \div n = r /\ (n * r + j + 1 - 1) % n = j
    BY SMT
  <2> QED
    BY <2>1, <2>2 DEF Rotated
<1> HIDE DEF item
<1>5. s \in [1 .. n * i -> Int]
  BY <1>2, <1>3
<1>6. s \in Seq(Int) /\ Len(s) = n * i
  BY <1>1, <1>5, SeqDef, LenProperties, SMT
<1> QED
  BY <1>3, <1>4, <1>6

LEMMA QuotientAndRemainder ==
  ASSUME NEW n \in Nat \ {0}, NEW i \in Nat, NEW l \in Nat, l < n * i
  PROVE  l = n * (l \div n) + (l % n) /\ l % n \in 0 .. n - 1 /\ l \div n \in 0 .. i - 1
<1>1. l = n * (l \div n) + (l % n) /\ l % n \in 0 .. n - 1 /\ l \div n \in Nat
  BY SMT
<1> DEFINE q == l \div n
<1> HIDE DEF q
<1>2. n * q < n * i /\ q \in Nat
  BY <1>1, SMT DEF q
<1>3. q < i
  <2>1. ASSUME i <= q PROVE FALSE
    <3>1. PICK e \in Nat : q = i + e
      BY <1>2, <2>1, SMT
    <3>2. n * q = n * i + n * e /\ n * e \in Nat /\ n * i \in Nat
      BY <3>1, SMT
    <3> QED
      BY <1>2, <3>2, SMT
  <2> QED
    BY <1>2, <2>1, SMT
<1> QED
  BY <1>1, <1>2, <1>3, SMT DEF q

\* Another rotation is printed.
LEMMA NextRotation ==
  ASSUME NEW arguments \in Seq(Int), NEW n \in {3, 6}, Len(arguments) = n, NEW i \in Nat,
         NEW words \in Seq(Int), Len(words) = n,
         \A j \in 0 .. n - 1 : words[j + 1] = Rotated(arguments, i, j)
  PROVE  Rotations(arguments, i) \o words = Rotations(arguments, i + 1)
<1> DEFINE s == Rotations(arguments, i)
           t == Rotations(arguments, i + 1)
<1>1. i + 1 \in Nat /\ n \in Nat /\ n > 0
  BY SMT
<1>2. /\ s \in Seq(Int) /\ Len(s) = n * i
      /\ \A r \in 0 .. i - 1, j \in 0 .. n - 1 : s[n * r + j + 1] = Rotated(arguments, r, j)
  BY RotationsPrinted
<1>3. /\ t \in Seq(Int) /\ Len(t) = n * (i + 1)
      /\ \A r \in 0 .. (i + 1) - 1, j \in 0 .. n - 1 : t[n * r + j + 1] = Rotated(arguments, r, j)
  BY <1>1, RotationsPrinted
<1> HIDE DEF s, t
<1>4. Len(t) = Len(s) + Len(words)
  BY <1>2, <1>3, SMT
<1>5. ASSUME NEW k \in 1 .. Len(s)
      PROVE  t[k] = s[k]
  <2>1. PICK r \in 0 .. i - 1, j \in 0 .. n - 1 : k = n * r + j + 1
    <3>1. k - 1 \in Nat /\ k - 1 < n * i /\ n \in Nat \ {0}
      BY <1>2, SMT
    <3>2. /\ k - 1 = n * ((k - 1) \div n) + ((k - 1) % n)
          /\ (k - 1) % n \in 0 .. n - 1 /\ (k - 1) \div n \in 0 .. i - 1
      BY <3>1, QuotientAndRemainder
    <3>3. k = n * ((k - 1) \div n) + ((k - 1) % n) + 1
      BY <3>2, SMT
    <3> QED
      BY <3>2, <3>3
  <2>2. r \in 0 .. (i + 1) - 1
    BY SMT
  <2> QED
    BY <1>2, <1>3, <2>1, <2>2
<1>6. ASSUME NEW k \in 1 .. Len(words)
      PROVE  t[Len(s) + k] = words[k]
  <2>1. i \in 0 .. (i + 1) - 1 /\ k - 1 \in 0 .. n - 1 /\ Len(s) + k = n * i + (k - 1) + 1
        /\ (k - 1) + 1 = k
    BY <1>2, SMT
  <2>2. t[n * i + (k - 1) + 1] = Rotated(arguments, i, k - 1)
    BY <1>3, <2>1
  <2>3. words[(k - 1) + 1] = Rotated(arguments, i, k - 1)
    BY <2>1
  <2> QED
    BY <2>1, <2>2, <2>3
<1>7. s \o words = t
  BY <1>2, <1>3, <1>4, <1>5, <1>6, Joined
<1> QED
  BY <1>7 DEF s, t

-----------------------------------------------------------------------------
(* What each function has computed at each of its places. *)

\* strlen: the characters before $a0 are counted.
IsString(m, n) ==
  n \in Nat /\ DOMAIN m = 0 .. n /\ m[n] = 0 /\ \A i \in 0 .. n - 1 : m[i] # 0
Measuring(n) ==
  /\ before.pc = strlen /\ memory = before.memory /\ IsString(memory, n)
  /\ pc \in {strlen, LOOP_STRLEN, Caller(3)}
  /\ pc = strlen => regs.a0 = 0
  /\ pc = LOOP_STRLEN => regs.a0 \in 0 .. n /\ regs.s0 = regs.a0
  /\ pc = Caller(3) => regs.v0 = n

\* gcf: every call has the common divisors of the first one.
AreFactors(d, a, b) == IsDivisor(d, a) /\ IsDivisor(d, b)
SameFactors(a, b, c, d) ==
  \A f \in Nat \ {0} : AreFactors(f, a, b) <=> AreFactors(f, c, d)
GreatestFactor(v, a, b) ==
  /\ v \in Nat \ {0} /\ AreFactors(v, a, b)
  /\ \A f \in Nat \ {0} : AreFactors(f, a, b) => f <= v
Dividing(a, b) ==
  /\ before.pc = gcf /\ before.regs.a0 = a /\ before.regs.a1 = b
  /\ a \in Nat \ {0} /\ b \in Nat \ {0}
  /\ pc \in {gcf, EXIT_GCF, Caller(3)}
  /\ pc = gcf => /\ regs.a0 \in Nat \ {0} /\ regs.a1 \in Nat \ {0}
                 /\ SameFactors(regs.a0, regs.a1, a, b)
  /\ pc # gcf => GreatestFactor(regs.v0, a, b)

\* bottles: i verses of all are printed.
Verses(a) == [k \in 1 .. 3 * AtLeast0(a) |->
                a - ((k - 1) \div 3) - (IF k % 3 = 0 THEN 1 ELSE 0)]
HasSung(a) ==
  \E i \in 0 .. AtLeast0(a) : regs.t0 = a - i /\ console = FirstOf(Verses(a), 3 * i)
Singing(a) ==
  /\ before.pc = bottles /\ before.regs.a0 = a /\ a \in Int
  /\ pc \in {bottles, LOOP_BOTTLES, Caller(3)}
  /\ pc = bottles => regs.a0 = a /\ console = << >>
  /\ pc = LOOP_BOTTLES => HasSung(a)
  /\ pc = Caller(3) => console = Verses(a)

\* longestSorted: the run that ends at the item $t0, and the longest so far.
Sorted(m, i, k) == \A j \in i .. k - 1 : m[j] <= m[j + 1]
LongestEndingAt(m, k, c) ==
  /\ c \in 1 .. k + 1 /\ Sorted(m, k + 1 - c, k)
  /\ \A i \in 0 .. k : Sorted(m, i, k) => k + 1 - i <= c
IsRun(m, k, c) == \E i \in 0 .. k : i + c <= k + 1 /\ Sorted(m, i, i + c - 1)
LongestUpTo(m, k, c) ==
  /\ c \in 1 .. k + 1 /\ IsRun(m, k, c)
  /\ \A e \in 0 .. k : \A i \in 0 .. e : Sorted(m, i, e) => e + 1 - i <= c
Comparing(n) ==
  /\ before.pc = longestSorted /\ before.regs.a1 = n
  /\ memory = before.memory /\ n \in Nat /\ memory \in [0 .. n - 1 -> Int]
  /\ pc \in {longestSorted, LOOP_LONGEST_SORTED, Caller(3)}
  /\ pc = longestSorted => regs.a0 = 0 /\ regs.a1 = n
  /\ pc = LOOP_LONGEST_SORTED =>
       /\ n # 0 /\ regs.a0 = 0 /\ regs.a1 = n /\ regs.t0 \in 0 .. n - 1
       /\ LongestEndingAt(memory, regs.t0, regs.t2)
       /\ LongestUpTo(memory, regs.t0, FinalCount)
  /\ pc = Caller(3) => IF n = 0 THEN regs.v0 = 0 ELSE LongestUpTo(memory, n - 1, regs.v0)

\* rotateShort and rotateLong: the words of the frame after i rotations, what the
\* test's function has printed of them, and the sum of what it has returned.
Three == <<1, 2, 3>>
Six == <<1, 2, 3, 4, 5, 6>>
HasRotated(arguments, i, printed) ==
  /\ console = Rotations(arguments, printed) /\ regs.s0 = SumOfFirsts(arguments, i)
ReturnsRotated(a, arguments) ==
  /\ console = Rotations(arguments, AtLeast0(a)) /\ regs.v0 = SumOfFirsts(arguments, AtLeast0(a))

ThreeRotated(i) == \A j \in 0 .. 2 : stack[j + 3] = Rotated(Three, i, j)
HasRotatedThree(a) ==
  \E i \in 0 .. AtLeast0(a) : regs.t0 = i /\ ThreeRotated(i) /\ HasRotated(Three, i, i)
PassesThree(a) ==
  \E i \in 0 .. AtLeast0(a) - 1 :
    /\ stack[1] = i /\ ThreeRotated(i) /\ HasRotated(Three, i, i)
    /\ regs.a0 = Rotated(Three, i, 0) /\ regs.a1 = Rotated(Three, i, 1)
    /\ regs.a2 = Rotated(Three, i, 2)
HasPassedThree(a) ==
  \E i \in 0 .. AtLeast0(a) - 1 :
    /\ stack[1] = i /\ ThreeRotated(i) /\ HasRotated(Three, i, i + 1)
    /\ regs.v0 = Rotated(Three, i, 0)
RotatingShort(a) ==
  /\ before.pc = rotateShort /\ before.regs.a0 = a /\ a \in Int
  /\ pc \in {rotateShort, LOOP_ROTATE_SHORT, utilShort, AfterUtilShort, Caller(3)}
  /\ pc = rotateShort => /\ regs.a0 = a /\ regs.a1 = 1 /\ regs.a2 = 2 /\ regs.a3 = 3
                         /\ console = << >>
  /\ pc \in {LOOP_ROTATE_SHORT, utilShort, AfterUtilShort} => stack[2] = a
  /\ pc = LOOP_ROTATE_SHORT => HasRotatedThree(a)
  /\ pc = utilShort => PassesThree(a)
  /\ pc = AfterUtilShort => HasPassedThree(a)
  /\ pc = Caller(3) => ReturnsRotated(a, Three)

SixRotated(i) == \A j \in 0 .. 5 : stack[j + 2] = Rotated(Six, i, j)
HasRotatedSix(a) ==
  \E i \in 0 .. AtLeast0(a) : regs.t9 = i /\ SixRotated(i) /\ HasRotated(Six, i, i)
PassesSix(a) ==
  \E i \in 0 .. AtLeast0(a) - 1 :
    /\ stack[8] = i /\ SixRotated(i) /\ HasRotated(Six, i, i)
    /\ regs.a0 = Rotated(Six, i, 0) /\ regs.a1 = Rotated(Six, i, 1)
    /\ regs.a2 = Rotated(Six, i, 2) /\ regs.a3 = Rotated(Six, i, 3)
    /\ below[2] = Rotated(Six, i, 4) /\ below[1] = Rotated(Six, i, 5)
HasPassedSix(a) ==
  \E i \in 0 .. AtLeast0(a) - 1 :
    /\ stack[8] = i /\ SixRotated(i) /\ HasRotated(Six, i, i + 1)
    /\ regs.v0 = Rotated(Six, i, 0)
RotatingLong(a) ==
  /\ before.pc = rotateLong /\ before.regs.a0 = a /\ a \in Int
  /\ pc \in {rotateLong, LOOP_ROTATE_LONG, utilLong, AfterUtilLong, Caller(3)}
  /\ pc = rotateLong => /\ regs.a0 = a /\ regs.a1 = 1 /\ regs.a2 = 2 /\ regs.a3 = 3
                        /\ below = <<6, 5, 4>> /\ console = << >>
  /\ pc \in {LOOP_ROTATE_LONG, utilLong, AfterUtilLong} => stack[1] = a
  /\ pc = LOOP_ROTATE_LONG => HasRotatedSix(a)
  /\ pc = utilLong => PassesSix(a)
  /\ pc = AfterUtilLong => HasPassedSix(a)
  /\ pc = Caller(3) => ReturnsRotated(a, Six)

Results3 ==
  \/ \E n : Measuring(n) \/ Singing(n) \/ Comparing(n) \/ RotatingShort(n) \/ RotatingLong(n)
  \/ \E a, b : Dividing(a, b)

ResultInv3 == Control3 /\ Results3

-----------------------------------------------------------------------------
(* strlen *)

LEMMA StrlenMeasures ==
  ASSUME NEW n, Control3, Measuring(n), Strlen \/ StrlenCounts \/ StrlenReturns
  PROVE  Measuring(n)' /\ memory' = memory
<1>1. memory' = memory /\ before' = before /\ regs \in Registers3
  BY DEF Control3, Types3, Strlen, StrlenCounts, StrlenReturns
<1>2. before.pc = strlen /\ memory = before.memory /\ IsString(memory, n) /\ n \in Nat
  BY DEF Measuring, IsString
<1>3. regs.a0 \in Int /\ regs.s0 \in Int
  BY <1>1, Fields3
<1>4. CASE Strlen
  <2>1. pc = strlen /\ pc' = LOOP_STRLEN /\ regs' = [regs EXCEPT !.s0 = 0]
    BY <1>4 DEF Strlen
  <2>2. regs'.s0 = 0 /\ regs'.a0 = regs.a0
    BY <1>1, <2>1 DEF Registers3
  <2>3. regs.a0 = 0 /\ 0 \in 0 .. n
    BY <1>2, <2>1, SMT DEF Measuring
  <2> QED
    BY <1>1, <1>2, <2>1, <2>2, <2>3, Labels3 DEF Measuring
<1>5. CASE StrlenCounts
  <2>1. /\ pc = LOOP_STRLEN /\ pc' = pc /\ memory[regs.a0] # 0
        /\ regs' = [regs EXCEPT !.s0 = regs.s0 + 1, !.a0 = regs.a0 + 1]
    BY <1>5 DEF StrlenCounts
  <2>2. regs'.s0 = regs.s0 + 1 /\ regs'.a0 = regs.a0 + 1
    BY <1>1, <2>1 DEF Registers3
  <2>3. regs.a0 \in 0 .. n /\ regs.s0 = regs.a0
    BY <2>1 DEF Measuring
  <2>4. regs.a0 # n
    BY <1>2, <2>1 DEF IsString
  <2>5. regs.a0 + 1 \in 0 .. n
    BY <1>2, <2>3, <2>4, SMT
  <2> QED
    BY <1>1, <1>2, <2>1, <2>2, <2>3, <2>5, Labels3 DEF Measuring
<1>6. CASE StrlenReturns
  <2>1. /\ pc = LOOP_STRLEN /\ memory[regs.a0] = 0 /\ pc' = regs'.ra
        /\ regs' = [regs EXCEPT !.v0 = regs.s0, !.s0 = AtSP(0), !.ra = AtSP(4)]
    BY <1>6 DEF StrlenReturns, JrRa
  <2>2. regs'.v0 = regs.s0 /\ regs'.ra = AtSP(4)
    BY <1>1, <2>1 DEF Registers3
  <2>3. pc' = Caller(3)
    BY <2>1, <2>2, Offsets, Places3, SMT DEF FrameWithS0, FrameOf
  <2>4. regs.a0 \in 0 .. n /\ regs.s0 = regs.a0
    BY <2>1 DEF Measuring
  <2>5. regs.a0 = n
    <3>1. CASE regs.a0 # n
      <4>1. regs.a0 \in 0 .. n - 1
        BY <1>2, <2>4, <3>1, SMT
      <4> QED
        BY <1>2, <2>1, <4>1 DEF IsString
    <3> QED
      BY <3>1
  <2> QED
    BY <1>1, <1>2, <2>2, <2>3, <2>4, <2>5, Labels3 DEF Measuring
<1> QED
  BY <1>1, <1>4, <1>5, <1>6

-----------------------------------------------------------------------------
(* gcf *)

\* What the first comparison and the remainder do to the arguments.
LEMMA FactorsOfOrdered ==
  ASSUME NEW registers, regs = registers, registers.a0 \in Nat \ {0}, registers.a1 \in Nat \ {0}
  PROVE  /\ Larger \in Nat \ {0} /\ Smaller \in Nat \ {0}
         /\ \A f : AreFactors(f, registers.a0, registers.a1) <=> AreFactors(f, Larger, Smaller)
<1>1. CASE registers.a0 < registers.a1
  BY <1>1 DEF Larger, Smaller, AreFactors
<1>2. CASE ~ registers.a0 < registers.a1
  BY <1>2 DEF Larger, Smaller, AreFactors
<1> QED
  BY <1>1, <1>2

LEMMA SmallerIsGreatest ==
  ASSUME NEW a \in Nat \ {0}, NEW b \in Nat \ {0}, b = 1 \/ a % b = 0
  PROVE  GreatestFactor(b, a, b)
<1>1. a % b = 0
  BY SMT
<1>2. b % b = 0
  BY SMT
<1>3. ASSUME NEW f \in Nat \ {0}, AreFactors(f, a, b)
      PROVE  f <= b
  <2>1. PICK q \in Nat : b = f * q
    BY <1>3, DivisorOf DEF AreFactors
  <2>2. q # 0
    BY <2>1, SMT
  <2>3. PICK r \in Nat : q = r + 1
    BY <2>2, SMT
  <2>4. b = f * r + f /\ f * r \in Nat
    BY <2>1, <2>3, SMT
  <2> QED
    BY <2>4, SMT
<1> QED
  BY <1>1, <1>2, <1>3 DEF GreatestFactor, AreFactors, IsDivisor

LEMMA GcfDivides ==
  ASSUME NEW a, NEW b, Control3, Dividing(a, b), GcfKnown \/ GcfRecurses \/ GcfReturns
  PROVE  Dividing(a, b)'
<1>1. before' = before /\ regs \in Registers3
  BY DEF Control3, Types3, GcfKnown, GcfRecurses, GcfReturns
<1>2. /\ before.pc = gcf /\ before.regs.a0 = a /\ before.regs.a1 = b
      /\ a \in Nat \ {0} /\ b \in Nat \ {0}
  BY DEF Dividing
<1>3. ASSUME pc = gcf
      PROVE  /\ Larger \in Nat \ {0} /\ Smaller \in Nat \ {0}
             /\ \A f \in Nat \ {0} : AreFactors(f, a, b) <=> AreFactors(f, Larger, Smaller)
  <2>1. regs.a0 \in Nat \ {0} /\ regs.a1 \in Nat \ {0} /\ SameFactors(regs.a0, regs.a1, a, b)
    BY <1>3 DEF Dividing
  <2>2. /\ Larger \in Nat \ {0} /\ Smaller \in Nat \ {0}
        /\ \A f : AreFactors(f, regs.a0, regs.a1) <=> AreFactors(f, Larger, Smaller)
    BY <2>1, FactorsOfOrdered
  <2> QED
    BY <2>1, <2>2 DEF SameFactors
<1>4. CASE GcfKnown
  <2>1. /\ pc = gcf /\ pc' = EXIT_GCF
        /\ Smaller = 1 \/ Larger % Smaller = 0
        /\ regs' = [regs EXCEPT !.a0 = Larger, !.a1 = Smaller, !.v0 = Smaller]
    BY <1>4 DEF GcfKnown
  <2>2. regs'.v0 = Smaller
    BY <1>1, <2>1 DEF Registers3
  <2> DEFINE x == Larger
             y == Smaller
  <2>3. /\ x \in Nat \ {0} /\ y \in Nat \ {0} /\ regs'.v0 = y
        /\ y = 1 \/ x % y = 0
        /\ \A f \in Nat \ {0} : AreFactors(f, a, b) <=> AreFactors(f, x, y)
    BY <1>3, <2>1, <2>2
  <2> HIDE DEF x, y
  <2>4. GreatestFactor(y, x, y)
    BY <2>3, SmallerIsGreatest
  <2>5. GreatestFactor(regs'.v0, a, b)
    BY <2>3, <2>4 DEF GreatestFactor
  <2> QED
    BY <1>1, <1>2, <2>1, <2>5, Labels3 DEF Dividing
<1>5. CASE GcfRecurses
  <2>1. /\ pc = gcf /\ pc' = gcf
        /\ Smaller # 1 /\ Larger % Smaller # 0
        /\ \E r : regs' = [[regs EXCEPT !.a0 = Smaller, !.a1 = Larger % Smaller] EXCEPT !.ra = r]
    BY <1>5 DEF GcfRecurses, Jal
  <2>2. regs'.a0 = Smaller /\ regs'.a1 = Larger % Smaller
    BY <1>1, <2>1 DEF Registers3
  <2> DEFINE x == Larger
             y == Smaller
  <2>3. /\ x \in Nat \ {0} /\ y \in Nat \ {0} /\ regs'.a0 = y /\ regs'.a1 = x % y
        /\ x % y # 0
        /\ \A f \in Nat \ {0} : AreFactors(f, a, b) <=> AreFactors(f, x, y)
    BY <1>3, <2>1, <2>2
  <2> HIDE DEF x, y
  <2>4. x % y \in Nat \ {0}
    BY <2>3, SMT
  <2>5. \A f \in Nat \ {0} : AreFactors(f, x, y) <=> AreFactors(f, y, x % y)
    BY <2>3, DivisorsOfRemainder DEF AreFactors
  <2>6. SameFactors(regs'.a0, regs'.a1, a, b)
    BY <2>3, <2>5 DEF SameFactors
  <2> QED
    BY <1>1, <1>2, <2>1, <2>3, <2>4, <2>6, Labels3 DEF Dividing
<1>6. CASE GcfReturns
  <2>1. /\ pc = EXIT_GCF /\ pc' = regs'.ra
        /\ regs' = [regs EXCEPT !.ra = AtSP(8)]
    BY <1>6 DEF GcfReturns, JrRa
  <2>2. regs'.v0 = regs.v0 /\ regs'.ra = AtSP(8)
    BY <1>1, <2>1 DEF Registers3
  <2>3. PICK n \in Nat \ {0} : GcfFrames(stack, n)
    BY <2>1, Places3
  <2>4. stack[3] \in {EXIT_GCF, Caller(3)}
    <3>1. 1 \in 1 .. n /\ 3 * 1 = 3
      BY SMT
    <3>2. stack[3 * 1] = IF 1 = n THEN Caller(3) ELSE EXIT_GCF
      BY <2>3, <3>1 DEF GcfFrames
    <3> QED
      BY <3>1, <3>2
  <2>5. pc' \in {EXIT_GCF, Caller(3)}
    BY <2>1, <2>2, <2>4, Offsets
  <2>6. GreatestFactor(regs'.v0, a, b)
    BY <2>1, <2>2, Labels3 DEF Dividing
  <2> QED
    BY <1>1, <1>2, <2>5, <2>6, Labels3 DEF Dividing
<1> QED
  BY <1>4, <1>5, <1>6

-----------------------------------------------------------------------------
(* bottles *)

LEMMA VersesOf ==
  ASSUME NEW a \in Int
  PROVE  /\ AtLeast0(a) \in Nat /\ 3 * AtLeast0(a) \in Nat
         /\ Verses(a) \in [1 .. 3 * AtLeast0(a) -> Int]
         /\ Verses(a) = FirstOf(Verses(a), 3 * AtLeast0(a))
         /\ FirstOf(Verses(a), 0) = << >>
         /\ \A i \in Nat : i < AtLeast0(a) =>
              /\ Verses(a)[3 * i + 1] = a - i
              /\ Verses(a)[3 * i + 2] = a - i
              /\ Verses(a)[3 * i + 3] = a - i - 1
<1> DEFINE N == AtLeast0(a)
<1>1. N \in Nat /\ 3 * N \in Nat
  BY SMT DEF AtLeast0
<1> HIDE DEF N
<1>2. \A k \in 1 .. 3 * N : a - ((k - 1) \div 3) - (IF k % 3 = 0 THEN 1 ELSE 0) \in Int
  BY <1>1, SMT
<1>3. Verses(a) = [k \in 1 .. 3 * N |-> a - ((k - 1) \div 3) - (IF k % 3 = 0 THEN 1 ELSE 0)]
  BY DEF Verses, N
<1>4. Verses(a) \in [1 .. 3 * N -> Int]
  BY <1>2, <1>3
<1>5. Verses(a) = FirstOf(Verses(a), 3 * N)
  BY <1>4 DEF FirstOf
<1>6. FirstOf(Verses(a), 0) = << >>
  BY SMT DEF FirstOf
<1>7. ASSUME NEW i \in Nat, i < N
      PROVE  /\ Verses(a)[3 * i + 1] = a - i
             /\ Verses(a)[3 * i + 2] = a - i
             /\ Verses(a)[3 * i + 3] = a - i - 1
  <2>1. 3 * i + 1 \in 1 .. 3 * N /\ 3 * i + 2 \in 1 .. 3 * N /\ 3 * i + 3 \in 1 .. 3 * N
    BY <1>1, <1>7, SMT
  <2>2. /\ (3 * i + 1 - 1) \div 3 = i /\ (3 * i + 2 - 1) \div 3 = i /\ (3 * i + 3 - 1) \div 3 = i
        /\ (3 * i + 1) % 3 # 0 /\ (3 * i + 2) % 3 # 0 /\ (3 * i + 3) % 3 = 0
    BY SMT
  <2>3. /\ Verses(a)[3 * i + 1] = a - i - 0 /\ Verses(a)[3 * i + 2] = a - i - 0
        /\ Verses(a)[3 * i + 3] = a - i - 1
    BY <1>3, <2>1, <2>2
  <2> QED
    BY <2>3, SMT
<1> QED
  BY <1>1, <1>4, <1>5, <1>6, <1>7 DEF N

\* Another verse is printed.
LEMMA NextVerse ==
  ASSUME NEW a \in Int, NEW i \in Nat, i < AtLeast0(a)
  PROVE  FirstOf(Verses(a), 3 * i) \o <<a - i, a - i, a - i - 1>> = FirstOf(Verses(a), 3 * (i + 1))
<1> DEFINE s == FirstOf(Verses(a), 3 * i)
           t == FirstOf(Verses(a), 3 * (i + 1))
           u == <<a - i, a - i, a - i - 1>>
           N == AtLeast0(a)
<1>1. /\ N \in Nat /\ Verses(a) \in [1 .. 3 * N -> Int]
      /\ Verses(a)[3 * i + 1] = a - i /\ Verses(a)[3 * i + 2] = a - i
      /\ Verses(a)[3 * i + 3] = a - i - 1
  BY VersesOf
<1>2. /\ 3 * i \in Nat /\ 3 * (i + 1) \in Nat /\ 3 * (i + 1) = 3 * i + 3
      /\ \A k \in 1 .. 3 * (i + 1) : k \in 1 .. 3 * N
      /\ \A k \in 1 .. 3 * i : k \in 1 .. 3 * N
  BY <1>1, SMT
<1>3. s \in [1 .. 3 * i -> Int] /\ t \in [1 .. 3 * (i + 1) -> Int]
  BY <1>1, <1>2 DEF FirstOf
<1>4. /\ \A k \in 1 .. 3 * i : s[k] = Verses(a)[k]
      /\ \A k \in 1 .. 3 * (i + 1) : t[k] = Verses(a)[k]
  BY DEF FirstOf
<1>5. u \in Seq(Int) /\ Len(u) = 3 /\ u[1] = a - i /\ u[2] = a - i /\ u[3] = a - i - 1
  BY SMT
<1> HIDE DEF s, t, u, N
<1>6. /\ s \in Seq(Int) /\ Len(s) = 3 * i
      /\ t \in Seq(Int) /\ Len(t) = 3 * i + 3
  <2>1. s \in Seq(Int) /\ t \in Seq(Int) /\ DOMAIN s = 1 .. 3 * i /\ DOMAIN t = 1 .. 3 * (i + 1)
    BY <1>2, <1>3, SeqDef
  <2>2. Len(s) = 3 * i /\ Len(t) = 3 * (i + 1)
    BY <1>2, <2>1, LenProperties, SMT
  <2> QED
    BY <1>2, <2>1, <2>2
<1>7. \A k \in 1 .. Len(s) : t[k] = s[k]
  <2> TAKE k \in 1 .. Len(s)
  <2>1. k \in 1 .. 3 * i /\ k \in 1 .. 3 * (i + 1)
    BY <1>2, <1>6, SMT
  <2> QED
    BY <1>4, <2>1
<1>8. \A k \in 1 .. Len(u) : t[Len(s) + k] = u[k]
  <2> TAKE k \in 1 .. Len(u)
  <2>1. k \in {1, 2, 3} /\ 3 * i + k \in 1 .. 3 * (i + 1)
    BY <1>2, <1>5, SMT
  <2>2. t[3 * i + k] = Verses(a)[3 * i + k]
    BY <1>4, <2>1
  <2>3. Verses(a)[3 * i + k] = u[k]
    BY <1>1, <1>5, <2>1
  <2> QED
    BY <1>6, <2>2, <2>3
<1>9. Len(t) = Len(s) + Len(u)
  BY <1>5, <1>6
<1>10. s \o u = t
  BY <1>5, <1>6, <1>7, <1>8, <1>9, Joined
<1> QED
  BY <1>10 DEF s, t, u

LEMMA BottlesSings ==
  ASSUME NEW a, Control3, Singing(a), Bottles \/ Verse \/ BottlesReturns
  PROVE  Singing(a)'
<1>1. before' = before /\ regs \in Registers3
  BY DEF Control3, Types3, Bottles, Verse, BottlesReturns
<1>2. before.pc = bottles /\ before.regs.a0 = a /\ a \in Int
  BY DEF Singing
<1>3. AtLeast0(a) \in Nat /\ FirstOf(Verses(a), 0) = << >>
      /\ Verses(a) = FirstOf(Verses(a), 3 * AtLeast0(a))
  BY <1>2, VersesOf
<1>4. CASE Bottles
  <2>1. pc = bottles /\ pc' = LOOP_BOTTLES /\ console' = console
        /\ regs' = [regs EXCEPT !.t0 = regs.a0]
    BY <1>4 DEF Bottles
  <2>2. regs'.t0 = regs.a0
    BY <1>1, <2>1 DEF Registers3
  <2>3. regs.a0 = a /\ console = << >>
    BY <2>1 DEF Singing
  <2>4. 0 \in 0 .. AtLeast0(a) /\ a = a - 0 /\ 3 * 0 = 0
    BY <1>2, <1>3, SMT
  <2>5. HasSung(a)'
    BY <1>3, <2>1, <2>2, <2>3, <2>4, Zenon DEF HasSung
  <2> QED
    BY <1>1, <1>2, <2>1, <2>5, Labels3 DEF Singing
<1>5. CASE Verse
  <2>1. /\ pc = LOOP_BOTTLES /\ 0 < regs.t0 /\ pc' = pc
        /\ console' = console \o <<regs.t0, regs.t0, regs.t0 - 1>>
        /\ regs' = [regs EXCEPT !.t0 = regs.t0 - 1]
    BY <1>5 DEF Verse
  <2>2. regs'.t0 = regs.t0 - 1
    BY <1>1, <2>1 DEF Registers3
  <2>3. PICK i \in 0 .. AtLeast0(a) : regs.t0 = a - i /\ console = FirstOf(Verses(a), 3 * i)
    BY <2>1 DEF Singing, HasSung
  <2>4. i \in Nat /\ i < AtLeast0(a) /\ i + 1 \in 0 .. AtLeast0(a) /\ a - i - 1 = a - (i + 1)
    BY <1>2, <1>3, <2>1, <2>3, SMT DEF AtLeast0
  <2>5. console' = FirstOf(Verses(a), 3 * (i + 1))
    BY <1>2, <2>1, <2>3, <2>4, NextVerse
  <2>6. HasSung(a)'
    BY <2>2, <2>3, <2>4, <2>5 DEF HasSung
  <2> QED
    BY <1>1, <1>2, <2>1, <2>6, Labels3 DEF Singing
<1>6. CASE BottlesReturns
  <2>1. /\ pc = LOOP_BOTTLES /\ ~ 0 < regs.t0 /\ console' = console /\ pc' = regs'.ra
        /\ regs' = [regs EXCEPT !.ra = AtSP(8)]
    BY <1>6 DEF BottlesReturns, JrRa
  <2>2. pc' = Caller(3)
    <3>1. regs'.ra = AtSP(8)
      BY <1>1, <2>1 DEF Registers3
    <3> QED
      BY <2>1, <3>1, Offsets, Places3, SMT DEF FrameOf
  <2>3. PICK i \in 0 .. AtLeast0(a) : regs.t0 = a - i /\ console = FirstOf(Verses(a), 3 * i)
    BY <2>1 DEF Singing, HasSung
  <2>4. i = AtLeast0(a)
    BY <1>2, <1>3, <2>1, <2>3, SMT DEF AtLeast0
  <2>5. console' = Verses(a)
    BY <1>3, <2>1, <2>3, <2>4
  <2> QED
    BY <1>1, <1>2, <2>2, <2>5, Labels3 DEF Singing
<1> QED
  BY <1>4, <1>5, <1>6

-----------------------------------------------------------------------------
(* longestSorted *)

\* The first item is a run.
LEMMA FirstRun ==
  ASSUME NEW m
  PROVE  LongestEndingAt(m, 0, 1) /\ IsRun(m, 0, 1) /\ LongestUpTo(m, 0, 1)
<1>1. Sorted(m, 0, 0)
  BY SMT DEF Sorted
<1>2. LongestEndingAt(m, 0, 1)
  BY <1>1, SMT DEF LongestEndingAt
<1>3. IsRun(m, 0, 1)
  BY <1>1, SMT DEF IsRun
<1>4. 1 \in 1 .. 0 + 1 /\ \A e \in 0 .. 0 : \A i \in 0 .. e : Sorted(m, i, e) => e + 1 - i <= 1
  BY SMT
<1> QED
  BY <1>2, <1>3, <1>4 DEF LongestUpTo

\* The run goes on.
LEMMA LongerRun ==
  ASSUME NEW n \in Nat, NEW m \in [0 .. n - 1 -> Int], NEW k \in 0 .. n - 2,
         m[k] <= m[k + 1], NEW c, LongestEndingAt(m, k, c)
  PROVE  LongestEndingAt(m, k + 1, c + 1)
<1>1. /\ c \in 1 .. k + 1 /\ Sorted(m, k + 1 - c, k)
      /\ \A i \in 0 .. k : Sorted(m, i, k) => k + 1 - i <= c
  BY DEF LongestEndingAt
<1>2. k + 1 + 1 - (c + 1) = k + 1 - c /\ c + 1 \in 1 .. k + 1 + 1 /\ k + 1 \in Int
  BY <1>1, SMT
<1>3. Sorted(m, k + 1 - c, k + 1)
  <2>1. ASSUME NEW j \in k + 1 - c .. (k + 1) - 1 PROVE m[j] <= m[j + 1]
    <3>1. CASE j = k
      BY <3>1
    <3>2. CASE j # k
      <4>1. j \in k + 1 - c .. k - 1
        BY <1>1, <3>2, SMT
      <4> QED
        BY <1>1, <4>1 DEF Sorted
    <3> QED
      BY <3>1, <3>2
  <2> QED
    BY <2>1 DEF Sorted
<1>4. ASSUME NEW i \in 0 .. k + 1, Sorted(m, i, k + 1)
      PROVE  k + 1 + 1 - i <= c + 1
  <2>1. CASE i = k + 1
    BY <1>1, <2>1, SMT
  <2>2. CASE i # k + 1
    <3>1. i \in 0 .. k /\ \A j \in i .. k - 1 : j \in i .. (k + 1) - 1
      BY <2>2, SMT
    <3>2. Sorted(m, i, k)
      BY <1>4, <3>1 DEF Sorted
    <3>3. k + 1 - i <= c
      BY <1>1, <3>1, <3>2
    <3> QED
      BY <1>1, <3>3, SMT
  <2> QED
    BY <2>1, <2>2
<1> QED
  BY <1>2, <1>3, <1>4 DEF LongestEndingAt

\* The run ends, and another begins.
LEMMA NewRun ==
  ASSUME NEW n \in Nat, NEW m \in [0 .. n - 1 -> Int], NEW k \in 0 .. n - 2,
         m[k + 1] < m[k]
  PROVE  LongestEndingAt(m, k + 1, 1)
<1>1. 1 \in 1 .. k + 1 + 1 /\ k + 1 + 1 - 1 = k + 1
  BY SMT
<1>2. Sorted(m, k + 1, k + 1)
  BY SMT DEF Sorted
<1>3. ASSUME NEW i \in 0 .. k + 1, Sorted(m, i, k + 1)
      PROVE  k + 1 + 1 - i <= 1
  <2>1. CASE i = k + 1
    BY <2>1, SMT
  <2>2. CASE i # k + 1
    <3>1. k \in i .. (k + 1) - 1
      BY <2>2, SMT
    <3>2. m[k] <= m[k + 1] /\ m[k] \in Int /\ m[k + 1] \in Int
      BY <1>3, <3>1, SMT DEF Sorted
    <3> QED
      BY <3>2, SMT
  <2> QED
    BY <2>1, <2>2
<1> QED
  BY <1>1, <1>2, <1>3 DEF LongestEndingAt

\* The longest run is one of those before, or the one that ends here.
LEMMA LongestOfBoth ==
  ASSUME NEW k \in Nat, NEW m, NEW b, NEW c, NEW f, LongestUpTo(m, k, b),
         LongestEndingAt(m, k + 1, c), f = IF b < c THEN c ELSE b
  PROVE  LongestUpTo(m, k + 1, f)
<1>1. /\ b \in 1 .. k + 1 /\ IsRun(m, k, b)
      /\ \A e \in 0 .. k : \A i \in 0 .. e : Sorted(m, i, e) => e + 1 - i <= b
  BY DEF LongestUpTo
<1>2. /\ c \in 1 .. k + 1 + 1 /\ Sorted(m, k + 1 + 1 - c, k + 1)
      /\ \A i \in 0 .. k + 1 : Sorted(m, i, k + 1) => k + 1 + 1 - i <= c
  BY DEF LongestEndingAt
<1>3. f \in 1 .. k + 1 + 1 /\ b <= f /\ c <= f
  BY <1>1, <1>2, SMT
<1>4. IsRun(m, k + 1, f)
  <2>1. CASE b < c
    <3>1. /\ k + 1 + 1 - c \in 0 .. k + 1 /\ (k + 1 + 1 - c) + c <= k + 1 + 1
          /\ (k + 1 + 1 - c) + c - 1 = k + 1
      BY <1>2, SMT
    <3>2. Sorted(m, k + 1 + 1 - c, (k + 1 + 1 - c) + c - 1)
      BY <1>2, <3>1
    <3> QED
      BY <2>1, <3>1, <3>2 DEF IsRun
  <2>2. CASE ~ b < c
    <3>1. PICK i \in 0 .. k : i + b <= k + 1 /\ Sorted(m, i, i + b - 1)
      BY <1>1 DEF IsRun
    <3>2. i \in 0 .. k + 1 /\ i + b <= k + 1 + 1
      BY <1>1, <3>1, SMT
    <3> QED
      BY <2>2, <3>1, <3>2 DEF IsRun
  <2> QED
    BY <2>1, <2>2
<1>5. ASSUME NEW e \in 0 .. k + 1, NEW i \in 0 .. e, Sorted(m, i, e)
      PROVE  e + 1 - i <= f
  <2>1. CASE e = k + 1
    <3>1. k + 1 + 1 - i <= c
      BY <1>2, <1>5, <2>1
    <3>2. c \in Int /\ f \in Int /\ c <= f
      BY <1>2, <1>3, SMT
    <3>3. PICK l \in Int : l = k + 1 + 1 - i /\ l = e + 1 - i
      BY <2>1, SMT
    <3>4. l <= c
      BY <3>1, <3>3
    <3>5. l <= f
      BY <3>2, <3>4, SMT
    <3> QED
      BY <3>3, <3>5
  <2>2. CASE e # k + 1
    <3>1. e \in 0 .. k
      BY <2>2, SMT
    <3>2. e + 1 - i <= b
      BY <1>1, <1>5, <3>1
    <3> QED
      BY <1>1, <1>3, <3>2, SMT
  <2> QED
    BY <2>1, <2>2
<1> QED
  BY <1>3, <1>4, <1>5 DEF LongestUpTo

LEMMA LongestCompares ==
  ASSUME NEW n, Control3, Comparing(n),
         LongestOfNothing \/ LongestSorted \/ NextItem \/ LongestReturns
  PROVE  Comparing(n)'
<1>1. before' = before /\ memory' = memory /\ regs \in Registers3
  BY DEF Control3, Types3, LongestOfNothing, LongestSorted, NextItem, LongestReturns
<1>2. /\ before.pc = longestSorted /\ before.regs.a1 = n
      /\ memory = before.memory /\ n \in Nat /\ memory \in [0 .. n - 1 -> Int]
  BY DEF Comparing
<1>3. ASSUME pc = longestSorted
      PROVE  regs.a0 = 0 /\ regs.a1 = n /\ regs.ra = Caller(3)
  BY <1>3, Places3, Labels3 DEF Comparing, Functions3
<1>4. ASSUME pc = LOOP_LONGEST_SORTED
      PROVE  /\ n # 0 /\ regs.a0 = 0 /\ regs.a1 = n /\ regs.t0 \in 0 .. n - 1
             /\ LongestEndingAt(memory, regs.t0, regs.t2)
             /\ LongestUpTo(memory, regs.t0, FinalCount)
             /\ regs.s0 \in Int /\ regs.t2 \in Int /\ regs.t0 \in Int
  BY <1>1, <1>4, Fields3 DEF Comparing
<1>5. CASE LongestOfNothing
  <2>1. /\ pc = longestSorted /\ regs.a1 = 0 /\ pc' = regs'.ra
        /\ regs' = [regs EXCEPT !.v0 = 0]
    BY <1>5 DEF LongestOfNothing, JrRa
  <2>2. regs'.v0 = 0 /\ regs'.ra = regs.ra
    BY <1>1, <2>1 DEF Registers3
  <2>3. n = 0 /\ pc' = Caller(3)
    BY <1>3, <2>1, <2>2
  <2> QED
    BY <1>1, <1>2, <2>2, <2>3, Labels3 DEF Comparing
<1>6. CASE LongestSorted
  <2>1. /\ pc = longestSorted /\ regs.a1 # 0 /\ pc' = LOOP_LONGEST_SORTED
        /\ regs' = [regs EXCEPT !.s0 = 1, !.t2 = 1, !.t0 = 0]
    BY <1>6 DEF LongestSorted
  <2>2. /\ regs'.s0 = 1 /\ regs'.t2 = 1 /\ regs'.t0 = 0
        /\ regs'.a0 = regs.a0 /\ regs'.a1 = regs.a1
    BY <1>1, <2>1 DEF Registers3
  <2>3. FinalCount' = 1
    BY <2>2 DEF FinalCount
  <2>4. n # 0 /\ regs.a0 = 0 /\ regs.a1 = n /\ 0 \in 0 .. n - 1
    BY <1>2, <1>3, <2>1, SMT
  <2>5. LongestEndingAt(memory', regs'.t0, regs'.t2) /\ LongestUpTo(memory', regs'.t0, FinalCount')
    BY <2>2, <2>3, FirstRun
  <2> QED
    BY <1>1, <1>2, <2>1, <2>2, <2>4, <2>5, Labels3 DEF Comparing
<1>7. CASE NextItem
  <2> DEFINE k == regs.t0
             c == regs.t2
             b == FinalCount
             f == FinalCount'
  <2>1. /\ pc = LOOP_LONGEST_SORTED /\ pc' = pc /\ regs.t0 < regs.a1 - 1
        /\ regs' = IF memory[regs.a0 + regs.t0 + 1] < memory[regs.a0 + regs.t0]
                   THEN [regs EXCEPT !.s0 = FinalCount, !.t2 = 1, !.t0 = regs.t0 + 1]
                   ELSE [regs EXCEPT !.t2 = regs.t2 + 1, !.t0 = regs.t0 + 1]
    BY <1>7 DEF NextItem
  <2>2. /\ n # 0 /\ regs.a0 = 0 /\ regs.a1 = n /\ k \in 0 .. n - 1
        /\ LongestEndingAt(memory, k, c) /\ LongestUpTo(memory, k, b)
        /\ regs.s0 \in Int /\ c \in Int /\ k \in Int
    BY <1>4, <2>1
  <2>3. k \in 0 .. n - 2 /\ k \in Nat /\ k + 1 \in 0 .. n - 1 /\ regs.a0 + regs.t0 = k
    BY <1>2, <2>1, <2>2, SMT
  <2>4. memory[k] \in Int /\ memory[k + 1] \in Int
    BY <1>2, <2>2, <2>3
  <2>5. CASE memory[k + 1] < memory[k]
    <3>1. regs' = [regs EXCEPT !.s0 = FinalCount, !.t2 = 1, !.t0 = regs.t0 + 1]
      BY <2>1, <2>3, <2>5
    <3>2. /\ regs'.s0 = b /\ regs'.t2 = 1 /\ regs'.t0 = k + 1
          /\ regs'.a0 = regs.a0 /\ regs'.a1 = regs.a1
      BY <1>1, <3>1 DEF Registers3
    <3>3. f = IF b < 1 THEN 1 ELSE b
      BY <3>2 DEF FinalCount
    <3> HIDE DEF k, c, b, f
    <3>4. LongestEndingAt(memory, k + 1, 1)
      BY <1>2, <2>3, <2>5, NewRun
    <3>5. LongestUpTo(memory, k + 1, f)
      BY <2>2, <2>3, <3>3, <3>4, LongestOfBoth
    <3>6. LongestEndingAt(memory', regs'.t0, regs'.t2) /\ LongestUpTo(memory', regs'.t0, FinalCount')
      BY <1>1, <3>2, <3>4, <3>5 DEF f
    <3>7. /\ regs'.a0 = 0 /\ regs'.a1 = n /\ regs'.t0 \in 0 .. n - 1
          /\ n # 0 /\ pc' = LOOP_LONGEST_SORTED
      BY <2>1, <2>2, <2>3, <3>2
    <3> QED
      BY <1>1, <1>2, <3>6, <3>7, Labels3 DEF Comparing
  <2>6. CASE ~ memory[k + 1] < memory[k]
    <3>1. regs' = [regs EXCEPT !.t2 = regs.t2 + 1, !.t0 = regs.t0 + 1]
      BY <2>1, <2>3, <2>6
    <3>2. /\ regs'.s0 = regs.s0 /\ regs'.t2 = c + 1 /\ regs'.t0 = k + 1
          /\ regs'.a0 = regs.a0 /\ regs'.a1 = regs.a1
      BY <1>1, <3>1 DEF Registers3
    <3>3. f = IF b < c + 1 THEN c + 1 ELSE b
      <4>1. f = IF regs.s0 < c + 1 THEN c + 1 ELSE regs.s0
        BY <3>2 DEF FinalCount
      <4> QED
        BY <2>2, <4>1, SMT DEF FinalCount
    <3>4. memory[k] <= memory[k + 1]
      BY <2>4, <2>6, SMT
    <3> HIDE DEF k, c, b, f
    <3>5. LongestEndingAt(memory, k + 1, c + 1)
      BY <1>2, <2>2, <2>3, <3>4, LongerRun
    <3>6. LongestUpTo(memory, k + 1, f)
      BY <2>2, <2>3, <3>3, <3>5, LongestOfBoth
    <3>7. LongestEndingAt(memory', regs'.t0, regs'.t2) /\ LongestUpTo(memory', regs'.t0, FinalCount')
      BY <1>1, <3>2, <3>5, <3>6 DEF f
    <3>8. /\ regs'.a0 = 0 /\ regs'.a1 = n /\ regs'.t0 \in 0 .. n - 1
          /\ n # 0 /\ pc' = LOOP_LONGEST_SORTED
      BY <2>1, <2>2, <2>3, <3>2
    <3> QED
      BY <1>1, <1>2, <3>7, <3>8, Labels3 DEF Comparing
  <2> QED
    BY <2>5, <2>6
<1>8. CASE LongestReturns
  <2>1. /\ pc = LOOP_LONGEST_SORTED /\ regs.t0 >= regs.a1 - 1 /\ pc' = regs'.ra
        /\ regs' = [regs EXCEPT !.v0 = FinalCount, !.a1 = AtSP(0), !.a0 = AtSP(4),
                                !.s0 = AtSP(8), !.ra = AtSP(12)]
    BY <1>8 DEF LongestReturns, JrRa, AtLeastLastRun
  <2>2. regs'.v0 = FinalCount /\ regs'.ra = AtSP(12)
    BY <1>1, <2>1 DEF Registers3
  <2>3. pc' = Caller(3)
    BY <2>1, <2>2, Offsets, Places3, SMT DEF FrameWithS0, FrameOf
  <2>4. regs.t0 = n - 1
    BY <1>2, <1>4, <2>1, SMT
  <2>5. n # 0 /\ LongestUpTo(memory, n - 1, FinalCount)
    BY <1>4, <2>1, <2>4
  <2>6. LongestUpTo(memory', n - 1, regs'.v0)
    BY <1>1, <2>2, <2>5
  <2> QED
    BY <1>1, <1>2, <2>3, <2>5, <2>6, Labels3 DEF Comparing
<1> QED
  BY <1>5, <1>6, <1>7, <1>8

-----------------------------------------------------------------------------
(* rotateShort *)

\* The functions of the test return their first argument.
LEMMA TrashedResult ==
  ASSUME regs \in Registers3, regs' = Trashed
  PROVE  regs'.v0 = regs.a0
<1>1. PICK u : u = Junk
  OBVIOUS
<1> DEFINE arguments == [regs EXCEPT !.a0 = u, !.a1 = u, !.a2 = u, !.a3 = u]
           others == [arguments EXCEPT !.t0 = u, !.t2 = u, !.t9 = u]
<1>2. regs' = [others EXCEPT !.v0 = regs.a0]
  BY <1>1 DEF Trashed
<1>3. "v0" \in DOMAIN others
  BY DEF Registers3
<1> HIDE DEF others
<1> QED
  BY <1>2, <1>3

\* Before the first rotation.
LEMMA NothingRotated ==
  ASSUME NEW arguments \in Seq(Int), NEW n \in {3, 6}, Len(arguments) = n
  PROVE  Rotations(arguments, 0) = << >> /\ SumOfFirsts(arguments, 0) = 0
<1>1. Rotations(arguments, 0) \in Seq(Int) /\ Len(Rotations(arguments, 0)) = n * 0
  BY RotationsPrinted
<1>2. n * 0 = 0 /\ ~ 0 \in Nat \ {0}
  BY SMT
<1>3. Rotations(arguments, 0) = << >>
  BY <1>1, <1>2, EmptySeq
<1>4. Len(arguments) # 0
  BY SMT
<1> QED
  BY <1>3, <1>4, NextSum

LEMMA ThreeArguments ==
  /\ Three \in Seq(Int) /\ Len(Three) = 3
  /\ Rotated(Three, 0, 0) = 1 /\ Rotated(Three, 0, 1) = 2 /\ Rotated(Three, 0, 2) = 3
  /\ \A i \in Nat : /\ \A j \in 0 .. 2 : Rotated(Three, i, j) \in Int
                    /\ Rotated(Three, i + 1, 0) = Rotated(Three, i, 1)
                    /\ Rotated(Three, i + 1, 1) = Rotated(Three, i, 2)
                    /\ Rotated(Three, i + 1, 2) = Rotated(Three, i, 0)
<1>1. Three \in Seq(Int) /\ Len(Three) = 3 /\ Three[1] = 1 /\ Three[2] = 2 /\ Three[3] = 3
  BY SMT DEF Three
<1>2. Rotated(Three, 0, 0) = 1 /\ Rotated(Three, 0, 1) = 2 /\ Rotated(Three, 0, 2) = 3
  BY <1>1, SMT DEF Rotated
<1>3. ASSUME NEW i \in Nat
      PROVE  /\ \A j \in 0 .. 2 : Rotated(Three, i, j) \in Int
             /\ Rotated(Three, i + 1, 0) = Rotated(Three, i, 1)
             /\ Rotated(Three, i + 1, 1) = Rotated(Three, i, 2)
             /\ Rotated(Three, i + 1, 2) = Rotated(Three, i, 0)
  <2>1. \A j \in 0 .. 2 : ((i + j) % 3) + 1 \in 1 .. 3
    BY SMT
  <2>2. \A k \in 1 .. 3 : Three[k] \in Int
    BY <1>1, ElementOfSeq
  <2>3. \A j \in 0 .. 2 : Rotated(Three, i, j) \in Int
    BY <1>1, <2>1, <2>2 DEF Rotated
  <2>4. i + 1 + 0 = i + 1 /\ i + 1 + 1 = i + 2 /\ (i + 1 + 2) % 3 = (i + 0) % 3
    BY SMT
  <2> QED
    BY <1>1, <2>3, <2>4 DEF Rotated
<1> QED
  BY <1>1, <1>2, <1>3

LEMMA RotateShortStarts ==
  ASSUME NEW a, Control3, RotatingShort(a), RotateShort
  PROVE  RotatingShort(a)'
<1> DEFINE frame == <<Junk, regs.a0, regs.a1, regs.a2, regs.a3, regs.s0, regs.ra>>
<1>1. /\ pc = rotateShort /\ stack' = Pushed(frame) /\ before' = before /\ console' = console
      /\ regs' = [regs EXCEPT !.s0 = 0, !.t0 = 0] /\ pc' = LOOP_ROTATE_SHORT
  BY DEF RotateShort
<1>2. regs \in Registers3 /\ stack = << >>
  BY <1>1, Labels3, Places3 DEF Functions3, Control3, Types3
<1>3. /\ regs.a0 \in Int /\ regs.a1 \in Int /\ regs.a2 \in Int /\ regs.a3 \in Int
      /\ regs.s0 \in Int /\ regs.ra \in Int
  BY <1>2, Fields3
<1>4. frame \in Seq(Int)
  BY <1>3, SMT DEF Junk
<1>5. /\ frame[2] = regs.a0 /\ frame[3] = regs.a1 /\ frame[4] = regs.a2 /\ frame[5] = regs.a3
  OBVIOUS
<1>6. stack' = frame
  BY <1>1, <1>2, <1>4, FirstFrame
<1> HIDE DEF frame
<1>7. /\ before.pc = rotateShort /\ before.regs.a0 = a /\ a \in Int
      /\ regs.a0 = a /\ regs.a1 = 1 /\ regs.a2 = 2 /\ regs.a3 = 3 /\ console = << >>
  BY <1>1 DEF RotatingShort
<1>8. regs'.s0 = 0 /\ regs'.t0 = 0
  BY <1>1, <1>2 DEF Registers3
<1>9. stack'[2] = a /\ stack'[3] = 1 /\ stack'[4] = 2 /\ stack'[5] = 3
  BY <1>5, <1>6, <1>7
<1>10. \A j \in 0 .. 2 : stack'[j + 3] = Rotated(Three, 0, j)
  <2>1. ASSUME NEW j \in 0 .. 2 PROVE stack'[j + 3] = Rotated(Three, 0, j)
    <3>1. (j = 0 /\ j + 3 = 3) \/ (j = 1 /\ j + 3 = 4) \/ (j = 2 /\ j + 3 = 5)
      BY SMT
    <3> QED
      BY <1>9, <3>1, ThreeArguments, Zenon
  <2> QED
    BY <2>1
<1>11. console' = Rotations(Three, 0) /\ regs'.s0 = SumOfFirsts(Three, 0)
  BY <1>1, <1>7, <1>8, NothingRotated, ThreeArguments
<1>12. 0 \in 0 .. AtLeast0(a)
  BY <1>7, SMT DEF AtLeast0
<1>13. HasRotatedThree(a)'
  BY <1>8, <1>10, <1>11, <1>12 DEF HasRotatedThree, ThreeRotated, HasRotated
<1> QED
  BY <1>1, <1>7, <1>9, <1>13, Labels3 DEF RotatingShort

LEMMA CallPassesThree ==
  ASSUME NEW a, Control3, RotatingShort(a), CallUtilShort
  PROVE  RotatingShort(a)'
<1>1. /\ pc = LOOP_ROTATE_SHORT /\ regs.t0 < AtSP(4) /\ stack' = Stored(0, regs.t0)
      /\ pc' = utilShort /\ before' = before /\ console' = console
      /\ regs' = [[regs EXCEPT !.a0 = AtSP(8), !.a1 = AtSP(12), !.a2 = AtSP(16)]
                    EXCEPT !.ra = AfterUtilShort]
  BY DEF CallUtilShort, Jal
<1>2. regs \in Registers3 /\ stack \in Seq(Int) /\ Len(stack) = 7
  BY <1>1, Places3, SMT DEF Control3, Types3, FrameWithS0, FrameOf
<1>3. before.pc = rotateShort /\ before.regs.a0 = a /\ a \in Int /\ stack[2] = a
  BY <1>1 DEF RotatingShort
<1>4. PICK i \in 0 .. AtLeast0(a) : regs.t0 = i /\ ThreeRotated(i) /\ HasRotated(Three, i, i)
  BY <1>1 DEF RotatingShort, HasRotatedThree
<1>5. i \in 0 .. AtLeast0(a) - 1
  BY <1>1, <1>3, <1>4, Offsets, SMT DEF AtLeast0
<1>6. stack' = [stack EXCEPT ![1] = i]
  BY <1>1, <1>4, Offsets
<1>7. \A k \in 1 .. 7 : stack'[k] = IF k = 1 THEN i ELSE stack[k]
  BY <1>2, <1>6, LenProperties
<1>8. /\ regs'.a0 = AtSP(8) /\ regs'.a1 = AtSP(12) /\ regs'.a2 = AtSP(16)
      /\ regs'.s0 = regs.s0
  BY <1>1, <1>2 DEF Registers3
<1>9. /\ stack[0 + 3] = Rotated(Three, i, 0) /\ stack[1 + 3] = Rotated(Three, i, 1)
      /\ stack[2 + 3] = Rotated(Three, i, 2)
  BY <1>4, SMT DEF ThreeRotated
<1>10. /\ regs'.a0 = Rotated(Three, i, 0) /\ regs'.a1 = Rotated(Three, i, 1)
       /\ regs'.a2 = Rotated(Three, i, 2)
  BY <1>8, <1>9, Offsets, SMT
<1>11. stack'[1] = i /\ stack'[2] = a
  BY <1>3, <1>7
<1>12. ThreeRotated(i)'
  <2>1. ASSUME NEW j \in 0 .. 2 PROVE stack'[j + 3] = Rotated(Three, i, j)
    <3>1. j + 3 \in 1 .. 7 /\ j + 3 # 1
      BY SMT
    <3> QED
      BY <1>4, <1>7, <3>1 DEF ThreeRotated
  <2> QED
    BY <2>1 DEF ThreeRotated
<1>13. HasRotated(Three, i, i)'
  BY <1>1, <1>4, <1>8 DEF HasRotated
<1>14. PassesThree(a)'
  BY <1>5, <1>10, <1>11, <1>12, <1>13 DEF PassesThree
<1> QED
  BY <1>1, <1>3, <1>11, <1>14, Labels3 DEF RotatingShort

LEMMA UtilShortReturnsFirst ==
  ASSUME NEW a, Control3, RotatingShort(a), UtilShort
  PROVE  RotatingShort(a)'
<1> DEFINE words == <<regs.a0, regs.a1, regs.a2>>
<1>1. /\ pc = utilShort /\ console' = console \o words /\ regs' = Trashed
      /\ stack' = stack /\ before' = before /\ pc' = regs'.ra
  BY DEF UtilShort, JrRa
<1>2. regs \in Registers3 /\ regs.ra = AfterUtilShort
  BY <1>1, Places3 DEF Control3, Types3
<1>3. regs'.ra = regs.ra /\ regs'.s0 = regs.s0 /\ pc' = AfterUtilShort
  BY <1>1, <1>2, TrashedRegisters
<1>4. regs'.v0 = regs.a0
  BY <1>1, <1>2, TrashedResult
<1>5. before.pc = rotateShort /\ before.regs.a0 = a /\ a \in Int /\ stack[2] = a
  BY <1>1 DEF RotatingShort
<1>6. PICK i \in 0 .. AtLeast0(a) - 1 :
        /\ stack[1] = i /\ ThreeRotated(i) /\ HasRotated(Three, i, i)
        /\ regs.a0 = Rotated(Three, i, 0) /\ regs.a1 = Rotated(Three, i, 1)
        /\ regs.a2 = Rotated(Three, i, 2)
  BY <1>1, Labels3 DEF RotatingShort, PassesThree
<1>7. /\ words \in Seq(Int) /\ Len(words) = 3
      /\ \A j \in 0 .. 2 : words[j + 1] = Rotated(Three, i, j)
  <2>1. regs.a0 \in Int /\ regs.a1 \in Int /\ regs.a2 \in Int
    BY <1>2, Fields3
  <2>2. \A j \in 0 .. 2 : (j = 0 /\ j + 1 = 1) \/ (j = 1 /\ j + 1 = 2) \/ (j = 2 /\ j + 1 = 3)
    BY SMT
  <2>3. /\ words \in Seq(Int) /\ Len(words) = 3
        /\ words[1] = regs.a0 /\ words[2] = regs.a1 /\ words[3] = regs.a2
    BY <2>1, SMT
  <2> HIDE DEF words
  <2> QED
    BY <1>6, <2>2, <2>3, Zenon
<1> HIDE DEF words
<1>8. i \in Nat /\ 3 \in {3, 6} /\ 3 - 1 = 2
  BY <1>5, SMT DEF AtLeast0
<1>9. Rotations(Three, i) \o words = Rotations(Three, i + 1)
  BY <1>7, <1>8, ThreeArguments, NextRotation
<1>10. console' = Rotations(Three, i + 1) /\ regs'.s0 = SumOfFirsts(Three, i)
  BY <1>1, <1>3, <1>6, <1>9 DEF HasRotated
<1>11. HasPassedThree(a)'
  BY <1>1, <1>4, <1>6, <1>10 DEF HasPassedThree, ThreeRotated, HasRotated
<1> QED
  BY <1>1, <1>3, <1>5, <1>11, Labels3 DEF RotatingShort

LEMMA ThreeAreRotated ==
  ASSUME NEW a, Control3, RotatingShort(a), RotateThree
  PROVE  RotatingShort(a)'
<1>1. /\ pc = AfterUtilShort /\ pc' = LOOP_ROTATE_SHORT /\ before' = before /\ console' = console
      /\ stack' = [stack EXCEPT ![3] = AtSP(12), ![4] = AtSP(16), ![5] = AtSP(8)]
      /\ regs' = [regs EXCEPT !.s0 = regs.s0 + regs.v0, !.t0 = AtSP(0) + 1, !.t2 = AtSP(16)]
  BY DEF RotateThree
<1>2. /\ regs \in Registers3 /\ stack \in Seq(Int) /\ Len(stack) = 7
  BY <1>1, Places3, SMT DEF Control3, Types3, FrameWithS0, FrameOf
<1>3. before.pc = rotateShort /\ before.regs.a0 = a /\ a \in Int /\ stack[2] = a
  BY <1>1 DEF RotatingShort
<1>4. PICK i \in 0 .. AtLeast0(a) - 1 :
        /\ stack[1] = i /\ ThreeRotated(i) /\ HasRotated(Three, i, i + 1)
        /\ regs.v0 = Rotated(Three, i, 0)
  BY <1>1, Labels3 DEF RotatingShort, HasPassedThree
<1>5. i \in Nat /\ i + 1 \in 0 .. AtLeast0(a)
  BY <1>3, SMT DEF AtLeast0
<1>6. regs'.s0 = regs.s0 + regs.v0 /\ regs'.t0 = AtSP(0) + 1
  BY <1>1, <1>2 DEF Registers3
<1>7. regs'.t0 = i + 1 /\ regs'.s0 = SumOfFirsts(Three, i + 1)
  <2>1. SumOfFirsts(Three, i + 1) = SumOfFirsts(Three, i) + Rotated(Three, i, 0)
    <3>1. Three \in Seq(Int) /\ Len(Three) # 0
      BY ThreeArguments, SMT
    <3> QED
      BY <1>5, <3>1, NextSum
  <2> QED
    BY <1>4, <1>6, <2>1, Offsets DEF HasRotated
<1>8. /\ stack[3] = Rotated(Three, i, 0) /\ stack[4] = Rotated(Three, i, 1)
      /\ stack[5] = Rotated(Three, i, 2)
  <2>1. /\ stack[0 + 3] = Rotated(Three, i, 0) /\ stack[1 + 3] = Rotated(Three, i, 1)
        /\ stack[2 + 3] = Rotated(Three, i, 2)
    BY <1>4, SMT DEF ThreeRotated
  <2> QED
    BY <2>1, SMT
<1>9. stack \in [1 .. 7 -> Int] /\ AtSP(12) = stack[4] /\ AtSP(16) = stack[5] /\ AtSP(8) = stack[3]
  BY <1>2, LenProperties, Offsets
<1>10. stack'[2] = a /\ stack'[3] = stack[4] /\ stack'[4] = stack[5] /\ stack'[5] = stack[3]
  BY <1>1, <1>3, <1>9
<1>11. \A j \in 0 .. 2 : stack'[j + 3] = Rotated(Three, i + 1, j)
  <2>1. \A j \in 0 .. 2 : (j = 0 /\ j + 3 = 3) \/ (j = 1 /\ j + 3 = 4) \/ (j = 2 /\ j + 3 = 5)
    BY SMT
  <2>2. /\ stack'[3] = Rotated(Three, i + 1, 0) /\ stack'[4] = Rotated(Three, i + 1, 1)
        /\ stack'[5] = Rotated(Three, i + 1, 2)
    BY <1>5, <1>8, <1>10, ThreeArguments
  <2> QED
    BY <2>1, <2>2, Zenon
<1>12. HasRotatedThree(a)'
  <2>1. console' = Rotations(Three, i + 1)
    BY <1>1, <1>4 DEF HasRotated
  <2> QED
    BY <1>5, <1>7, <1>11, <2>1 DEF HasRotatedThree, ThreeRotated, HasRotated
<1> QED
  BY <1>1, <1>3, <1>10, <1>12, Labels3 DEF RotatingShort

LEMMA RotateShortEnds ==
  ASSUME NEW a, Control3, RotatingShort(a), RotateShortReturns
  PROVE  RotatingShort(a)'
<1>1. /\ pc = LOOP_ROTATE_SHORT /\ ~ regs.t0 < AtSP(4) /\ pc' = regs'.ra
      /\ before' = before /\ console' = console
      /\ regs' = [regs EXCEPT !.v0 = regs.s0, !.a0 = AtSP(4), !.s0 = AtSP(20), !.ra = AtSP(24)]
  BY DEF RotateShortReturns, JrRa
<1>2. regs \in Registers3 /\ stack[7] = Caller(3)
  BY <1>1, Places3, SMT DEF Control3, Types3, FrameWithS0, FrameOf
<1>3. regs'.v0 = regs.s0 /\ regs'.ra = AtSP(24)
  BY <1>1, <1>2 DEF Registers3
<1>4. pc' = Caller(3)
  BY <1>1, <1>2, <1>3, Offsets
<1>5. before.pc = rotateShort /\ before.regs.a0 = a /\ a \in Int /\ stack[2] = a
  BY <1>1 DEF RotatingShort
<1>6. PICK i \in 0 .. AtLeast0(a) : regs.t0 = i /\ ThreeRotated(i) /\ HasRotated(Three, i, i)
  BY <1>1 DEF RotatingShort, HasRotatedThree
<1>7. i = AtLeast0(a)
  BY <1>1, <1>5, <1>6, Offsets, SMT DEF AtLeast0
<1>8. ReturnsRotated(a, Three)'
  BY <1>1, <1>3, <1>6, <1>7 DEF ReturnsRotated, HasRotated
<1>9. before' = before
  BY <1>1
<1> QED
  BY <1>4, <1>5, <1>8, <1>9, Labels3 DEF RotatingShort

-----------------------------------------------------------------------------
(* rotateLong *)

LEMMA SixArguments ==
  /\ Six \in Seq(Int) /\ Len(Six) = 6
  /\ Rotated(Six, 0, 0) = 1 /\ Rotated(Six, 0, 1) = 2 /\ Rotated(Six, 0, 2) = 3
  /\ Rotated(Six, 0, 3) = 4 /\ Rotated(Six, 0, 4) = 5 /\ Rotated(Six, 0, 5) = 6
  /\ \A i \in Nat : /\ \A j \in 0 .. 5 : Rotated(Six, i, j) \in Int
                    /\ \A j \in 0 .. 4 : Rotated(Six, i + 1, j) = Rotated(Six, i, j + 1)
                    /\ Rotated(Six, i + 1, 5) = Rotated(Six, i, 0)
<1>1. /\ Six \in Seq(Int) /\ Len(Six) = 6 /\ Six[1] = 1 /\ Six[2] = 2 /\ Six[3] = 3
      /\ Six[4] = 4 /\ Six[5] = 5 /\ Six[6] = 6
  BY SMT DEF Six
<1>2. /\ Rotated(Six, 0, 0) = 1 /\ Rotated(Six, 0, 1) = 2 /\ Rotated(Six, 0, 2) = 3
      /\ Rotated(Six, 0, 3) = 4 /\ Rotated(Six, 0, 4) = 5 /\ Rotated(Six, 0, 5) = 6
  BY <1>1, SMT DEF Rotated
<1>3. ASSUME NEW i \in Nat
      PROVE  /\ \A j \in 0 .. 5 : Rotated(Six, i, j) \in Int
             /\ \A j \in 0 .. 4 : Rotated(Six, i + 1, j) = Rotated(Six, i, j + 1)
             /\ Rotated(Six, i + 1, 5) = Rotated(Six, i, 0)
  <2>1. \A j \in 0 .. 5 : ((i + j) % 6) + 1 \in 1 .. 6
    BY SMT
  <2>2. \A k \in 1 .. 6 : Six[k] \in Int
    BY <1>1, ElementOfSeq
  <2>3. \A j \in 0 .. 5 : Rotated(Six, i, j) \in Int
    BY <1>1, <2>1, <2>2 DEF Rotated
  <2>4. (\A j \in 0 .. 4 : i + 1 + j = i + (j + 1)) /\ (i + 1 + 5) % 6 = (i + 0) % 6
    BY SMT
  <2> QED
    BY <1>1, <2>3, <2>4 DEF Rotated
<1> QED
  BY <1>1, <1>2, <1>3

\* The words of the frame with the six arguments.
LEMMA SixWords ==
  ASSUME NEW s, NEW i \in Nat
  PROVE  (\A j \in 0 .. 5 : s[j + 2] = Rotated(Six, i, j))
           <=> /\ s[2] = Rotated(Six, i, 0) /\ s[3] = Rotated(Six, i, 1)
               /\ s[4] = Rotated(Six, i, 2) /\ s[5] = Rotated(Six, i, 3)
               /\ s[6] = Rotated(Six, i, 4) /\ s[7] = Rotated(Six, i, 5)
<1>1. \A j \in 0 .. 5 : \/ (j = 0 /\ j + 2 = 2) \/ (j = 1 /\ j + 2 = 3) \/ (j = 2 /\ j + 2 = 4)
                        \/ (j = 3 /\ j + 2 = 5) \/ (j = 4 /\ j + 2 = 6) \/ (j = 5 /\ j + 2 = 7)
  BY SMT
<1>2. /\ 0 \in 0 .. 5 /\ 1 \in 0 .. 5 /\ 2 \in 0 .. 5 /\ 3 \in 0 .. 5 /\ 4 \in 0 .. 5 /\ 5 \in 0 .. 5
      /\ 0 + 2 = 2 /\ 1 + 2 = 3 /\ 2 + 2 = 4 /\ 3 + 2 = 5 /\ 4 + 2 = 6 /\ 5 + 2 = 7
  BY SMT
<1>3. ASSUME \A j \in 0 .. 5 : s[j + 2] = Rotated(Six, i, j)
      PROVE  /\ s[2] = Rotated(Six, i, 0) /\ s[3] = Rotated(Six, i, 1)
             /\ s[4] = Rotated(Six, i, 2) /\ s[5] = Rotated(Six, i, 3)
             /\ s[6] = Rotated(Six, i, 4) /\ s[7] = Rotated(Six, i, 5)
  BY <1>2, <1>3, SMT
<1>4. ASSUME /\ s[2] = Rotated(Six, i, 0) /\ s[3] = Rotated(Six, i, 1)
             /\ s[4] = Rotated(Six, i, 2) /\ s[5] = Rotated(Six, i, 3)
             /\ s[6] = Rotated(Six, i, 4) /\ s[7] = Rotated(Six, i, 5)
      PROVE  \A j \in 0 .. 5 : s[j + 2] = Rotated(Six, i, j)
  BY <1>1, <1>4, Zenon
<1> QED
  BY <1>3, <1>4

LEMMA RotateLongStarts ==
  ASSUME NEW a, Control3, RotatingLong(a), RotateLong
  PROVE  RotatingLong(a)'
<1> DEFINE frame == <<regs.a0, regs.a1, regs.a2, regs.a3, below[3], below[2], below[1],
                      below[3], regs.s0, regs.ra>>
<1>1. /\ pc = rotateLong /\ stack' = Pushed(frame) /\ before' = before /\ console' = console
      /\ regs' = [regs EXCEPT !.s0 = 0, !.t9 = 0] /\ pc' = LOOP_ROTATE_LONG
  BY DEF RotateLong
<1>2. /\ regs \in Registers3 /\ stack = << >>
      /\ below[1] \in Int /\ below[2] \in Int /\ below[3] \in Int
  BY <1>1, Labels3, Places3 DEF Functions3, Control3, Types3
<1>3. /\ regs.a0 \in Int /\ regs.a1 \in Int /\ regs.a2 \in Int /\ regs.a3 \in Int
      /\ regs.s0 \in Int /\ regs.ra \in Int
  BY <1>2, Fields3
<1>4. frame \in Seq(Int)
  BY <1>2, <1>3, SMT
<1>5. /\ frame[1] = regs.a0 /\ frame[2] = regs.a1 /\ frame[3] = regs.a2 /\ frame[4] = regs.a3
      /\ frame[5] = below[3] /\ frame[6] = below[2] /\ frame[7] = below[1]
  OBVIOUS
<1>6. stack' = frame
  BY <1>1, <1>2, <1>4, FirstFrame
<1> HIDE DEF frame
<1>7. /\ before.pc = rotateLong /\ before.regs.a0 = a /\ a \in Int
      /\ regs.a0 = a /\ regs.a1 = 1 /\ regs.a2 = 2 /\ regs.a3 = 3 /\ console = << >>
      /\ below[3] = 4 /\ below[2] = 5 /\ below[1] = 6
  BY <1>1 DEF RotatingLong
<1>8. regs'.s0 = 0 /\ regs'.t9 = 0
  BY <1>1, <1>2 DEF Registers3
<1>9. /\ stack'[1] = a
      /\ stack'[2] = Rotated(Six, 0, 0) /\ stack'[3] = Rotated(Six, 0, 1)
      /\ stack'[4] = Rotated(Six, 0, 2) /\ stack'[5] = Rotated(Six, 0, 3)
      /\ stack'[6] = Rotated(Six, 0, 4) /\ stack'[7] = Rotated(Six, 0, 5)
  BY <1>5, <1>6, <1>7, SixArguments
<1>10. \A j \in 0 .. 5 : stack'[j + 2] = Rotated(Six, 0, j)
  BY <1>9, SixWords
<1>11. console' = Rotations(Six, 0) /\ regs'.s0 = SumOfFirsts(Six, 0)
  BY <1>1, <1>7, <1>8, NothingRotated, SixArguments
<1>12. 0 \in 0 .. AtLeast0(a)
  BY <1>7, SMT DEF AtLeast0
<1>13. HasRotatedSix(a)'
  BY <1>8, <1>10, <1>11, <1>12 DEF HasRotatedSix, SixRotated, HasRotated
<1> QED
  BY <1>1, <1>7, <1>9, <1>13, Labels3 DEF RotatingLong

LEMMA CallPassesSix ==
  ASSUME NEW a, Control3, RotatingLong(a), CallUtilLong
  PROVE  RotatingLong(a)'
<1>1. /\ pc = LOOP_ROTATE_LONG /\ regs.t9 < AtSP(0) /\ stack' = Stored(28, regs.t9)
      /\ pc' = utilLong /\ before' = before /\ console' = console
      /\ below' = <<AtSP(24), AtSP(20), Junk>>
      /\ regs' = [[regs EXCEPT !.a0 = AtSP(4), !.a1 = AtSP(8), !.a2 = AtSP(12), !.a3 = AtSP(16)]
                    EXCEPT !.ra = AfterUtilLong]
  BY DEF CallUtilLong, Jal
<1>2. regs \in Registers3 /\ stack \in Seq(Int) /\ Len(stack) = 10
  BY <1>1, Places3, SMT DEF Control3, Types3, FrameWithS0, FrameOf
<1>3. before.pc = rotateLong /\ before.regs.a0 = a /\ a \in Int /\ stack[1] = a
  BY <1>1 DEF RotatingLong
<1>4. PICK i \in 0 .. AtLeast0(a) : regs.t9 = i /\ SixRotated(i) /\ HasRotated(Six, i, i)
  BY <1>1 DEF RotatingLong, HasRotatedSix
<1>5. i \in 0 .. AtLeast0(a) - 1 /\ i \in Nat
  BY <1>1, <1>3, <1>4, Offsets, SMT DEF AtLeast0
<1>6. stack' = [stack EXCEPT ![8] = i]
  BY <1>1, <1>4, Offsets
<1>7. \A k \in 1 .. 10 : stack'[k] = IF k = 8 THEN i ELSE stack[k]
  BY <1>2, <1>6, LenProperties
<1>8. /\ regs'.a0 = AtSP(4) /\ regs'.a1 = AtSP(8) /\ regs'.a2 = AtSP(12) /\ regs'.a3 = AtSP(16)
      /\ regs'.s0 = regs.s0 /\ below'[2] = AtSP(20) /\ below'[1] = AtSP(24)
  BY <1>1, <1>2 DEF Registers3
<1>9. /\ stack[2] = Rotated(Six, i, 0) /\ stack[3] = Rotated(Six, i, 1)
      /\ stack[4] = Rotated(Six, i, 2) /\ stack[5] = Rotated(Six, i, 3)
      /\ stack[6] = Rotated(Six, i, 4) /\ stack[7] = Rotated(Six, i, 5)
  BY <1>4, <1>5, SixWords DEF SixRotated
<1>10. /\ regs'.a0 = Rotated(Six, i, 0) /\ regs'.a1 = Rotated(Six, i, 1)
       /\ regs'.a2 = Rotated(Six, i, 2) /\ regs'.a3 = Rotated(Six, i, 3)
       /\ below'[2] = Rotated(Six, i, 4) /\ below'[1] = Rotated(Six, i, 5)
  BY <1>8, <1>9, Offsets
<1>11. stack'[8] = i /\ stack'[1] = a
  BY <1>3, <1>7
<1>12. SixRotated(i)'
  <2>1. ASSUME NEW j \in 0 .. 5 PROVE stack'[j + 2] = Rotated(Six, i, j)
    <3>1. j + 2 \in 1 .. 10 /\ j + 2 # 8
      BY SMT
    <3> QED
      BY <1>4, <1>7, <3>1 DEF SixRotated
  <2> QED
    BY <2>1 DEF SixRotated
<1>13. HasRotated(Six, i, i)'
  BY <1>1, <1>4, <1>8 DEF HasRotated
<1>14. PassesSix(a)'
  BY <1>5, <1>10, <1>11, <1>12, <1>13 DEF PassesSix
<1>15. pc' = utilLong /\ before' = before
  BY <1>1
<1> QED
  BY <1>3, <1>11, <1>14, <1>15, Labels3 DEF RotatingLong

LEMMA UtilLongReturnsFirst ==
  ASSUME NEW a, Control3, RotatingLong(a), UtilLong
  PROVE  RotatingLong(a)'
<1> DEFINE words == <<regs.a0, regs.a1, regs.a2, regs.a3, below[2], below[1]>>
<1>1. /\ pc = utilLong /\ console' = console \o words /\ regs' = Trashed
      /\ stack' = stack /\ before' = before /\ pc' = regs'.ra
  BY DEF UtilLong, JrRa
<1>2. /\ regs \in Registers3 /\ regs.ra = AfterUtilLong
      /\ below[1] \in Int /\ below[2] \in Int
  BY <1>1, Places3 DEF Control3, Types3
<1>3. regs'.ra = regs.ra /\ regs'.s0 = regs.s0 /\ pc' = AfterUtilLong
  BY <1>1, <1>2, TrashedRegisters
<1>4. regs'.v0 = regs.a0
  BY <1>1, <1>2, TrashedResult
<1>5. before.pc = rotateLong /\ before.regs.a0 = a /\ a \in Int /\ stack[1] = a
  BY <1>1 DEF RotatingLong
<1>6. PICK i \in 0 .. AtLeast0(a) - 1 :
        /\ stack[8] = i /\ SixRotated(i) /\ HasRotated(Six, i, i)
        /\ regs.a0 = Rotated(Six, i, 0) /\ regs.a1 = Rotated(Six, i, 1)
        /\ regs.a2 = Rotated(Six, i, 2) /\ regs.a3 = Rotated(Six, i, 3)
        /\ below[2] = Rotated(Six, i, 4) /\ below[1] = Rotated(Six, i, 5)
  BY <1>1, Labels3 DEF RotatingLong, PassesSix
<1>7. /\ words \in Seq(Int) /\ Len(words) = 6
      /\ \A j \in 0 .. 5 : words[j + 1] = Rotated(Six, i, j)
  <2>1. regs.a0 \in Int /\ regs.a1 \in Int /\ regs.a2 \in Int /\ regs.a3 \in Int
    BY <1>2, Fields3
  <2>2. \A j \in 0 .. 5 : \/ (j = 0 /\ j + 1 = 1) \/ (j = 1 /\ j + 1 = 2) \/ (j = 2 /\ j + 1 = 3)
                          \/ (j = 3 /\ j + 1 = 4) \/ (j = 4 /\ j + 1 = 5) \/ (j = 5 /\ j + 1 = 6)
    BY SMT
  <2>3. /\ words \in Seq(Int) /\ Len(words) = 6
        /\ words[1] = regs.a0 /\ words[2] = regs.a1 /\ words[3] = regs.a2
        /\ words[4] = regs.a3 /\ words[5] = below[2] /\ words[6] = below[1]
    BY <1>2, <2>1, SMT
  <2> HIDE DEF words
  <2> QED
    BY <1>6, <2>2, <2>3, Zenon
<1> HIDE DEF words
<1>8. i \in Nat /\ 6 \in {3, 6} /\ 6 - 1 = 5
  BY <1>5, SMT DEF AtLeast0
<1>9. Rotations(Six, i) \o words = Rotations(Six, i + 1)
  BY <1>7, <1>8, SixArguments, NextRotation
<1>10. console' = Rotations(Six, i + 1) /\ regs'.s0 = SumOfFirsts(Six, i)
  BY <1>1, <1>3, <1>6, <1>9 DEF HasRotated
<1>11. HasPassedSix(a)'
  BY <1>1, <1>4, <1>6, <1>10 DEF HasPassedSix, SixRotated, HasRotated
<1>12. stack' = stack /\ before' = before
  BY <1>1
<1> QED
  BY <1>3, <1>5, <1>11, <1>12, Labels3 DEF RotatingLong

LEMMA SixAreRotated ==
  ASSUME NEW a, Control3, RotatingLong(a), RotateSix
  PROVE  RotatingLong(a)'
<1>1. /\ pc = AfterUtilLong /\ pc' = LOOP_ROTATE_LONG /\ before' = before /\ console' = console
      /\ stack' = [k \in DOMAIN stack |-> IF k \in 2 .. 6 THEN stack[k + 1]
                                          ELSE IF k = 7 THEN stack[2] ELSE stack[k]]
      /\ regs' = [regs EXCEPT !.s0 = regs.s0 + regs.v0, !.t9 = AtSP(28) + 1]
  BY DEF RotateSix
<1>2. regs \in Registers3 /\ stack \in Seq(Int) /\ Len(stack) = 10
  BY <1>1, Places3, SMT DEF Control3, Types3, FrameWithS0, FrameOf
<1>3. before.pc = rotateLong /\ before.regs.a0 = a /\ a \in Int /\ stack[1] = a
  BY <1>1 DEF RotatingLong
<1>4. PICK i \in 0 .. AtLeast0(a) - 1 :
        /\ stack[8] = i /\ SixRotated(i) /\ HasRotated(Six, i, i + 1)
        /\ regs.v0 = Rotated(Six, i, 0)
  BY <1>1, Labels3 DEF RotatingLong, HasPassedSix
<1>5. i \in Nat /\ i + 1 \in Nat /\ i + 1 \in 0 .. AtLeast0(a)
  BY <1>3, SMT DEF AtLeast0
<1>6. regs'.s0 = regs.s0 + regs.v0 /\ regs'.t9 = AtSP(28) + 1
  BY <1>1, <1>2 DEF Registers3
<1>7. regs'.t9 = i + 1 /\ regs'.s0 = SumOfFirsts(Six, i + 1)
  <2>1. Six \in Seq(Int) /\ Len(Six) # 0
    BY SixArguments, SMT
  <2>2. SumOfFirsts(Six, i + 1) = SumOfFirsts(Six, i) + Rotated(Six, i, 0)
    BY <1>5, <2>1, NextSum
  <2> QED
    BY <1>4, <1>6, <2>2, Offsets DEF HasRotated
<1>8. /\ stack[2] = Rotated(Six, i, 0) /\ stack[3] = Rotated(Six, i, 1)
      /\ stack[4] = Rotated(Six, i, 2) /\ stack[5] = Rotated(Six, i, 3)
      /\ stack[6] = Rotated(Six, i, 4) /\ stack[7] = Rotated(Six, i, 5)
  BY <1>4, <1>5, SixWords DEF SixRotated
<1>9. DOMAIN stack = 1 .. 10
  BY <1>2, LenProperties
<1>10. /\ stack'[1] = a /\ stack'[2] = stack[3] /\ stack'[3] = stack[4] /\ stack'[4] = stack[5]
       /\ stack'[5] = stack[6] /\ stack'[6] = stack[7] /\ stack'[7] = stack[2]
  BY <1>1, <1>3, <1>9, SMT
<1>11. /\ Rotated(Six, i + 1, 0) = Rotated(Six, i, 1) /\ Rotated(Six, i + 1, 1) = Rotated(Six, i, 2)
       /\ Rotated(Six, i + 1, 2) = Rotated(Six, i, 3) /\ Rotated(Six, i + 1, 3) = Rotated(Six, i, 4)
       /\ Rotated(Six, i + 1, 4) = Rotated(Six, i, 5) /\ Rotated(Six, i + 1, 5) = Rotated(Six, i, 0)
  <2>1. /\ \A j \in 0 .. 4 : Rotated(Six, i + 1, j) = Rotated(Six, i, j + 1)
        /\ Rotated(Six, i + 1, 5) = Rotated(Six, i, 0)
    BY <1>5, SixArguments
  <2> QED
    BY <2>1, SMT
<1>12. \A j \in 0 .. 5 : stack'[j + 2] = Rotated(Six, i + 1, j)
  BY <1>5, <1>8, <1>10, <1>11, SixWords
<1>13. HasRotatedSix(a)'
  <2>1. console' = Rotations(Six, i + 1)
    BY <1>1, <1>4 DEF HasRotated
  <2> QED
    BY <1>5, <1>7, <1>12, <2>1 DEF HasRotatedSix, SixRotated, HasRotated
<1>14. pc' = LOOP_ROTATE_LONG /\ before' = before
  BY <1>1
<1> QED
  BY <1>3, <1>10, <1>13, <1>14, Labels3 DEF RotatingLong

LEMMA RotateLongEnds ==
  ASSUME NEW a, Control3, RotatingLong(a), RotateLongReturns
  PROVE  RotatingLong(a)'
<1>1. /\ pc = LOOP_ROTATE_LONG /\ ~ regs.t9 < AtSP(0) /\ pc' = regs'.ra
      /\ before' = before /\ console' = console
      /\ regs' = [regs EXCEPT !.v0 = regs.s0, !.a0 = AtSP(0), !.s0 = AtSP(32), !.ra = AtSP(36)]
  BY DEF RotateLongReturns, JrRa
<1>2. regs \in Registers3 /\ stack[10] = Caller(3)
  BY <1>1, Places3, SMT DEF Control3, Types3, FrameWithS0, FrameOf
<1>3. regs'.v0 = regs.s0 /\ regs'.ra = AtSP(36)
  BY <1>1, <1>2 DEF Registers3
<1>4. pc' = Caller(3)
  BY <1>1, <1>2, <1>3, Offsets
<1>5. before.pc = rotateLong /\ before.regs.a0 = a /\ a \in Int /\ stack[1] = a
  BY <1>1 DEF RotatingLong
<1>6. PICK i \in 0 .. AtLeast0(a) : regs.t9 = i /\ SixRotated(i) /\ HasRotated(Six, i, i)
  BY <1>1 DEF RotatingLong, HasRotatedSix
<1>7. i = AtLeast0(a)
  BY <1>1, <1>5, <1>6, Offsets, SMT DEF AtLeast0
<1>8. ReturnsRotated(a, Six)'
  BY <1>1, <1>3, <1>6, <1>7 DEF ReturnsRotated, HasRotated
<1>9. before' = before
  BY <1>1
<1> QED
  BY <1>4, <1>5, <1>8, <1>9, Labels3 DEF RotatingLong

-----------------------------------------------------------------------------
(* The initial states, and every step. *)

LEMMA CalledWith3 ==
  ASSUME NEW f, NEW a0, NEW a1, NEW a2, NEW a3, NEW data, Called(f, Registers(a0, a1, a2, a3), data)
  PROVE  /\ pc = f /\ before.pc = f /\ memory = data /\ before.memory = data /\ console = << >>
         /\ regs.a0 = a0 /\ regs.a1 = a1 /\ regs.a2 = a2 /\ regs.a3 = a3
         /\ before.regs.a0 = a0 /\ before.regs.a1 = a1
BY DEF Called, Registers

LEMMA LengthOfArray ==
  ASSUME NEW values, NEW s \in ArraysOf(values)
  PROVE  Cardinality(DOMAIN s) \in Nat /\ s \in [0 .. Cardinality(DOMAIN s) - 1 -> values]
<1>1. PICK n \in 0 .. Length : s \in [0 .. n - 1 -> values]
  BY DEF ArraysOf
<1>2. n \in Nat /\ 0 \in Int /\ n - 1 \in Int
  BY LengthAssumption, SMT
<1>3. Cardinality(0 .. n - 1) = IF 0 > n - 1 THEN 0 ELSE (n - 1) - 0 + 1
  BY <1>2, FS_Interval
<1>4. Cardinality(DOMAIN s) = n
  BY <1>1, <1>2, <1>3
<1> QED
  BY <1>1, <1>2, <1>4

LEMMA InitialResults3 ==
  ASSUME InitAsm3
  PROVE  Results3
<1>1. ASSUME NEW s \in Strings, Called(strlen, With(0, Junk), Terminated(s))
      PROVE  \E n : Measuring(n)
  <2> DEFINE n == Cardinality(DOMAIN s)
             m == Terminated(s)
  <2>1. n \in Nat /\ s \in [0 .. n - 1 -> ItemValues \ {0}]
    BY LengthOfArray DEF Strings
  <2>2. m = [i \in 0 .. n |-> IF i = n THEN 0 ELSE s[i]]
    BY DEF Terminated
  <2>3. /\ pc = strlen /\ before.pc = strlen /\ memory = m /\ before.memory = m /\ regs.a0 = 0
    BY <1>1, CalledWith3 DEF With
  <2> HIDE DEF n, m
  <2>4. n \in 0 .. n /\ \A i \in 0 .. n - 1 : i \in 0 .. n /\ i # n
    BY <2>1, SMT
  <2>5. IsString(m, n)
    BY <2>1, <2>2, <2>4 DEF IsString
  <2>6. Measuring(n)
    BY <2>3, <2>5, Labels3 DEF Measuring
  <2> QED
    BY <2>6
<1>2. ASSUME NEW a \in Numbers, NEW b \in Numbers, Called(gcf, With(a, b), NoData)
      PROVE  Dividing(a, b)
  <2>1. /\ pc = gcf /\ before.pc = gcf /\ regs.a0 = a /\ regs.a1 = b
        /\ before.regs.a0 = a /\ before.regs.a1 = b
    BY <1>2, CalledWith3 DEF With
  <2>2. a \in Nat \ {0} /\ b \in Nat \ {0}
    BY NumbersAssumption
  <2>3. SameFactors(regs.a0, regs.a1, a, b)
    BY <2>1 DEF SameFactors
  <2> QED
    BY <2>1, <2>2, <2>3, Labels3 DEF Dividing
<1>3. ASSUME NEW n \in Counts, Called(bottles, With(n, Junk), NoData)
      PROVE  Singing(n)
  <2>1. /\ pc = bottles /\ before.pc = bottles /\ regs.a0 = n /\ before.regs.a0 = n
        /\ console = << >>
    BY <1>3, CalledWith3 DEF With
  <2>2. n \in Int
    BY CountsAssumption
  <2> QED
    BY <2>1, <2>2, Labels3 DEF Singing
<1>4. ASSUME NEW s \in ArraysOf(ItemValues),
             Called(longestSorted, With(0, Cardinality(DOMAIN s)), s)
      PROVE  \E n : Comparing(n)
  <2> DEFINE n == Cardinality(DOMAIN s)
  <2>1. /\ pc = longestSorted /\ before.pc = longestSorted /\ memory = s /\ before.memory = s
        /\ regs.a0 = 0 /\ regs.a1 = n /\ before.regs.a1 = n
    BY <1>4, CalledWith3 DEF With
  <2>2. n \in Nat /\ s \in [0 .. n - 1 -> ItemValues]
    BY LengthOfArray
  <2> HIDE DEF n
  <2>3. s \in [0 .. n - 1 -> Int]
    BY <2>2, ItemValuesAssumption
  <2>4. Comparing(n)
    BY <2>1, <2>2, <2>3, Labels3 DEF Comparing
  <2> QED
    BY <2>4
<1>5. ASSUME NEW n \in Counts, NEW f \in {rotateShort, rotateLong},
             Called(f, Registers(n, 1, 2, 3), NoData), below = <<6, 5, 4>>
      PROVE  RotatingShort(n) \/ RotatingLong(n)
  <2>1. /\ pc = f /\ before.pc = f /\ console = << >>
        /\ regs.a0 = n /\ regs.a1 = 1 /\ regs.a2 = 2 /\ regs.a3 = 3 /\ before.regs.a0 = n
    BY <1>5, CalledWith3
  <2>2. n \in Int
    BY CountsAssumption
  <2>3. CASE f = rotateShort
    BY <2>1, <2>2, <2>3, Labels3 DEF RotatingShort
  <2>4. CASE f = rotateLong
    BY <1>5, <2>1, <2>2, <2>4, Labels3 DEF RotatingLong
  <2> QED
    BY <2>3, <2>4
<1>6. /\ below = <<6, 5, 4>>
      /\ \/ \E s \in Strings : Called(strlen, With(0, Junk), Terminated(s))
         \/ \E a, b \in Numbers : Called(gcf, With(a, b), NoData)
         \/ \E n \in Counts : Called(bottles, With(n, Junk), NoData)
         \/ \E s \in ArraysOf(ItemValues) :
              Called(longestSorted, With(0, Cardinality(DOMAIN s)), s)
         \/ \E n \in Counts, f \in {rotateShort, rotateLong} :
              Called(f, Registers(n, 1, 2, 3), NoData)
  BY DEF InitAsm3
<1> QED
  BY <1>1, <1>2, <1>3, <1>4, <1>5, <1>6, Zenon DEF Results3

\* The code of each function is at places of its own.
LEMMA CodeOfFunction3 ==
  /\ Strlen \/ StrlenCounts \/ StrlenReturns => pc \in {strlen, LOOP_STRLEN}
  /\ GcfKnown \/ GcfRecurses \/ GcfReturns => pc \in {gcf, EXIT_GCF}
  /\ Bottles \/ Verse \/ BottlesReturns => pc \in {bottles, LOOP_BOTTLES}
  /\ LongestOfNothing \/ LongestSorted \/ NextItem \/ LongestReturns
       => pc \in {longestSorted, LOOP_LONGEST_SORTED}
  /\ UtilShort \/ RotateShort \/ CallUtilShort \/ RotateThree \/ RotateShortReturns
       => pc \in {rotateShort, LOOP_ROTATE_SHORT, utilShort, AfterUtilShort}
  /\ UtilLong \/ RotateLong \/ CallUtilLong \/ RotateSix \/ RotateLongReturns
       => pc \in {rotateLong, LOOP_ROTATE_LONG, utilLong, AfterUtilLong}
<1>1. Strlen \/ StrlenCounts \/ StrlenReturns => pc \in {strlen, LOOP_STRLEN}
  BY Zenon DEF Strlen, StrlenCounts, StrlenReturns
<1>2. GcfKnown \/ GcfRecurses \/ GcfReturns => pc \in {gcf, EXIT_GCF}
  BY Zenon DEF GcfKnown, GcfRecurses, GcfReturns
<1>3. Bottles \/ Verse \/ BottlesReturns => pc \in {bottles, LOOP_BOTTLES}
  BY Zenon DEF Bottles, Verse, BottlesReturns
<1>4. LongestOfNothing \/ LongestSorted \/ NextItem \/ LongestReturns
        => pc \in {longestSorted, LOOP_LONGEST_SORTED}
  BY Zenon DEF LongestOfNothing, LongestSorted, NextItem, LongestReturns
<1>5. UtilShort \/ RotateShort \/ CallUtilShort \/ RotateThree \/ RotateShortReturns
        => pc \in {rotateShort, LOOP_ROTATE_SHORT, utilShort, AfterUtilShort}
  BY Zenon DEF UtilShort, RotateShort, CallUtilShort, RotateThree, RotateShortReturns
<1>6. UtilLong \/ RotateLong \/ CallUtilLong \/ RotateSix \/ RotateLongReturns
        => pc \in {rotateLong, LOOP_ROTATE_LONG, utilLong, AfterUtilLong}
  BY Zenon DEF UtilLong, RotateLong, CallUtilLong, RotateSix, RotateLongReturns
<1> QED
  BY <1>1, <1>2, <1>3, <1>4, <1>5, <1>6

\* A step of no code changes nothing that is computed.
LEMMA ResultsStay3 ==
  ASSUME UNCHANGED <<call, below>>, Results3
  PROVE  Results3'
<1>1. /\ pc' = pc /\ regs' = regs /\ stack' = stack /\ before' = before /\ below' = below
      /\ memory' = memory /\ console' = console
  BY DEF call, machine
<1>2. ASSUME NEW n, Measuring(n) PROVE Measuring(n)'
  BY <1>1, <1>2 DEF Measuring, strlen, LOOP_STRLEN, Caller
<1>3. ASSUME NEW n, Singing(n) PROVE Singing(n)'
  <2>1. HasSung(n)' = HasSung(n)
    BY <1>1 DEF HasSung, Verses
  <2> QED
    BY <1>1, <1>3, <2>1 DEF Singing, bottles, LOOP_BOTTLES, Caller, Verses
<1>4. ASSUME NEW n, Comparing(n) PROVE Comparing(n)'
  <2>1. FinalCount' = FinalCount
    BY <1>1 DEF FinalCount
  <2> QED
    BY <1>1, <1>4, <2>1 DEF Comparing, longestSorted, LOOP_LONGEST_SORTED, Caller
<1>5. ASSUME NEW n, RotatingShort(n) PROVE RotatingShort(n)'
  <2>1. /\ HasRotatedThree(n)' = HasRotatedThree(n) /\ PassesThree(n)' = PassesThree(n)
        /\ HasPassedThree(n)' = HasPassedThree(n)
        /\ ReturnsRotated(n, Three)' = ReturnsRotated(n, Three)
    BY <1>1 DEF HasRotatedThree, PassesThree, HasPassedThree, ThreeRotated, HasRotated,
       ReturnsRotated, Three
  <2> QED
    BY <1>1, <1>5, <2>1
       DEF RotatingShort, rotateShort, LOOP_ROTATE_SHORT, utilShort, AfterUtilShort, Caller
<1>6. ASSUME NEW n, RotatingLong(n) PROVE RotatingLong(n)'
  <2>1. /\ HasRotatedSix(n)' = HasRotatedSix(n) /\ PassesSix(n)' = PassesSix(n)
        /\ HasPassedSix(n)' = HasPassedSix(n)
        /\ ReturnsRotated(n, Six)' = ReturnsRotated(n, Six)
    BY <1>1 DEF HasRotatedSix, PassesSix, HasPassedSix, SixRotated, HasRotated,
       ReturnsRotated, Six
  <2> QED
    BY <1>1, <1>6, <2>1
       DEF RotatingLong, rotateLong, LOOP_ROTATE_LONG, utilLong, AfterUtilLong, Caller
<1>7. ASSUME NEW a, NEW b, Dividing(a, b) PROVE Dividing(a, b)'
  BY <1>1, <1>7 DEF Dividing, gcf, EXIT_GCF, Caller
<1> QED
  BY <1>2, <1>3, <1>4, <1>5, <1>6, <1>7, Zenon DEF Results3

\* The groups of the code that is run in each function.
LEMMA OnlyStrlen ==
  ASSUME NEW n, Measuring(n), CodeAsm3
  PROVE  Strlen \/ StrlenCounts \/ StrlenReturns
<1>1. pc \in {strlen, LOOP_STRLEN, Caller(3)}
  BY DEF Measuring
<1>2. /\ pc \notin {gcf, EXIT_GCF} /\ pc \notin {bottles, LOOP_BOTTLES}
      /\ pc \notin {longestSorted, LOOP_LONGEST_SORTED}
      /\ pc \notin {rotateShort, LOOP_ROTATE_SHORT, utilShort, AfterUtilShort}
      /\ pc \notin {rotateLong, LOOP_ROTATE_LONG, utilLong, AfterUtilLong}
  BY <1>1, Labels3, SMT
<1> QED
  BY <1>2, CodeOfFunction3, Zenon DEF CodeAsm3

LEMMA OnlyGcf ==
  ASSUME NEW a, NEW b, Dividing(a, b), CodeAsm3
  PROVE  GcfKnown \/ GcfRecurses \/ GcfReturns
<1>1. pc \in {gcf, EXIT_GCF, Caller(3)}
  BY DEF Dividing
<1>2. /\ pc \notin {strlen, LOOP_STRLEN} /\ pc \notin {bottles, LOOP_BOTTLES}
      /\ pc \notin {longestSorted, LOOP_LONGEST_SORTED}
      /\ pc \notin {rotateShort, LOOP_ROTATE_SHORT, utilShort, AfterUtilShort}
      /\ pc \notin {rotateLong, LOOP_ROTATE_LONG, utilLong, AfterUtilLong}
  BY <1>1, Labels3, SMT
<1> QED
  BY <1>2, CodeOfFunction3, Zenon DEF CodeAsm3

LEMMA OnlyBottles ==
  ASSUME NEW a, Singing(a), CodeAsm3
  PROVE  Bottles \/ Verse \/ BottlesReturns
<1>1. pc \in {bottles, LOOP_BOTTLES, Caller(3)}
  BY DEF Singing
<1>2. /\ pc \notin {strlen, LOOP_STRLEN} /\ pc \notin {gcf, EXIT_GCF}
      /\ pc \notin {longestSorted, LOOP_LONGEST_SORTED}
      /\ pc \notin {rotateShort, LOOP_ROTATE_SHORT, utilShort, AfterUtilShort}
      /\ pc \notin {rotateLong, LOOP_ROTATE_LONG, utilLong, AfterUtilLong}
  BY <1>1, Labels3, SMT
<1> QED
  BY <1>2, CodeOfFunction3, Zenon DEF CodeAsm3

LEMMA OnlyLongestSorted ==
  ASSUME NEW n, Comparing(n), CodeAsm3
  PROVE  LongestOfNothing \/ LongestSorted \/ NextItem \/ LongestReturns
<1>1. pc \in {longestSorted, LOOP_LONGEST_SORTED, Caller(3)}
  BY DEF Comparing
<1>2. /\ pc \notin {strlen, LOOP_STRLEN} /\ pc \notin {gcf, EXIT_GCF}
      /\ pc \notin {bottles, LOOP_BOTTLES}
      /\ pc \notin {rotateShort, LOOP_ROTATE_SHORT, utilShort, AfterUtilShort}
      /\ pc \notin {rotateLong, LOOP_ROTATE_LONG, utilLong, AfterUtilLong}
  BY <1>1, Labels3, SMT
<1> QED
  BY <1>2, CodeOfFunction3, Zenon DEF CodeAsm3

LEMMA OnlyRotateShort ==
  ASSUME NEW a, RotatingShort(a), CodeAsm3
  PROVE  UtilShort \/ RotateShort \/ CallUtilShort \/ RotateThree \/ RotateShortReturns
<1>1. pc \in {rotateShort, LOOP_ROTATE_SHORT, utilShort, AfterUtilShort, Caller(3)}
  BY DEF RotatingShort
<1>2. /\ pc \notin {strlen, LOOP_STRLEN} /\ pc \notin {gcf, EXIT_GCF}
      /\ pc \notin {bottles, LOOP_BOTTLES} /\ pc \notin {longestSorted, LOOP_LONGEST_SORTED}
      /\ pc \notin {rotateLong, LOOP_ROTATE_LONG, utilLong, AfterUtilLong}
  BY <1>1, Labels3, SMT
<1> QED
  BY <1>2, CodeOfFunction3, Zenon DEF CodeAsm3

LEMMA OnlyRotateLong ==
  ASSUME NEW a, RotatingLong(a), CodeAsm3
  PROVE  UtilLong \/ RotateLong \/ CallUtilLong \/ RotateSix \/ RotateLongReturns
<1>1. pc \in {rotateLong, LOOP_ROTATE_LONG, utilLong, AfterUtilLong, Caller(3)}
  BY DEF RotatingLong
<1>2. /\ pc \notin {strlen, LOOP_STRLEN} /\ pc \notin {gcf, EXIT_GCF}
      /\ pc \notin {bottles, LOOP_BOTTLES} /\ pc \notin {longestSorted, LOOP_LONGEST_SORTED}
      /\ pc \notin {rotateShort, LOOP_ROTATE_SHORT, utilShort, AfterUtilShort}
  BY <1>1, Labels3, SMT
<1> QED
  BY <1>2, CodeOfFunction3, Zenon DEF CodeAsm3

LEMMA ResultStep3 ==
  ASSUME ResultInv3, [CodeAsm3]_<<call, below>>
  PROVE  ResultInv3'
<1>1. Control3 /\ Control3' /\ Results3
  BY FramesStep DEF ResultInv3
<1>2. CASE UNCHANGED <<call, below>>
  BY <1>1, <1>2, ResultsStay3 DEF ResultInv3
<1>3. CASE CodeAsm3
  <2>1. ASSUME NEW n, Measuring(n) PROVE Measuring(n)'
    BY <1>1, <1>3, <2>1, OnlyStrlen, StrlenMeasures
  <2>2. ASSUME NEW a, NEW b, Dividing(a, b) PROVE Dividing(a, b)'
    BY <1>1, <1>3, <2>2, OnlyGcf, GcfDivides
  <2>3. ASSUME NEW a, Singing(a) PROVE Singing(a)'
    BY <1>1, <1>3, <2>3, OnlyBottles, BottlesSings
  <2>4. ASSUME NEW n, Comparing(n) PROVE Comparing(n)'
    BY <1>1, <1>3, <2>4, OnlyLongestSorted, LongestCompares
  <2>5. ASSUME NEW a, RotatingShort(a) PROVE RotatingShort(a)'
    BY <1>1, <1>3, <2>5, OnlyRotateShort, RotateShortStarts, CallPassesThree,
       UtilShortReturnsFirst, ThreeAreRotated, RotateShortEnds
  <2>6. ASSUME NEW a, RotatingLong(a) PROVE RotatingLong(a)'
    BY <1>1, <1>3, <2>6, OnlyRotateLong, RotateLongStarts, CallPassesSix,
       UtilLongReturnsFirst, SixAreRotated, RotateLongEnds
  <2>7. Results3'
    BY <1>1, <2>1, <2>2, <2>3, <2>4, <2>5, <2>6, Zenon DEF Results3
  <2> QED
    BY <1>1, <2>7 DEF ResultInv3
<1> QED
  BY <1>2, <1>3

-----------------------------------------------------------------------------
(* What the property says of the results. *)

LEMMA StringMeasured ==
  ASSUME NEW n, Measuring(n), pc = Caller(3)
  PROVE  before.pc = strlen /\ regs.v0 = Cardinality(DOMAIN before.memory) - 1
<1>1. before.pc = strlen /\ DOMAIN before.memory = 0 .. n /\ n \in Nat /\ regs.v0 = n
  BY DEF Measuring, IsString
<1>2. 0 \in Int /\ n \in Int
  BY <1>1
<1>3. Cardinality(0 .. n) = IF 0 > n THEN 0 ELSE n - 0 + 1
  BY <1>2, FS_Interval
<1> QED
  BY <1>1, <1>3

LEMMA GreatestFactorReturned ==
  ASSUME NEW a, NEW b, Dividing(a, b), pc = Caller(3)
  PROVE  /\ before.pc = gcf
         /\ IsDivisor(regs.v0, before.regs.a0) /\ IsDivisor(regs.v0, before.regs.a1)
         /\ \A d \in 1 .. before.regs.a0 :
              IsDivisor(d, before.regs.a0) /\ IsDivisor(d, before.regs.a1) => d <= regs.v0
<1>1. /\ before.pc = gcf /\ before.regs.a0 = a /\ before.regs.a1 = b /\ a \in Nat \ {0}
      /\ GreatestFactor(regs.v0, a, b)
  BY Labels3 DEF Dividing
<1>2. \A d \in 1 .. a : d \in Nat \ {0}
  BY <1>1, SMT
<1> QED
  BY <1>1, <1>2 DEF GreatestFactor, AreFactors

LEMMA LongestReturned ==
  ASSUME NEW n, Comparing(n), pc = Caller(3), n # 0,
         NEW runs, runs = {c \in 1 .. n : \E i \in 0 .. n - c : \A j \in i .. i + c - 2 :
                             before.memory[j] <= before.memory[j + 1]}
  PROVE  regs.v0 \in runs /\ \A c \in runs : c <= regs.v0
<1>1. n \in Nat /\ memory = before.memory /\ LongestUpTo(memory, n - 1, regs.v0)
  BY Labels3 DEF Comparing
<1> DEFINE v == regs.v0
           m == before.memory
<1>2. /\ v \in 1 .. (n - 1) + 1 /\ IsRun(m, n - 1, v)
      /\ \A e \in 0 .. n - 1 : \A i \in 0 .. e : Sorted(m, i, e) => e + 1 - i <= v
  BY <1>1 DEF LongestUpTo
<1> HIDE DEF v, m
<1>3. v \in 1 .. n
  BY <1>1, <1>2, SMT
<1>4. \E i \in 0 .. n - v : \A j \in i .. i + v - 2 : m[j] <= m[j + 1]
  <2>1. PICK i \in 0 .. n - 1 : i + v <= (n - 1) + 1 /\ Sorted(m, i, i + v - 1)
    BY <1>2 DEF IsRun
  <2>2. i \in 0 .. n - v /\ (i + v - 1) - 1 = i + v - 2
    BY <1>1, <1>3, <2>1, SMT
  <2>3. \A j \in i .. (i + v - 1) - 1 : m[j] <= m[j + 1]
    BY <2>1 DEF Sorted
  <2> QED
    BY <2>2, <2>3
<1>5. ASSUME NEW c \in 1 .. n, NEW i \in 0 .. n - c,
             \A j \in i .. i + c - 2 : m[j] <= m[j + 1]
      PROVE  c <= v
  <2>1. PICK e \in Int : e = i + c - 1
    BY <1>1, SMT
  <2>2. e \in 0 .. n - 1 /\ i \in 0 .. e /\ e - 1 = i + c - 2 /\ e + 1 - i = c
    BY <1>1, <2>1, SMT
  <2>3. Sorted(m, i, e)
    BY <1>5, <2>2 DEF Sorted
  <2> QED
    BY <1>2, <2>2, <2>3
<1>6. runs = {c \in 1 .. n : \E i \in 0 .. n - c : \A j \in i .. i + c - 2 : m[j] <= m[j + 1]}
  BY DEF m
<1>7. v \in runs /\ \A c \in runs : c <= v
  BY <1>3, <1>4, <1>5, <1>6, Zenon
<1> QED
  BY <1>7 DEF v

LEMMA ReturnedResults ==
  ASSUME Results3, pc = Caller(3)
  PROVE  FunctionsCorrect
<1> DEFINE a0 == before.regs.a0
           a1 == before.regs.a1
           m == before.memory
           runs == {n \in 1 .. a1 : \E i \in 0 .. a1 - n :
                      \A j \in i .. i + n - 2 : m[j] <= m[j + 1]}
           strlenReturns == regs.v0 = Cardinality(DOMAIN m) - 1
           gcfReturns == /\ IsDivisor(regs.v0, a0) /\ IsDivisor(regs.v0, a1)
                         /\ \A d \in 1 .. a0 : IsDivisor(d, a0) /\ IsDivisor(d, a1) => d <= regs.v0
           bottlesPrints == console = [k \in 1 .. 3 * AtLeast0(a0) |->
                              a0 - ((k - 1) \div 3) - (IF k % 3 = 0 THEN 1 ELSE 0)]
           longestReturns == IF a1 = 0 THEN regs.v0 = 0
                             ELSE regs.v0 \in runs /\ \A n \in runs : n <= regs.v0
           rotated(arguments) ==
             /\ console = Rotations(arguments, AtLeast0(a0))
             /\ regs.v0 = SumOfFirsts(arguments, AtLeast0(a0))
<1>1. \/ before.pc = strlen /\ strlenReturns
      \/ before.pc = gcf /\ gcfReturns
      \/ before.pc = bottles /\ bottlesPrints
      \/ before.pc = longestSorted /\ longestReturns
      \/ before.pc = rotateShort /\ rotated(<<1, 2, 3>>)
      \/ before.pc = rotateLong /\ rotated(<<1, 2, 3, 4, 5, 6>>)
  <2>1. ASSUME NEW n, Measuring(n) PROVE before.pc = strlen /\ strlenReturns
    BY <2>1, StringMeasured
  <2>2. ASSUME NEW a, NEW b, Dividing(a, b) PROVE before.pc = gcf /\ gcfReturns
    BY <2>2, GreatestFactorReturned
  <2>3. ASSUME NEW n, Singing(n) PROVE before.pc = bottles /\ bottlesPrints
    <3>1. before.pc = bottles /\ before.regs.a0 = n /\ console = Verses(n)
      BY <2>3 DEF Singing
    <3> QED
      BY <3>1 DEF Verses
  <2>4. ASSUME NEW n, Comparing(n) PROVE before.pc = longestSorted /\ longestReturns
    <3>1. before.pc = longestSorted /\ a1 = n /\ (n = 0 => regs.v0 = 0)
      BY <2>4 DEF Comparing
    <3>2. CASE n # 0
      <4>1. runs = {c \in 1 .. n : \E i \in 0 .. n - c : \A j \in i .. i + c - 2 :
                                     before.memory[j] <= before.memory[j + 1]}
        BY <3>1
      <4> HIDE DEF runs
      <4> QED
        BY <2>4, <3>1, <3>2, <4>1, LongestReturned
    <3> QED
      BY <3>1, <3>2
  <2>5. ASSUME NEW n, RotatingShort(n) PROVE before.pc = rotateShort /\ rotated(<<1, 2, 3>>)
    <3>1. before.pc = rotateShort /\ before.regs.a0 = n /\ ReturnsRotated(n, <<1, 2, 3>>)
      BY <2>5 DEF RotatingShort, Three
    <3> QED
      BY <3>1 DEF ReturnsRotated
  <2>6. ASSUME NEW n, RotatingLong(n)
        PROVE  before.pc = rotateLong /\ rotated(<<1, 2, 3, 4, 5, 6>>)
    <3>1. before.pc = rotateLong /\ before.regs.a0 = n
          /\ ReturnsRotated(n, <<1, 2, 3, 4, 5, 6>>)
      BY <2>6 DEF RotatingLong, Six
    <3> QED
      BY <3>1 DEF ReturnsRotated
  <2> HIDE DEF strlenReturns, gcfReturns, bottlesPrints, longestReturns, rotated
  <2> QED
    BY <2>1, <2>2, <2>3, <2>4, <2>5, <2>6, Zenon DEF Results3
<1> HIDE DEF strlenReturns, gcfReturns, bottlesPrints, longestReturns, rotated
<1>2. /\ before.pc = strlen => strlenReturns
      /\ before.pc = gcf => gcfReturns
      /\ before.pc = bottles => bottlesPrints
      /\ before.pc = longestSorted => longestReturns
      /\ before.pc = rotateShort => rotated(<<1, 2, 3>>)
      /\ before.pc = rotateLong => rotated(<<1, 2, 3, 4, 5, 6>>)
      /\ before.pc \in {strlen, gcf, bottles, longestSorted, rotateShort, rotateLong}
  BY <1>1, Labels3
<1>3. (CASE before.pc = strlen -> strlenReturns
         [] before.pc = gcf -> gcfReturns
         [] before.pc = bottles -> bottlesPrints
         [] before.pc = longestSorted -> longestReturns
         [] before.pc = rotateShort -> rotated(<<1, 2, 3>>)
         [] before.pc = rotateLong -> rotated(<<1, 2, 3, 4, 5, 6>>))
  BY <1>2
<1> QED
  BY <1>3 DEF FunctionsCorrect, strlenReturns, gcfReturns, bottlesPrints, longestReturns, rotated,
     runs, m, a0, a1

\* strlen returns the length of the string, gcf the greatest common factor, bottles
\* prints its verses, longestSorted returns the length of the longest run that
\* does not descend, and rotateShort and rotateLong pass the test's functions every
\* rotation of their arguments and return the sum of what these return: for
\* strings and arrays of any length, numbers of any size and any count.
THEOREM FunctionsAreCorrect == SpecAsm3 => []FunctionsCorrect
<1>1. InitAsm3 => ResultInv3
  BY InitialFrames, InitialResults3 DEF ResultInv3
<1>2. ResultInv3 /\ [CodeAsm3]_<<call, below>> => ResultInv3'
  BY ResultStep3
<1>3. ResultInv3 => FunctionsCorrect
  <2>1. pc # Caller(3) => FunctionsCorrect
    BY DEF FunctionsCorrect
  <2> QED
    BY <2>1, ReturnedResults DEF ResultInv3
<1> QED
  BY <1>1, <1>2, <1>3, PTL DEF SpecAsm3
=============================================================================
