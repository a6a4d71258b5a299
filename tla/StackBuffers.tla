---------------------------- MODULE StackBuffers ----------------------------
(***************************************************************************)
(* asm5.s: countLetters, which keeps an array of counters on the stack,    *)
(* and subsCipher, which keeps a string there whose length it learns first *)
(* (from strlen), and hands it to a function of the test.                  *)
(*                                                                         *)
(* The alphabet has Letters letters instead of 26.                         *)
(***************************************************************************)
EXTENDS FunctionCall, FiniteSets

CONSTANTS
  Letters,      \* letters from 'a' on and from 'A' on
  Characters,   \* the characters of the strings for countLetters
  Texts,        \* lengths of the strings
  Cipher        \* a map for subsCipher

ASSUME LettersAssumption == Letters \in Nat \ {0} /\ Letters <= 26
ASSUME CharactersAssumption == Characters \subseteq 1 .. 127
ASSUME TextsAssumption == Texts \subseteq Nat
\* Characters with sign extension, as lb loads them; none becomes the end.
ASSUME CipherAssumption ==
  /\ DOMAIN Cipher \subseteq 1 .. 127
  /\ Cipher \in [DOMAIN Cipher -> -128 .. 127 \ {0}]

VARIABLE buffer   \* the bytes at $sp, under the words of the stack

\* The labels of asm5.s, and the lines after its jal instructions.
countLetters == Line(5, 53)
LOOP_FILL == Line(5, 61)
AfterFill == Line(5, 68)
LOOP_COUNT_LETTERS == Line(5, 89)
LOOP_PRINT_LETTERS == Line(5, 162)
subsCipher == Line(5, 235)
AfterStrlen == Line(5, 249)
LOOP_SUBS_CIPHER == Line(5, 267)
AfterPrintString == Line(5, 291)
strlenOfText == Line(5, 318)
LOOP_STRLEN_OF_TEXT == Line(5, 322)
\* The function of the test.
printSubstitutedString == Line(5, 1)

-----------------------------------------------------------------------------
(* countLetters: a frame of counters, "other" and the parameter *)

Other == 4 * Letters
FrameOfCounters == 4 * Letters + 8

CountLetters ==
  /\ pc = countLetters
  /\ stack' = Pushed([k \in 1 .. FrameOfCounters \div 4 |-> Junk])
  /\ regs' = [regs EXCEPT !.t0 = Letters, !.t2 = 0]
  /\ pc' = LOOP_FILL
  /\ UNCHANGED <<memory, console, before, buffer>>

\* Fills the counters from the first to the last; then other and str.
FillCounter ==
  /\ pc = LOOP_FILL
  /\ regs' = [regs EXCEPT !.t0 = regs.t0 - 1, !.t2 = regs.t2 + 4]
  /\ stack' = Stored(regs.t2, 0)
  /\ pc' = IF regs'.t0 = 0 THEN AfterFill ELSE LOOP_FILL
  /\ UNCHANGED <<memory, console, before, buffer>>

StartCounting ==
  /\ pc = AfterFill
  /\ stack' = [stack EXCEPT ![Other \div 4 + 1] = 0, ![Other \div 4 + 2] = regs.a0]
  /\ regs' = [regs EXCEPT !.t3 = regs.a0]
  /\ pc' = LOOP_COUNT_LETTERS
  /\ UNCHANGED <<memory, console, before, buffer>>

\* Seeded fault: slt with 'z' itself, so that the last letter is none.
LastLetterMissing(c, first) == first <= c /\ c < first + Letters - 1

\* Not below the first letter and below the one after the last.
InAlphabet(c, first) == first <= c /\ c < first + Letters

\* The place in the frame that a character is counted at.
CounterOf(c) ==
  CASE InAlphabet(c, 97) -> 4 * (c - 97)
    [] ~ InAlphabet(c, 97) /\ InAlphabet(c, 65) -> 4 * (c - 65)
    [] OTHER -> Other

CountCharacter ==
  /\ pc = LOOP_COUNT_LETTERS /\ memory[regs.t3] # 0
  /\ LET place == CounterOf(memory[regs.t3])
     IN  stack' = Stored(place, AtSP(place) + 1)
  /\ regs' = [regs EXCEPT !.t3 = regs.t3 + 1]
  /\ UNCHANGED <<pc, memory, console, before, buffer>>

CountingDone ==
  /\ pc = LOOP_COUNT_LETTERS /\ memory[regs.t3] = 0
  /\ regs' = [regs EXCEPT !.t0 = 0]
  /\ pc' = LOOP_PRINT_LETTERS
  /\ UNCHANGED <<stack, memory, console, before, buffer>>

PrintCounter ==
  /\ pc = LOOP_PRINT_LETTERS /\ regs.t0 < Letters
  /\ console' = Append(console, AtSP(4 * regs.t0))
  /\ regs' = [regs EXCEPT !.t0 = regs.t0 + 1]
  /\ UNCHANGED <<pc, stack, memory, before, buffer>>

CountLettersReturns ==
  /\ pc = LOOP_PRINT_LETTERS /\ regs.t0 >= Letters
  /\ console' = Append(console, AtSP(Other))
  /\ stack' = Popped(FrameOfCounters)
  /\ pc' = regs.ra
  /\ UNCHANGED <<regs, memory, before, buffer>>

-----------------------------------------------------------------------------
(* strlen *)

StrlenOfText ==
  /\ pc = strlenOfText
  /\ regs' = [regs EXCEPT !.v0 = 0]
  /\ pc' = LOOP_STRLEN_OF_TEXT
  /\ UNCHANGED <<stack, memory, console, before, buffer>>

StrlenOfTextCounts ==
  /\ pc = LOOP_STRLEN_OF_TEXT /\ memory[regs.a0] # 0
  /\ regs' = [regs EXCEPT !.v0 = regs.v0 + 1, !.a0 = regs.a0 + 1]
  /\ UNCHANGED <<pc, stack, memory, console, before, buffer>>

StrlenOfTextReturns ==
  /\ pc = LOOP_STRLEN_OF_TEXT /\ memory[regs.a0] = 0
  /\ pc' = regs.ra
  /\ UNCHANGED <<regs, stack, memory, console, before, buffer>>

-----------------------------------------------------------------------------
(* subsCipher: $s0 is len, $s1 and $s2 are str and map, $s3 is len_roundUp, *)
(* $t9 is i                                                                 *)

SubsCipher ==
  /\ pc = subsCipher
  /\ stack' = Pushed(<<regs.ra, regs.a0, regs.a1, regs.s0, regs.s1, regs.s2, regs.s3>>)
  /\ Jal(strlenOfText, AfterStrlen, regs)
  /\ UNCHANGED <<memory, console, before, buffer>>

\* Seeded fault: rounded down.
RoundedDown(len) == 4 * (len \div 4)

\* (len+3) & ~0x3
RoundedUp(len) == 4 * ((len + 3) \div 4)

\* dup[len_roundUp] comes into being under the frame.
MakeBuffer ==
  /\ pc = AfterStrlen
  /\ LET len == regs.v0 + 1
     IN  /\ regs' = [regs EXCEPT !.s0 = len, !.s1 = AtSP(4), !.s2 = AtSP(8),
                                 !.s3 = RoundedUp(len), !.t9 = 0, !.t8 = len - 1]
         /\ buffer' = [k \in 1 .. RoundedUp(len) |-> Junk]
  /\ pc' = LOOP_SUBS_CIPHER
  /\ UNCHANGED <<stack, memory, console, before>>

\* sb to the i-th byte from $sp: past the buffer it spoils a word of the frame.
StoreByte(i, byte) ==
  IF i < Len(buffer)
  THEN buffer' = [buffer EXCEPT ![i + 1] = byte] /\ UNCHANGED stack
  ELSE stack' = Stored(i - Len(buffer), Junk) /\ UNCHANGED buffer

\* dup[i] = map[str[i]]
Substitute ==
  /\ pc = LOOP_SUBS_CIPHER /\ regs.t9 < regs.t8
  /\ StoreByte(regs.t9, memory[regs.s2 + memory[regs.s1 + regs.t9]])
  /\ regs' = [regs EXCEPT !.t9 = regs.t9 + 1]
  /\ UNCHANGED <<pc, memory, console, before>>

PrintBuffer ==
  /\ pc = LOOP_SUBS_CIPHER /\ regs.t9 >= regs.t8
  /\ StoreByte(regs.t9, 0)
  /\ Jal(printSubstitutedString, AfterPrintString, regs)
  /\ UNCHANGED <<memory, console, before>>

\* Prints up to the first 0 and trashes what is not saved.
PrintSubstitutedString ==
  /\ pc = printSubstitutedString
  /\ LET zeros == {k \in DOMAIN buffer : buffer[k] = 0}
         end == IF zeros = {} THEN Len(buffer)
                ELSE (CHOOSE k \in zeros : \A l \in zeros : k <= l) - 1
     IN  console' = SubSeq(buffer, 1, end)
  /\ regs' = [regs EXCEPT !.a0 = Junk, !.a1 = Junk, !.v0 = Junk, !.t8 = Junk, !.t9 = Junk]
  /\ JrRa
  /\ UNCHANGED <<stack, memory, before, buffer>>

\* sp is moved by len_roundUp, and the frame is popped.
SubsCipherReturns ==
  /\ pc = AfterPrintString
  /\ buffer' = SubSeq(buffer, regs.s3 + 1, Len(buffer))
  /\ regs' = [regs EXCEPT !.ra = AtSP(0), !.a0 = AtSP(4), !.a1 = AtSP(8), !.s0 = AtSP(12),
                          !.s1 = AtSP(16), !.s2 = AtSP(20), !.s3 = AtSP(24)]
  /\ stack' = Popped(28)
  /\ JrRa
  /\ UNCHANGED <<memory, console, before>>

-----------------------------------------------------------------------------
(* The calls *)

\* The calling function uses the $s registers.
RegistersAsm5(a0, a1) ==
  [a0 |-> a0, a1 |-> a1, v0 |-> Junk, ra |-> Caller(5), t0 |-> Junk, t2 |-> Junk,
   t3 |-> Junk, t8 |-> Junk, t9 |-> Junk, s0 |-> 70, s1 |-> 71, s2 |-> 72, s3 |-> 73]

\* A string at address 0, and for subsCipher the map in the 128 bytes before it.
MapAddress == -128
StringOf(characters, n) ==
  {[i \in 0 .. n |-> IF i = n THEN 0 ELSE s[i]] : s \in [0 .. n - 1 -> characters]}
StringAndMap(s) ==
  [a \in DOMAIN s \cup {MapAddress + c : c \in DOMAIN Cipher} |->
     IF a \in DOMAIN s THEN s[a] ELSE Cipher[a - MapAddress]]

InitAsm5 ==
  /\ buffer = << >>
  /\ \E n \in Texts :
       \/ \E s \in StringOf(Characters, n) : Called(countLetters, RegistersAsm5(0, Junk), s)
       \/ \E s \in StringOf(DOMAIN Cipher, n) :
            Called(subsCipher, RegistersAsm5(0, MapAddress), StringAndMap(s))

CodeAsm5 ==
  \/ CountLetters \/ FillCounter \/ StartCounting \/ CountCharacter \/ CountingDone
  \/ PrintCounter \/ CountLettersReturns
  \/ StrlenOfText \/ StrlenOfTextCounts \/ StrlenOfTextReturns
  \/ SubsCipher \/ MakeBuffer \/ Substitute \/ PrintBuffer \/ PrintSubstitutedString
  \/ SubsCipherReturns

-----------------------------------------------------------------------------
(* Properties *)

\* countLetters prints how often each letter occurs, in either case, and how
\* many other characters there are; subsCipher hands over the mapped string,
\* ended by a 0, whatever its length modulo 4.
PrintedRight ==
  LET m == before.memory
      HowMany(set) == Cardinality({i \in DOMAIN m : m[i] \in set})
      letters == 97 .. 96 + Letters \cup 65 .. 64 + Letters
      text == {a \in DOMAIN m : a >= 0 /\ m[a] # 0}
  IN  pc = Caller(5) =>
        console = IF before.pc = countLetters
                  THEN [k \in 1 .. Letters + 1 |->
                          IF k <= Letters THEN HowMany({96 + k, 64 + k})
                          ELSE HowMany(Characters \ letters)]
                  ELSE [k \in 1 .. Cardinality(text) |-> Cipher[m[k - 1]]]

\* The string and its 0 stay inside the buffer: the frame of subsCipher above it
\* holds what was saved there until it is restored, and both functions return
\* with the caller's stack and registers.
FrameIntact ==
  LET r == before.regs
  IN  /\ pc \in {LOOP_SUBS_CIPHER, printSubstitutedString, AfterPrintString} =>
           stack = <<r.ra, r.a0, r.a1, r.s0, r.s1, r.s2, r.s3>>
      /\ pc = Caller(5) => buffer = << >> /\ GivenBack({"s0", "s1", "s2", "s3"})
=============================================================================
