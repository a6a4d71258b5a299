# Verification of the computer-organization simulators

The repository is a semester of hardware simulators, in C and Java, and of MIPS
assembly programs. This directory holds TLA+ models of its two processors, a
specification of the machine they are supposed to be, models of its circuits and
of its assembly programs, the TLC runs that check them, and proofs of what holds
of the processors for every program and of the assembly functions for any data.

## 1. The system

| Part | Code | State | Operations | What is hard |
|---|---|---|---|---|
| Instruction encoding | `sim*_test_commonCode.h`, `extract_instructionFields()` | none | macros that build a word, fields taken from it, sign extension | words with opcode 32 and above are negative |
| Pipelined CPU (`sim5`) | `src/Pipelined CPU in C/sim5.c`, `sim5.h` | registers, memories, PC, the latches ID/EX, EX/MEM, MEM/WB | stall and branch control, ID, forwarding, EX, MEM, WB | five instructions at once: stale operands, stalls, bubbles, branches decided in ID |
| Single-cycle CPU (`sim4`) | `src/Single cycle CPU in C/sim4.c`, `sim4_test_commonCode.c` | registers, memories, PC, output | decode, ALU, memory, next PC, register update, system calls | control bits spread over nine functions, the checks of the harness, register 0 |
| Wires and gates | `RussWire.java` and the gates, three copies | per wire: set or not, value | `set`, `get`, `clockTick` | set once, read only when set |
| Adders (`sim1`, `sim2`) | `sim1.c`, `Sim1_*.java`, `Sim2_*.java` | wires; the struct `Sim1Data` | ripple addition, subtraction, carry, overflow | evaluation order, overflow at the limits, a struct used again |
| Bit-sliced ALU (`sim3`) | `Sim3_*.java`, `Adder.java`, `HalfAdder.java` | wires of the elements | two passes over the elements | the second pass needs the sign from the first; no correction for overflow |
| Tasks (`asm1`, `asm2`) | `asm1.s`, `asm2.s` | `$t`, `$s` registers, the test's words | tasks selected by flags: order, compare, swap, print; Fibonacci, square, run check, word count, reversal | tasks share registers; loops that may not end; `add` traps |
| Functions (`asm3`) | `asm3.s` | registers, stack, console | `strlen`, `gcf`, `bottles`, `longestSorted`, `rotateShort`, `rotateLong` | recursion, callbacks that overwrite what they may, arguments below the stack pointer |
| Search tree (`asm4`) | `asm4.s` | nodes, stack, root of the caller | init, search, count, two traversals, insert | recursion that rewrites every link, a function that falls into the next |
| Stack buffers (`asm5`) | `asm5.s` | counters and a string on the stack | `countLetters`, `subsCipher`, `strlen` | frames whose size depends on the data |
| Sorting (`asm6`) | `asm6.s` | two arrays, stack, clock | `insertion_sort`, `selection_sort`, drivers, `print_array`, `main` | indices left by the caller, items in registers while they move |
| Tests, graders, output files | `test_*`, `grade_*`, `mips_checker.pl` | none | text comparison | |

How the parts meet: `sim4` and `sim5` are independent programs that share the
instruction set and the encoding macros; each is called by a test harness that
owns the memories and the loop. `sim5`'s harness is declared in
`sim5_test_commonCode.h`; its `.c` file is not in the repository. In `sim2` and
`sim3` parts own smaller parts and copy values between their wires. The assembly
programs run on a separate simulator (MARS), under test programs that call them.

What makes each part correct:

- **Pipelined CPU**: the program cannot tell it from a machine that executes one
  instruction at a time; operands are current whatever is in flight; a bubble has
  no effect; each instruction takes effect once; a stall ends.
- **Single-cycle CPU**: one call executes one instruction; the PC stays aligned;
  register 0 stays 0.
- **Wires, adders, ALU**: no wire is read before it is set or set twice; sums are
  arithmetic modulo 2^n; overflow and LESS are those of the signed values.
- **Assembly**: callee-saved registers and the stack pointer come back; each
  function returns, with the result it should have; the tree stays ordered, also
  in the middle of an insertion; a sort leaves an ordered permutation.

`PROJECT.json` lists the hazards line by line.

## 2. The modules

| Module | Models | Uses |
|---|---|---|
| `Words` | the C type `WORD` (W bits, two's complement) and its operators | |
| `Instructions` | encoding macros, `extract_instructionFields()` | |
| `MipsISA` | abstract specification: one action per class of instruction, four ways to stop | Words, Instructions |
| `SingleCycleCPU` | `sim4.c` under `execute_singleCycleCPU()`; refines `MipsISA` | Words, Instructions, MipsISA |
| `PipelinedCPU` | `sim5.c` under a clock | Words, Instructions |
| `PipelineHistory` | `PipelinedCPU` with instruction tags; refines `MipsISA` | PipelinedCPU, MipsISA |
| `MCPipeline`, `MCPipelineHazards`, `MCPipelineWide`, `MCPipelineClock`, `MCSingleCycle` | values of the constants for TLC | |
| `RussWire` | wires as a partial function from names to values; a circuit is a sequence of `set` statements | |
| `Adders` | gates, half and full adder, `Sim1_ADD`, `Sim1_SUB`, `Sim2_AdderX` | RussWire, Words |
| `BitSlicedALU` | multiplexers, `Sim3_ALUElement`, `Sim3_ALU` | Adders |
| `Circuits` | the tests' protocol around them; `execute_add()` of `sim1.c` | BitSlicedALU |
| `AssemblyMachine` | what the programs run on: registers, stack, `jal`, `jr` | |
| `OrderedNodes` | abstract specification: a collection of nodes with keys | |
| `SearchTree` | `asm4.s`; refines `OrderedNodes` | AssemblyMachine, OrderedNodes |
| `FunctionCall` | one call of a function, compared with its return | AssemblyMachine |
| `SelectedTasks`, `LoopTasks`, `StackArguments`, `StackBuffers`, `Sorting` | `asm1.s`, `asm2.s`, `asm3.s`, `asm5.s`, `asm6.s` | FunctionCall |
| `MCAssembly` | the choice of the program that is run, and values for TLC | the five |
| `Recursion` | lemmas: induction and recursion over the naturals | |
| `DataTheorems` | lemmas about the operators of `Words` and `Instructions` | Recursion |
| `SingleCycleCPUProofs` | theorems about `SingleCycleCPU` | DataTheorems |
| `PipelineHistoryProofs` | theorems about the pipeline | DataTheorems |
| `SearchTreeProofs` | theorems about `SearchTree`: its stack, the shape of its tree, what its functions print and return | Recursion |
| `SortingProofs` | theorems about `Sorting` | Sorting |
| `TaskProofs` | theorems about `SelectedTasks` and `LoopTasks` | the two, FunctionProofs |
| `FunctionProofs` | theorems about `StackArguments` and `StackBuffers`: the frames, and what the functions return and print | the two, Recursion |

**Words.** A word is the set of the positions of its one-bits. Bitwise operators
are then set operations, a shift moves positions, and addition is the usual
carry recurrence, written as a function on `Nat`. Words of 5 or 6 bits keep the
wrap-around and the sign, so that a run can visit all of it; the wide run uses
the code's 32 bits. An immediate field keeps its 16 bits and is cut to W bits when
it becomes a word (for W = 32: extended).

**PipelinedCPU.** The variables are the harness's arrays (`instMemory`, `regs`,
`dataMemory`), the PC in IF/ID, and one record per latch with the fields of
`sim5.h` (the `extra` fields are never used and left out). The operators have the
names of the C functions and take the same latches; where a C function fills a
struct the operator returns the record. One action is one clock:

- `StallClock`: `IDtoIF_get_stall()` returned 1; ID/EX gets the bubble;
- `IssueClock`: ID passes an instruction on, and the PC is chosen by
  `IDtoIF_get_branchControl()`;
- `ErrorClock`, `EndClock`: `execute_ID()` reports an error; the exit system call
  or the end of the program is reached;
- `DrainClock`: EX, MEM and WB go on for the instructions still inside;
- `MemoryFault`: MEM would access a word outside the array, which C leaves
  undefined; the model stops.

Every clock but the last of these contains `BackEnd`, the effects of WB, MEM and
EX. All stages read the latches of the start of the clock (the C functions take
`old_idex`, `old_exmem` and fill `new_...`). The clock itself is not in the
repository and is marked external in `PROJECT.json`: the order "WB before ID
reads the registers" is the one under which the stall conditions of `sim5.c` are
sufficient, and `SYSCALL` is only the exit call. The meaning of the value
`execute_ID()` returns is the code's (1 for a valid instruction); the comment in
`sim5.h`, lines 138-139, says the opposite ("return 0 to indicate "OK" and 1 to
indicate "ERROR""), and the missing harness would settle which one the caller
expects.

`execute_EX()` returns a *set* of results: a shift by 32 or more is undefined in
C, and `Shifted` allows the two outcomes that compilers' targets give (count
modulo 32, or all bits shifted out).

**PipelineHistory.** Three auxiliary variables hold the address of the
instruction in each latch. They are only written, never read, by the actions.
The refinement mapping takes the instruction *leaving MEM* as the one that has
just executed: the abstract PC is that of the oldest instruction that has not
left MEM, and the abstract registers are those after the pending write of MEM/WB.
An instruction takes effect in that clock and in no other, so bubbles, issues and
drains are stuttering steps.

`HazardFree` describes the programs for which the refinement holds. Its
four conditions say what `sim5.c` leaves to the program: no result is written to
register 0, no shift but NOP, no store whose address is the value loaded just
before it, and no branch on what one of the two preceding instructions
computes, loads excepted. The first three are findings (section 5). For the
fourth no comment promises anything.

**SingleCycleCPU.** One action is one call of `execute_singleCycleCPU()`, with
steps 1 to 6 of the harness in order and its early returns; `status` records the
return that ended the test. System calls append to `console`. Structs that the
harness compares before and after (its `_save` copies) cannot change in the
model, because operators have no side effects; these comparisons are left out,
as are the debug prints.

**Circuits.** A wire is named by the path of its owner, its field and its index.
Statements read like the Java lines (`Set(to, from, f)` is
`to.set(f(from.get()))`, `Copy` is a `set` of a `get`), and `Execute` runs a
sequence of them from the wires it finds, stopping at the first exception: a wire
that is set twice, or read before it is set. One action is the whole of a test's
step: driving the inputs, `execute()`, and the next cycle, which is `clockTick()`
in `sim3` and a new object in `sim1` and `sim2`. (Line 10 of their `RussWire.java`
documents a `clockTick()` they do not have.) `execute_add()` has no wires; what is
hard about it is that the same struct is used again, so the model calls it again
and again. `Execute` is a recursive operator, so these modules stay with TLC.

**Assembly.** One action is a stretch of instructions between labels, branches
and calls; `pc` holds its first line. Registers that no later stretch reads are
left out; a register or word nobody has set holds `Junk`, as do the registers that
a function of a test may overwrite, so that a program which relied on them would
be seen to. The stack is a sequence of words, with
pushes, pops and accesses at byte offsets as in the code. The console is a
sequence of numbers; text is reduced to a number where a property is about it.

- `SearchTree`: the caller may call any function in any order, with nodes
  initialised first and inserted after, as the tests do; uninitialised memory holds
  links to a node, so a missing initialisation would be seen. `bst_init_node` has
  no `jr $ra` and falls into `bst_search`, which returns for it; `InitNode` goes
  there too. `OrderedNodes` knows a set of nodes and their keys and no tree. The
  refinement mapping takes as members what hangs from the caller's root; an
  insertion takes effect when the link to the new node is stored (or, for an empty
  tree, when it returns).
- `StackArguments`: the test's `utilShort` and `utilLong` are modelled as
  overwriting all they may, the words below the stack pointer included, because
  that is what `test_01.s` does "for many bytes" (line 218). `rotateLong` passes
  its fifth and sixth arguments there. A string is what comes before its 0, so it holds
  none; the arrays of `longestSorted` hold any numbers.
- `StackBuffers`: the buffer is a sequence of bytes under the words of the stack,
  and a store past its end spoils a word of the frame above it. The map is a
  constant, `Cipher`, in the 128 bytes before the string; like the programs' own
  maps it sends no character to the 0 that ends a string.
- `Sorting`: `insertion_sort` is entered with `$s2` from its caller, and the
  drivers with a number in each `$s` register that they must give back. The numbers
  are independent of each other (`CallersRegisters`), so a register restored from the
  place of another one is noticed.

## 3. The runs

| Run | Result | Checks |
|---|---|---|
| `pipeline_isa` | passes, 94,328 states | `TypeOK`, `LatchesMatchProgram`, `OperandsCurrent`, `StoreDataCurrent`, `BranchOperandsCurrent`, `Implements` |
| `pipeline_wide` | passes, 16,301 states | `Implements` with 32-bit words |
| `pipeline_clock` | passes, 13,457 states | `StallEnds`, `Terminates` |
| `single_cycle` | passes, 56,682 states | `TypeOK`, `PCAligned`, `Implements` |
| `circuits` | passes, 9,861 states | `NoException`, `AddersCorrect`, `StructCorrect`, `ALUCorrect`, `LessUpToOverflow` |
| `search_tree` | passes, 46,982 states | `OrderedTree`, `StackRestored`, `TraversalOrder`, `Implements`, `OnlyALeafIsAdded`, `CallsReturn` |
| `assembly` | passes, 250,628 states | `TasksIndependent` (asm1), `TasksCorrect` (asm2), `FunctionsCorrect`, `FramesBalanced` (asm3), `PrintedRight`, `FrameIntact` (asm5), `SortedOutput`, `SortsFromCallersIndex`, `NothingLost`, `CalleeSaved` (asm6), `Ends` (all) |
| `store_base`, `shift_amount`, `zero_forwarding`, `zero_register`, `equal_values` | violated | one property each, section 5 |

Bounds, and why they are enough:

- *Programs.* `pipeline_isa` takes every hazard-free program of four
  instructions and a `SYSCALL` over an alphabet of eleven. A dependence spans at
  most three instructions (a producer in MEM/WB, one in EX/MEM, the consumer in
  EX; for a store, one more before its MEM), so four put every pair and triple of
  the alphabet next to each other, in both orders, with a stall before or after.
  The alphabet has producers and consumers of the same three registers, loads and
  stores whose base and data are computed, branches in both directions, a jump and
  an instruction the CPU does not have.
- *Words.* 5 bits let addresses of a memory of four words be computed, wrap and
  leave the memory. What depends on the width (sign extension, LUI, the limits
  of `int`, jumps across a 2^28-byte boundary) is in `pipeline_wide`, with one
  pair of instructions per program. Its alphabet has every instruction that
  `execute_ID()` recognizes; of the shifts only `NOP`, which `HazardFree` admits.
- *Initial state.* One register file per run (three for `pipeline_wide`) and one
  data memory. The registers are chosen so that addresses are in and outside of
  the memory and so that both outcomes of each branch occur.
- `pipeline_clock` has forward branches only, since a program that loops need not
  end. It includes programs that are *not* hazard-free: a stall must end whatever
  the program.
- `single_cycle` has two alphabets because a loop that prints makes `console`
  grow without bound: the one with loops has no printing, the one with system calls
  branches only forward. Together they name every instruction `fill_CPUControl()`
  accepts, and one it does not.
- `circuits` has words of three bits: a lowest, an inner and a top element, so
  that every kind of connection between elements occurs, with all operands and
  all operations, 5 to 7 of the multiplexer included. The elements are
  connected by loops over the width; nothing in them depends on it otherwise.
- `search_tree` has up to four nodes and four keys, equal keys included. Nodes
  are taken in order of their addresses, and at most one is initialised and not yet
  inserted. Four nodes give all shapes of depth up to four, an insertion at each
  place of each, and a link above, at and below the one that changes.
- `assembly`: arrays and strings of up to four items, which gives runs that end
  in the middle and at the end, sorts that move an item over several others, and
  strings of every length modulo 4. The alphabet of `countLetters` is cut to two
  letters, with the characters on both sides of either range. The largest number
  an `add` may give is 12, so that the Fibonacci task reaches it. `gcf` gets positive
  numbers (the tests' inputs; a division by zero leaves what MARS chooses). The data of
  one task of `asm2.s` vary at a time, and then all combinations of flags. `asm1.s`
  gets the values for which its ordering task ends, which the largest value must
  not occur twice in; the others are in `equal_values`. The sorts run from `main`
  and on their own, then with a different number in each of `$s0` to `$s4`, and `$s2`
  one below, at and after zero and at the size of the array; from `main` all registers
  are 0, as when a program starts. Both arrays start with the same items, and the clock does not wrap.

Fairness is `WF_vars(Next)` (`WF_hvars(HNext)`) for the pipeline: the harness calls
the stages in a loop and nothing in `sim5.c` can block it. For the assembly
programs it is weak fairness of `Code`, the instructions of the file: the
processor goes on executing; the tests around `asm4.s` may stop calling it.
`SingleCycleCPU` and `Circuits` need none; only safety is checked of them. Deadlock is
checked in every run except those of `MCAssembly`, whose programs end.

Each property of a passing run can fail: the definitions commented "Seeded fault"
(a wrong bit field, a dropped stall, an offset from the wrong address, the older of two
results forwarded) each take the place of one definition of the model, and the
run then violates the property `PROJECT.json` pairs with it under "mutants".

`MCPipeline` also evaluates three assumptions: the operators of `Words` are
arithmetic modulo 2^W (all pairs of 5-bit words), `extract_instructionFields`
undoes the encoding macros (limits of every field), and each condition of
`HazardFree` turns away the programs it is meant for, and no other of them
(`HazardsAreExcluded`).

## 4. The proofs

The theorems hold for all values of the constants that satisfy the assumptions
the modules name (`WidthAssumption`: W >= 2, `ProgramsAssumption`,
`RegsAssumption`, `MemoryAssumption`, `OffsetAssumption`,
`NoInstructionAssumption`; `NodesAssumption` and `KeysAssumption` for the search
tree; `TriplesAssumption`, `LargestAssumption` and `InputsAssumption` for the tasks: the
data are integers, the array has the length the test says, the string ends at its
only 0; `RoomAssumption`, `ValuesAssumption` and `StartsAssumption` for the sorts;
`CountsAssumption`, `NumbersAssumption`, `LengthAssumption` and `ItemValuesAssumption`
for the functions of `asm3.s`; `LettersAssumption`, `CharactersAssumption`, `TextsAssumption` and
`CipherAssumption` for those of `asm5.s`). TLC evaluates them in the runs. The
inductive invariants below were first checked as invariants of the run of their
component, except those of `FunctionProofs`, which speak of sequences of anything
and are not for TLC to evaluate.

### The operators

A word is a set of positions and addition is a carry recurrence, so facts about
sums need induction. `Recursion` derives it from the well-foundedness of the
naturals, for *sets* in place of predicates (`SetInduction`, `RecursiveFunction`):
the elements of the set are the numbers, or the values of a recursive function,
for which the claim holds. `DataTheorems` uses it for the carries; it also has the
types and ranges of every operator of `Words` and `Instructions`.

### Single-cycle CPU (`SingleCycleCPUProofs`)

- `TypeCorrect`, `AlwaysAligned`: `TypeOK` and `PCAligned` from
  `Inv == TypeOK /\ PCAligned`, since offsets and targets are multiplied by 4.
- `Refinement`: `Spec => Implements`. Every call of `execute_singleCycleCPU()` is a
  step of `MipsISA` or changes nothing it sees. Per instruction, the control bits
  of `fill_CPUControl()` are worked out, from them the ALU's operation and inputs,
  then the next PC and the register write, each compared with the effect the ISA
  names. Hypotheses: W >= 5, so that the five bits of a shift amount fit into the
  ALU input they travel through; and each program is `Executable`: no result for
  register 0 (what the code does with one is finding `zero_register`), and less
  than 2^28 bytes, so that the upper bits of a jump may be taken from the jump's
  own address (the harness has `INST_WORDS` = 1024 words,
  `sim4_test_commonCode.h:9`).

### Pipeline

- `TypeCorrect`, `HistoryTypeCorrect`: types, for all programs.
- `LatchesCorrect`: the latches and their tags agree, for all programs. The
  property is proved as the conjunction of a part per latch (`IdexMatches`,
  `ExmemMatches`, `EmptyIsIdle`): what a latch receives is a function of the
  latch before it.
- `StoreDataCorrect`: the data of a store is current, for all programs. The
  property speaks of the clock in which the store is in MEM and is not inductive.
  The strengthening `StoreInEX` speaks of the clock before: when a store is in
  EX, the value ID read is the one the register file has, or a writer of its
  register is in MEM, or in MEM/WB as the last one. It is established when ID
  issues the store, exactly because `IDtoIF_get_stall()` did not hold it.
- `OperandsCorrect`, `BranchOperandsCorrect`: EX and the branches in
  ID use the values of program order. `OperandsInv` adds to types and latches:
  tags name recognized instructions of the program (`TagsValid`) that follow
  each other in it (`InProgramOrder`); what ID read is current or about to be
  written by a latch (`ReadInID`); a latch that writes register 0 carries
  nothing that anybody forwards (`ZeroWritesHarmless`); and a load in EX or MEM is
  not needed yet (`LoadsSettled`). Hypotheses: all programs are `HazardFree` (each
  of its conditions is something `sim5.c` leaves to the program, see section 2),
  and the code starts at a multiple of 4.
- `PipelineRefines`: the same hypotheses and
  `[]SystemCallsExit` give `Implements`: each clock is one step of `MipsISA` or
  none. `SystemCallsExit` says that a `SYSCALL` that is reached is the exit call:
  the harness of `sim5` ends "on syscall 10" and has no other. `RefinementInv` adds
  to `OperandsInv` that nothing older writes what a branch has compared
  (`BranchesSettled`), that EX/MEM holds the result the ISA computes from the
  registers as they will be when it takes effect (`ResultCurrent`), that the
  instruction behind it is the one the ISA goes to (`FollowedRight`), and why ID
  has stopped (`StatusMeans`).

### Search tree (`SearchTreeProofs`)

For any number of nodes and any set of keys:

- `StackIsRestored`: every function returns with the stack and the return address
  of its caller. The invariant `Control` has four parts: types; `ControlFlow`, the
  stack consists of frames of one size whose return addresses are lines after
  recursive calls, in the outermost one the caller's; `InFunction`, the code that
  runs belongs to the function called; `Operands`, the words of the frames that
  the code uses as nodes are nodes.
- `TreeIsOrdered`, `TreeGrowsByLeaves`: `OrderedTree` in every state, and
  `OnlyALeafIsAdded` of every step. The invariant `TreeInv` is `Control` with
  `IsTree`, `Fresh` and `Insertion`. `IsTree` describes the tree without recursion: it
  is the nodes 1 to `Size`, each links to nodes with greater addresses, no two
  link to the same, and each but the first is linked. It is exactly because the
  test takes nodes in the order of their addresses that this describes a tree,
  and what hangs from the root is all of it (`TreeBelow`). `Fresh`: the node taken last
  has no children. `Insertion` describes the way down and back: each frame is about
  the child of the next one (`Path`); on the way down the new node *fits* below
  the current one, that is, its key is on the right side of every node above
  (`Fits`); on the way back either it is about to be linked at a place that is NULL
  and where it fits, or it is linked and the value returned is the link that is
  there already, so that the remaining returns write what they find.
  `ShapeGrows` says that linking a leaf where it fits keeps the tree.
  What is below a node is a recursive function of the depth; the lemmas about it
  (`BelowLeast`, `BelowChildren`, `BelowGrows`) say that it is the least set that
  contains the node and is closed under children, again by induction on a set.
- `TraversalsFollowTheTree`: `TraversalOrder`; `TreeImplementsDictionary`:
  `Spec => Implements`. The invariant `DictionaryInv` adds four parts to `TreeInv`.
  They say of every point in the middle of a recursion what is already done:
  - `TraversalInv`: what is on the console, what the current line and its
    registers still print, and what the frames of the stack print after it, joined,
    are the order of the whole tree. The frames form a chain of promises (`Owes`):
    each says what is printed from the return to its line to the end (`Promises`),
    given what the next one says. An order is a function of the nodes (`IsOrder`),
    and induction from the leaves (`TreeInduction`) shows that there is only one, and
    that it has each key as often as there are nodes with it (`OrderCounts`).
  - `CountInv`: the same chain with numbers in place of sequences
    (`CountPromises`); a frame holds the sum so far or the node whose right
    subtree is still to be counted.
  - `SearchInv`: if any node has the key, the oldest of them is the current node
    or below it. A node with an equal key goes to the right of the older one, so the
    first match on the way down is the oldest.
  - `Recorded`: the memory holds the key of each node the caller initialised, except
    while `bst_init_node` has not yet stored it.

  Each step then maps to a step of `OrderedNodes` or changes nothing it sees:
  a call; an insertion, when its link is first written; a printed key; and
  a return, with the value `RightAnswer` says it has. No hypotheses beyond the
  assumptions on the constants.

### Sorting (`SortingProofs`)

For arrays of any size with any items, called through `main` or through either
driver, with any number in each of the caller's `$s0` to `$s4`. One thing is assumed of
them (`StartsAssumption`): `$s2` is at least -1, since `insertion_sort` starts from
one more (section 5) and would read before the array otherwise. The
specification is that of `asm6.s` alone, `InitAsm6` and the actions `CodeAsm6`.

- `RegistersAreRestored`: `CalleeSaved`. The invariant `Control` says at each place
  which words are on the stack (`OwnFrame`, and the frame of the function called), what
  the registers the code uses hold (the array, its size, indices in range), and
  which of the caller's registers are still untouched: `AtRest`, `InSorter`,
  `Printing`, `Inserting`, `Selecting`.
- `ItemsAreKept`: `NothingLost`. Fill the hole that `insertion_sort` has opened with
  the key in `$s3` (`Filled`); then each step that writes memory exchanges two items
  (`Exchanged`) or writes what is there. An exchange is a bijection between the
  positions of each value (`ExchangeKeepsItems`), so the numbers of items stay.
- `InsertionSorts`: `SortsFromCallersIndex`. `InsertionOrder` says at each step that
  the items before `i` are in order (`Up`) if and only if those before the first
  `i` were; in the inner loop the hole is left out (`UpBut`), and every item moved
  is greater than the key. So the loop neither loses order nor restores it where
  the items it passes over lack it.
- `OutputIsSorted`: `SortedOutput`. `SelectionOrder` says that the first `i` items are
  in order and none of the others is smaller (`Least`), and that `$s3` is the index of
  the least item seen so far. `ConsoleOK` says at each place what the console shows:
  what was printed before (`Base`), the items at first, what of them `print_array`
  has printed by now (`Progress`).

### Functions and their frames (`FunctionProofs`)

Each file alone (`SpecAsm3`, `SpecAsm5`), called once with any arguments.

- `FramesAreBalanced`: `FramesBalanced`, for all functions of `asm3.s`. `Place3` says
  at each place how large the frame is, that its last word is the caller's return
  address, and where it keeps the caller's `$s0`. The functions of the test that the
  rotations call trash every register that is not saved and the words below the
  stack pointer, none of which the invariant mentions. For `gcf` the stack is a
  pile of frames (`GcfFrames`), all of which return into `gcf` except the last;
  that the arguments stay positive, so that no remainder is taken by 0, is part
  of it.
- `FunctionsAreCorrect`: `FunctionsCorrect`, for all functions of `asm3.s`. `Results3`
  adds to the frames what each function has computed at each of its places.
  `strlen` (`Measuring`) has counted the characters before `$a0`. Every call of `gcf`
  (`Dividing`) is about two numbers that have the same common divisors as those of the
  caller (`SameFactors`), because the divisors of the smaller number and of the
  remainder are those of both numbers (`DivisorsOfRemainder`); the innermost call
  knows the greatest of them, and the others hand it on. `bottles` (`Singing`) has printed the first
  verses. `longestSorted` (`Comparing`) keeps the longest run that ends at the item
  `$t0` in `$t2` (`LongestEndingAt`), and the greater of that and `$s0` is the
  longest of all runs so far (`LongestUpTo`), which is why the comparison after the
  loop is needed. In the rotations (`RotatingShort`, `RotatingLong`) the words of the
  frame are the arguments, rotated as often as the function of the test has been
  called; the console holds all it has been passed and `$s0` the sum of what it has
  returned. While that function runs, nothing is known of the registers it may trash.
- `FramesAreIntact`: `FrameIntact`, for both functions of `asm5.s`. `Place5` says that
  the size of the buffer is in `$s3` and exceeds the index of the 0 that ends the
  string, which is what rounding `len + 1` *up* gives (`BufferIsMade`); so every byte
  is stored inside (`StoredInside`). Nothing is assumed of the characters or of the
  map: what is stored does not matter for the frame. For `countLetters` the
  frame keeps its size, whatever word of it is counted up.
- `StringsArePrinted`: `PrintedRight`, for both functions. `Printing5` adds to the
  frames what is in them. While `countLetters` reads the string, the word of each
  counter is the number of the characters before `$a0` that are counted by it
  (`HasCounted`, `LetterCounts`): a character has exactly one counter, so one word
  grows by one and the others stay. While it prints, the console is the first of
  these numbers. For `subsCipher`, `strlen` has measured the string (`Ciphering`), and
  the first `$t9` bytes of the buffer are the images of the
  first characters (`HoldsMapped`). `printSubstitutedString` stops at the first 0 of
  the buffer: that is the one after the string, because no image is 0.

### Tasks that share registers (`TaskProofs`)

`asm1.s` and `asm2.s` are each one function whose tasks run one after the other and
use the same registers. The specifications are those of the files alone
(`SpecAsm1`, `SpecAsm2`). `Place1` and `Place2` say at each label what the console
shows, what memory holds and what the code after the label relies on.

- `TasksAreIndependent`: `TasksIndependent`, for any three numbers and any flags. The flags
  are read once, at the start; `FlagsKept` says that `$t2` to `$t4` still hold them
  when the other tasks are done. While the numbers are sorted, `$t5` to `$t7` are the
  caller's in another order (`Rearranged`), and `$t9` is 0 only if no pair
  was exchanged, hence in order; three numbers have only one order (`OneOrder`). That
  the loop ends is not claimed, and not true (section 5, `equal_values`).
- `TasksAreCorrect`: `TasksCorrect`, for any data. What a task prints is a table of words, and
  at each label the console holds the first of them (`FirstOf`).
  - *Fibonacci*: the recursive function has a solution (`FibonacciNumbers`) that grows
    (`FibonacciGrows`); so the first sum that is too large is the one that makes the last
    number too large, and `add` traps exactly then.
  - *Square*: a place in the table is a row and a column (`PlacesInSquare`); the
    invariants of the two loops (`BetweenRows`, `InRow`) count places, and the branch
    for a square of one character (`OneCharacter`) prints the same table.
  - *Run check*: `$t3` and `$t4` are 0 exactly if the pairs compared so far ascend and descend.
  - *Words*: `$t0` is the number of the words that start before `$t2`, and `$t5` is 1 inside
    a word (`WordsCounted`).
  - *Reversal*: after k exchanges the first and last k characters are those of the reversed
    string (`Swapped`); the pointers meet or pass each other when all are.

### Only model-checked

- Liveness (`StallEnds`, `Terminates`, `CallsReturn`, `Ends`): out of the prover's
  reach.
- `Circuits`: a circuit is executed by a recursive operator (`Execute`), about which
  the prover cannot reason.

## 5. What the violated runs show

1. `store_base`: a store directly after the load of its base register writes
   to the wrong address. `sim5.c:101` relies on forwarding, which exists for the
   store's data only.
2. `shift_amount`: `sim5.c:633` shifts by `imm16`, the comment under it says shamt.
3. `zero_forwarding`: the comment at `sim5.c:502-504` excludes register 0 from
   forwarding, the condition does not.
4. `zero_register`: `sim4.c:526` writes register 0, which the harness reports as
   an error.
5. `equal_values`: the second comparison of the ordering loop of `asm1.s` (lines
   62-63) also exchanges equal values, and counts that as a swap. If the largest
   of the three values occurs twice, the "no swaps happened" of line 73 never comes.
   The first comparison (51-52) does not have the fault.

One comment describes another function than the code, without a run of its own:

- the C version of `longestSorted` (`asm3.s:244-260`) goes on with a run if
  `nums[i+1] == nums[i] + 1` and returns without a look at the last run. The
  instructions end a run only if the next item is smaller (311-312), and compare the
  last run after the loop (332-334). On 1, 2 and on 1, 3 the C version gives 1, the
  code 2. `test_01.s` agrees with the code: its array 10, 5, 100, 125, 125, 199, -1 gives 5
  (`test_01.student_output:300`), where the C version would give 1. `FunctionsCorrect`
  and the theorem about it state what the code computes, and say so.

Smaller disagreements between comments and code, and a needless wait, which change no
result in the programs of the repository:

- `asm6.s:100` writes the outer loop of `insertion_sort` as
  `for (int i = 1; ...)`, but the code starts from one more than the caller's
  `$s2` (line 128). In the program `$s2` is 0. `SortsFromCallersIndex` states what
  holds in general.
- `asm1.s` compares bravo and charlie as "less or more" and prints LESS when they
  are equal.
- The comment of the pre-order traversal, `asm4.s:212-213`, recurses into the
  in-order one; the code does not.
- Line 10 of `RussWire.java` in `sim1` and `sim2`, see section 2.
- `sim5.c:127-131` holds every reader of a load two ahead, not only a branch, although
  forwarding from MEM/WB would serve the others, and also if the instruction between
  overwrites the register. The comment there asks for it; it costs a clock and changes
  no result. No property bounds the number of stalls beyond `StallEnds`.

## 6. Not modelled

- printing of debug information, the text of messages, and what an access outside
  of an array does (both CPU models stop there);
- the harness of `sim5`, whose `.c` file is not in the repository (modelled from
  its declarations), `Sim2_FullAdder`, of which only the class file is, and the MARS
  simulator, modelled from how the programs use it (marked external);
- the single-cycle CPU's test drivers: fixed programs without branches of their
  own, covered by the runs over all programs of an alphabet;
- graders, checkers and expected outputs: comparison of text.
- In `asm3.s`, `gcf` with a zero; in `asm5.s`, characters of 128 and more, which
  index before the map; in `asm6.s`, a clock that wraps between its two readings.
  In all three the outcome depends on what is not in the sources.
