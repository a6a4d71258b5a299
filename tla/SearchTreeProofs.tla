-------------------------- MODULE SearchTreeProofs --------------------------
(***************************************************************************)
(* asm4.s on any number of nodes: its stack is a chain of the frames of    *)
(* the active calls, and its memory an ordered tree, in every state.       *)
(***************************************************************************)
EXTENDS SearchTree, Recursion, SequenceTheorems, FiniteSetTheorems, TLAPS

Registers == [a0 : Int, a1 : Int, v0 : Int, ra : Int, t0 : Int, t1 : Int, t3 : Int]
Link == Node \cup {NULL}
BSTNode == [key : Int, left : Link, right : Link]

Functions == {"none", "init", "search", "count", "in order", "pre order", "insert"}

TypeOK ==
  /\ pc \in Int
  /\ regs \in Registers
  /\ stack \in Seq(Int) /\ console \in Seq(Int)
  /\ memory \in [Node -> BSTNode]
  /\ root \in Link
  /\ keys \in Seq(Keys) /\ Len(keys) <= Nodes
  /\ call \in [fn : Functions, node : Link, key : Keys]

-----------------------------------------------------------------------------
(* The control flow: which code runs for which call, and the return         *)
(* addresses in the stack.                                                  *)

AfterCount == {AfterCountLeft, AfterCountRight}
AfterInOrder == {AfterInOrderLeft, AfterInOrderRight}
AfterPreOrder == {AfterPreOrderLeft, AfterPreOrderRight}
AfterInsert == {AfterInsertLeft, AfterInsertRight}

\* The stack consists of frames of so many words whose last one is a return
\* address: a line after a recursive call, in the outermost frame the caller.
Frames(s, words, lines) ==
  /\ Len(s) % words = 0
  /\ \A i \in 1 .. Len(s) :
       i % words = 0 => IF i = Len(s) THEN s[i] = Caller(4) ELSE s[i] \in lines

\* At the entry of a recursive function, and after a recursive call.
Recursive(entry, words, lines) ==
  /\ pc = entry =>
       IF stack = << >> THEN regs.ra = Caller(4) ELSE regs.ra \in lines
  /\ pc \in lines => stack # << >>
  /\ pc \in {entry} \cup lines => Frames(stack, words, lines)

ControlFlow ==
  /\ pc \in {Caller(4), bst_init_node, bst_search, LOOP_BSTSEARCH} =>
       stack = << >> /\ regs.ra = Caller(4)
  /\ Recursive(bst_count, 3, AfterCount)
  /\ Recursive(bst_in_order_traversal, 4, AfterInOrder)
  /\ Recursive(bst_pre_order_traversal, 4, AfterPreOrder)
  /\ Recursive(bst_insert, 3, AfterInsert)

\* The code that runs is the one of the function called.
InFunction ==
  /\ call.fn = "none" <=> call = NoCall
  /\ \/ pc = Caller(4)
     \/ call.fn = "init" /\ pc \in {bst_init_node, bst_search, LOOP_BSTSEARCH}
     \/ call.fn = "search" /\ pc \in {bst_search, LOOP_BSTSEARCH}
     \/ call.fn = "count" /\ pc \in {bst_count} \cup AfterCount
     \/ call.fn = "in order" /\ pc \in {bst_in_order_traversal} \cup AfterInOrder
     \/ call.fn = "pre order" /\ pc \in {bst_pre_order_traversal} \cup AfterPreOrder
     \/ call.fn = "insert" /\ pc \in {bst_insert} \cup AfterInsert

\* The nodes that are in the frames and registers, where the code uses them.
\* line is where the innermost recursion returns.
CountWords(s, line) ==
  \A k \in Nat \ {0} :
    3 * k <= Len(s) /\ (IF k = 1 THEN line ELSE s[3 * k - 3]) = AfterCountLeft
      => s[3 * k - 2] \in Link
TraversalWords(s) == \A k \in Nat \ {0} : 4 * k <= Len(s) => s[4 * k - 3] \in Link
InsertWords(s) ==
  \A k \in Nat \ {0} :
    3 * k <= Len(s) => s[3 * k - 2] \in Link /\ s[3 * k - 1] \in Node

Operands ==
  /\ pc = bst_init_node => regs.a0 \in Node
  /\ pc \in {bst_search, bst_count, bst_in_order_traversal, bst_pre_order_traversal,
             bst_insert} => regs.a0 \in Link
  /\ pc = LOOP_BSTSEARCH => regs.t0 \in Link
  /\ pc = bst_count => CountWords(stack, regs.ra)
  /\ pc \in AfterCount => CountWords(stack, pc)
  /\ pc \in {bst_in_order_traversal, bst_pre_order_traversal} \cup AfterInOrder
            \cup AfterPreOrder => TraversalWords(stack)
  /\ pc \in {bst_insert} \cup AfterInsert => InsertWords(stack)
  /\ pc = bst_insert => regs.a1 \in Link
  /\ pc \in AfterInsert \/ (Returned /\ call.fn = "insert") => regs.v0 \in Link

Control == TypeOK /\ ControlFlow /\ InFunction /\ Operands

-----------------------------------------------------------------------------
(* The tree, in any memory. *)

\* The nodes below a node: the least set that is closed under taking children.
Kids(heap, n) == {heap[n].left, heap[n].right} \ {NULL}

Below(heap, n) ==
  LET within[depth \in 0 .. Nodes] ==
        IF depth = 0 THEN {n} \ {NULL}
        ELSE within[depth - 1] \cup UNION {Kids(heap, m) : m \in within[depth - 1]}
  IN  within[Nodes]

\* The nodes 1 .. size are a tree: they hang below older ones, ...
Links(heap, size) == \A n \in 1 .. size : Kids(heap, n) \subseteq n + 1 .. size
\* ... each but the first below exactly one, ...
OneParent(heap, size) ==
  /\ \A n \in 1 .. size : heap[n].left # heap[n].right \/ heap[n].left = NULL
  /\ \A n, m \in 1 .. size : n # m => Kids(heap, n) \cap Kids(heap, m) = {}
  /\ \A m \in 2 .. size : \E n \in 1 .. size : m \in Kids(heap, n)
\* ... and the keys are in order.
Sorted(heap, size) ==
  \A n \in 1 .. size :
    /\ \A m \in Below(heap, heap[n].left) : heap[m].key < heap[n].key
    /\ \A m \in Below(heap, heap[n].right) : heap[m].key >= heap[n].key

Shape(heap, size) == Links(heap, size) /\ OneParent(heap, size) /\ Sorted(heap, size)
First(size) == IF size = 0 THEN NULL ELSE 1

\* The node that was initialised last may not be in the tree yet.
SizeOf(heap, top, count) ==
  IF count = top \/ \E n \in 1 .. count - 1 : count \in Kids(heap, n) THEN count
  ELSE count - 1

Size == SizeOf(memory, Root, Len(keys))
Inner == 1 .. Size
IsTree == Size \in Nat /\ Shape(memory, Size) /\ Root = First(Size)

\* The node to be inserted is a leaf, once its memory is initialised.
Fresh ==
  /\ pc # bst_init_node =>
       \A n \in 1 .. Len(keys) \ Inner : memory[n].left = NULL /\ memory[n].right = NULL
  /\ pc = bst_init_node => regs.a0 = Len(keys) /\ Len(keys) \notin Inner /\ Len(keys) # 0

-----------------------------------------------------------------------------
(* An insertion in progress. *)

\* The frames of bst_insert, from the innermost: argument and parent.
Depth == Len(stack) \div 3
Parent(k) == stack[3 * k - 1]
ReturnTo(k) == stack[3 * k]

\* Which recursion is to be made for a node.
Towards(parent) ==
  IF memory[call.node].key < memory[parent].key THEN AfterInsertLeft ELSE AfterInsertRight

\* A node with this key may hang below n, as far as the nodes above n go.
FitsBelow(heap, size, n, key) ==
  \A m \in 1 .. size :
    /\ n \in Below(heap, heap[m].left) => key < heap[m].key
    /\ n \in Below(heap, heap[m].right) => key >= heap[m].key

Fits(n) == FitsBelow(memory, Size, n, memory[call.node].key)

\* Each frame is about the child of the next one.
Path ==
  /\ \A k \in 1 .. Depth : Parent(k) \in Inner
  /\ \A k \in 1 .. Depth - 1 :
       Parent(k) = memory[Parent(k + 1)][ChildField(ReturnTo(k))]
  /\ Depth > 0 => Parent(Depth) = root

\* On the way down the new node is not linked and fits where the recursion is.
Descent(line) ==
  /\ call.node \notin Inner
  /\ Depth > 0 => Fits(Parent(1)) /\ line = Towards(Parent(1))

Insertion ==
  /\ call.fn = "insert" => call.node = Len(keys) /\ Len(keys) # 0
  /\ pc \in {bst_insert} \cup AfterInsert => Path
  /\ pc = bst_insert =>
       /\ regs.a1 = call.node
       /\ regs.a0 = IF Depth = 0 THEN root ELSE memory[Parent(1)][ChildField(regs.ra)]
       /\ Descent(regs.ra)
  /\ pc \in AfterInsert =>
       \/ /\ Descent(pc) /\ regs.v0 = call.node
          /\ memory[Parent(1)][ChildField(pc)] = NULL
       \/ /\ call.node \in Inner
          /\ regs.v0 = memory[Parent(1)][ChildField(pc)]

TreeInv == Control /\ IsTree /\ Fresh /\ Insertion

-----------------------------------------------------------------------------
(* What is below a node. *)

LEMMA FromIsBelow == \A n : From(n) = Below(memory, n)
BY Zenon DEF From, Below, Children, Kids

LEMMA FromNextIsBelow == \A n : From(n)' = Below(memory', n)
BY Zenon DEF From, Below, Children, Kids

LEMMA WithinExists ==
  ASSUME NEW heap \in [Node -> BSTNode], NEW n \in Link
  PROVE  \E w \in [Nat -> SUBSET Node] :
           /\ w[0] = {n} \ {NULL}
           /\ \A d \in Nat : w[d + 1] = w[d] \cup UNION {Kids(heap, m) : m \in w[d]}
           /\ Below(heap, n) = w[Nodes]
<1> DEFINE Sets == SUBSET Node
           start == {n} \ {NULL}
           Step(s) == s \cup UNION {Kids(heap, m) : m \in s}
           g == [d \in Nat |-> [s \in Sets |-> Step(s)]]
           Body(w) == [depth \in 0 .. Nodes |->
                         IF depth = 0 THEN start ELSE Step(w[depth - 1])]
           within == CHOOSE w : w = Body(w)
<1>1. start \in Sets
  BY DEF Link
<1>2. \A s \in Sets : Step(s) \in Sets
  BY DEF Kids, BSTNode, Link
<1>3. g \in [Nat -> [Sets -> Sets]]
  BY <1>2, Zenon
<1>4. \A d \in Nat, s \in Sets : g[d][s] = Step(s)
  BY Zenon
<1> HIDE DEF start, g, Step, Sets
<1>5. PICK w : SolvesRecursion(w, Sets, start, g)
  BY <1>1, <1>3, RecursiveFunction
<1> USE DEF SolvesRecursion
<1>6. \A d \in Nat : w[d + 1] = Step(w[d])
  BY <1>4, <1>5, Zenon
<1> DEFINE v == [d \in 0 .. Nodes |-> w[d]]
<1>7. v = Body(v)
  <2>1. ASSUME NEW d \in 0 .. Nodes, d # 0
        PROVE  v[d] = Step(v[d - 1])
    <3>1. d - 1 \in Nat /\ d - 1 \in 0 .. Nodes /\ (d - 1) + 1 = d
      BY <2>1, NodesAssumption, SMT
    <3> QED
      BY <3>1, <1>6, Zenon
  <2>2. v[0] = start
    BY <1>5, NodesAssumption, SMT
  <2> QED
    BY <2>1, <2>2, Zenon
<1>8. within = Body(within)
  <2> HIDE DEF Body, v
  <2> QED
    BY <1>7, Zenon
<1> HIDE DEF within
<1> DEFINE P == {d \in Nat : d \in 0 .. Nodes => within[d] = w[d]}
<1>9. 0 \in P
  BY <1>5, <1>8, NodesAssumption, SMT
<1>10. ASSUME NEW d \in Nat, d \in P PROVE d + 1 \in P
  <2>1. CASE d + 1 \in 0 .. Nodes
    <3>1. d \in 0 .. Nodes /\ d + 1 # 0 /\ (d + 1) - 1 = d
      BY <2>1, NodesAssumption, SMT
    <3>2. within[d + 1] = Step(within[d])
      BY <2>1, <3>1, <1>8, Zenon
    <3>3. d + 1 \in Nat /\ within[d] = w[d]
      BY <1>10, <3>1, SMT
    <3>4. w[d + 1] = Step(w[d])
      BY <1>6, Zenon
    <3> QED
      BY <3>2, <3>3, <3>4, Zenon
  <2>2. CASE d + 1 \notin 0 .. Nodes
    BY <2>2, SMT
  <2> QED
    BY <2>1, <2>2
<1>11. within[Nodes] = w[Nodes]
  <2>1. Nat \subseteq P
    <3> HIDE DEF P
    <3> QED
      BY <1>9, <1>10, SetInduction
  <2> QED
    BY <2>1, NodesAssumption, SMT
<1>12. Below(heap, n) = within[Nodes]
  BY Zenon DEF Below, within, Step, start
<1> QED
  BY <1>5, <1>6, <1>11, <1>12, Zenon DEF Step, start, Sets

LEMMA BelowNull == ASSUME NEW heap \in [Node -> BSTNode] PROVE Below(heap, NULL) = {}
<1>1. NULL \in Link
  BY DEF Link
<1>2. PICK w \in [Nat -> SUBSET Node] :
        /\ w[0] = {NULL} \ {NULL}
        /\ \A d \in Nat : w[d + 1] = w[d] \cup UNION {Kids(heap, m) : m \in w[d]}
        /\ Below(heap, NULL) = w[Nodes]
  BY <1>1, WithinExists
<1> DEFINE P == {d \in Nat : w[d] = {}}
<1>3. 0 \in P
  BY <1>2
<1>4. \A d \in Nat : d \in P => d + 1 \in P
  BY <1>2, SMT
<1>5. Nodes \in P
  <2> HIDE DEF P
  <2> QED
    BY <1>3, <1>4, SetInduction, NodesAssumption
<1> QED
  BY <1>2, <1>5

\* What is below a node of the tree, and that it is the least such set.
LEMMA BelowLeast ==
  ASSUME NEW heap \in [Node -> BSTNode], NEW size \in 0 .. Nodes, Links(heap, size),
         NEW n \in 1 .. size
  PROVE  /\ n \in Below(heap, n) /\ Below(heap, n) \subseteq n .. size
         /\ \A i \in Below(heap, n) : Kids(heap, i) \subseteq Below(heap, n)
         /\ \A T : /\ n \in T
                   /\ \A i \in T : i \in 1 .. size => Kids(heap, i) \subseteq T
                   => Below(heap, n) \subseteq T
<1>1. n \in Link /\ n # NULL
  BY NodesAssumption DEF Link, Node, NULL
<1>2. PICK w \in [Nat -> SUBSET Node] :
        /\ w[0] = {n} \ {NULL}
        /\ \A d \in Nat : w[d + 1] = w[d] \cup UNION {Kids(heap, m) : m \in w[d]}
        /\ Below(heap, n) = w[Nodes]
  BY <1>1, WithinExists
<1>3. \A d \in Nat : \A m \in w[d] : Kids(heap, m) \subseteq w[d + 1]
  BY <1>2
<1>4. \A a, b \in Nat : a <= b => w[a] \subseteq w[b]
  <2> DEFINE P == {k \in Nat : \A a \in Nat : w[a] \subseteq w[a + k]}
  <2>1. 0 \in P
    BY SMT
  <2>2. ASSUME NEW k \in Nat, k \in P PROVE k + 1 \in P
    <3>1. \A a \in Nat : w[a + k] \subseteq w[(a + k) + 1]
      BY <1>2, SMT
    <3>2. \A a \in Nat : (a + k) + 1 = a + (k + 1)
      BY SMT
    <3> QED
      BY <2>2, <3>1, <3>2
  <2>3. Nat \subseteq P
    <3> HIDE DEF P
    <3> QED
      BY <2>1, <2>2, SetInduction
  <2>4. ASSUME NEW a \in Nat, NEW b \in Nat, a <= b PROVE w[a] \subseteq w[b]
    <3>1. b - a \in P /\ a + (b - a) = b
      BY <2>3, <2>4, SMT
    <3> QED
      BY <3>1
  <2> QED
    BY <2>4
\* A node is reached after at most as many steps as its address is away.
<1>5. \A d \in Nat : \A i \in w[d] : i \in n .. size /\ i \in w[i - n]
  <2> DEFINE P == {d \in Nat : \A i \in w[d] : i \in n .. size /\ i \in w[i - n]}
  <2>1. 0 \in P
    BY <1>1, <1>2, SMT
  <2>2. ASSUME NEW d \in Nat, d \in P, NEW i \in w[d + 1]
        PROVE  i \in n .. size /\ i \in w[i - n]
    <3>1. CASE i \in w[d]
      BY <2>2, <3>1
    <3>2. CASE i \notin w[d]
      <4>1. PICK m \in w[d] : i \in Kids(heap, m)
        BY <1>2, <3>2
      <4>2. m \in n .. size /\ m \in w[m - n]
        BY <2>2
      <4>3. i \in m + 1 .. size
        BY <4>1, <4>2 DEF Links
      <4>4. i \in w[(m - n) + 1]
        BY <4>1, <4>2, <1>3, SMT
      <4>5. (m - n) + 1 \in Nat /\ i - n \in Nat /\ (m - n) + 1 <= i - n
        BY <4>2, <4>3, SMT
      <4> QED
        BY <4>2, <4>3, <4>4, <4>5, <1>4, SMT
    <3> QED
      BY <3>1, <3>2
  <2>3. Nat \subseteq P
    <3>1. \A d \in Nat : d \in P => d + 1 \in P
      BY <2>2
    <3> HIDE DEF P
    <3> QED
      BY <2>1, <3>1, SetInduction
  <2> QED
    BY <2>3
<1>6. n \in w[Nodes]
  BY <1>1, <1>2, <1>4, NodesAssumption, SMT
<1>7. ASSUME NEW i \in w[Nodes], NEW k \in Kids(heap, i)
      PROVE  k \in w[Nodes]
  <2>1. i \in n .. size /\ i \in w[i - n]
    BY <1>5, NodesAssumption
  <2>2. k \in i + 1 .. size
    BY <2>1 DEF Links
  <2>3. k \in w[(i - n) + 1]
    BY <1>3, <2>1, SMT
  <2>4. (i - n) + 1 \in Nat /\ Nodes \in Nat /\ (i - n) + 1 <= Nodes
    BY <2>1, <2>2, NodesAssumption, SMT
  <2> QED
    BY <2>3, <2>4, <1>4
<1>8. ASSUME NEW T, n \in T, \A i \in T : i \in 1 .. size => Kids(heap, i) \subseteq T
      PROVE  w[Nodes] \subseteq T
  <2> DEFINE P == {d \in Nat : w[d] \subseteq T}
  <2>1. 0 \in P
    BY <1>2, <1>8
  <2>2. ASSUME NEW d \in Nat, d \in P PROVE w[d + 1] \subseteq T
    <3>1. \A m \in w[d] : m \in T /\ m \in 1 .. size
      BY <1>5, <2>2, SMT
    <3>2. \A m \in w[d] : Kids(heap, m) \subseteq T
      BY <3>1, <1>8
    <3> QED
      BY <2>2, <3>2, <1>2
  <2>3. \A d \in Nat : d \in P => d + 1 \in P
    BY <2>2
  <2>4. Nodes \in P
    <3> HIDE DEF P
    <3> QED
      BY <2>1, <2>3, SetInduction, NodesAssumption
  <2> QED
    BY <2>4
<1>9. w[Nodes] \subseteq n .. size
  BY <1>5, NodesAssumption
<1> QED
  BY <1>2, <1>6, <1>7, <1>8, <1>9

\* A node and what is below its children.
LEMMA BelowChildren ==
  ASSUME NEW heap \in [Node -> BSTNode], NEW size \in 0 .. Nodes, Links(heap, size),
         NEW n \in 1 .. size
  PROVE  /\ Below(heap, n) = {n} \cup Below(heap, heap[n].left) \cup Below(heap, heap[n].right)
         /\ \A k \in Kids(heap, n) : k \in 1 .. size /\ k > n
<1> DEFINE T == {n} \cup Below(heap, heap[n].left) \cup Below(heap, heap[n].right)
<1>1. \A k \in Kids(heap, n) : k \in 1 .. size /\ k > n
  BY SMT DEF Links
<1>2. \A k \in {heap[n].left, heap[n].right} : k = NULL \/ k \in Kids(heap, n)
  BY DEF Kids
<1>3. Below(heap, n) \subseteq T
  <2>1. ASSUME NEW i \in T, NEW k \in Kids(heap, i) PROVE k \in T
    <3>1. CASE i = n
      <4>1. k \in 1 .. size /\ k \in {heap[n].left, heap[n].right}
        BY <3>1, <1>1 DEF Kids
      <4>2. k \in Below(heap, k)
        BY <4>1, BelowLeast
      <4> QED
        BY <4>1, <4>2
    <3>2. CASE \E c \in {heap[n].left, heap[n].right} : i \in Below(heap, c)
      <4>1. PICK c \in {heap[n].left, heap[n].right} : i \in Below(heap, c)
        BY <3>2
      <4>2. c # NULL
        BY <4>1, BelowNull
      <4>3. c \in 1 .. size
        BY <4>1, <4>2, <1>1, <1>2
      <4>4. k \in Below(heap, c)
        BY <4>1, <4>3, BelowLeast
      <4> QED
        BY <4>1, <4>4
    <3> QED
      BY <3>1, <3>2
  <2>2. \A i \in T : i \in 1 .. size => Kids(heap, i) \subseteq T
    BY <2>1
  <2>3. n \in T
    OBVIOUS
  <2> HIDE DEF T
  <2> QED
    BY <2>2, <2>3, BelowLeast
<1>4. ASSUME NEW c \in {heap[n].left, heap[n].right}
      PROVE  Below(heap, c) \subseteq Below(heap, n)
  <2>1. CASE c = NULL
    BY <2>1, BelowNull
  <2>2. CASE c # NULL
    <3>1. c \in Kids(heap, n) /\ c \in 1 .. size
      BY <2>2, <1>1, <1>2
    <3>2. c \in Below(heap, n)
      BY <3>1, BelowLeast
    <3>3. \A i \in Below(heap, n) : i \in 1 .. size => Kids(heap, i) \subseteq Below(heap, n)
      BY BelowLeast
    <3> QED
      BY <3>1, <3>2, <3>3, BelowLeast
  <2> QED
    BY <2>1, <2>2
<1>5. n \in Below(heap, n)
  BY BelowLeast
<1> QED
  BY <1>1, <1>3, <1>4, <1>5

\* All below a node but itself have their parent there.
LEMMA BelowParent ==
  ASSUME NEW heap \in [Node -> BSTNode], NEW size \in 0 .. Nodes, Links(heap, size),
         NEW n \in 1 .. size, NEW i \in Below(heap, n), i # n
  PROVE  \E p \in Below(heap, n) : i \in Kids(heap, p)
<1> DEFINE B == Below(heap, n)
           T == {k \in B : k = n \/ \E p \in B : k \in Kids(heap, p)}
<1>1. \A k \in B : Kids(heap, k) \subseteq B
  BY BelowLeast
<1>2. n \in T
  BY BelowLeast
<1>3. \A k \in T : Kids(heap, k) \subseteq T
  BY <1>1
<1>4. B \subseteq T
  <2> HIDE DEF T
  <2> QED
    BY <1>2, <1>3, BelowLeast
<1> QED
  BY <1>4

\* The first node is the root of all.
LEMMA BelowFirst ==
  ASSUME NEW heap \in [Node -> BSTNode], NEW size \in 1 .. Nodes, Links(heap, size),
         \A m \in 2 .. size : \E n \in 1 .. size : m \in Kids(heap, n)
  PROVE  Below(heap, 1) = 1 .. size
<1>1. size \in 0 .. Nodes /\ 1 \in 1 .. size
  BY NodesAssumption, SMT
<1>2. Below(heap, 1) \subseteq 1 .. size
  BY <1>1, BelowLeast
<1> SUFFICES ASSUME (1 .. size) \ Below(heap, 1) # {} PROVE FALSE
  BY <1>2
<1>3. PICK m \in (1 .. size) \ Below(heap, 1) :
             \A k \in (1 .. size) \ Below(heap, 1) : m <= k
  <2>1. (1 .. size) \ Below(heap, 1) \in SUBSET Nat
    BY SMT
  <2> QED
    BY <2>1, SmallestElement
<1>4. m # 1
  BY <1>1, BelowLeast
<1>5. PICK n \in 1 .. size : m \in Kids(heap, n)
  BY <1>4, SMT
<1>6. n < m
  BY <1>5, SMT DEF Links
<1>7. n \in Below(heap, 1)
  BY <1>3, <1>6, SMT
<1> QED
  BY <1>1, <1>5, <1>7, BelowLeast

\* What is below a node depends on the memory of the tree only.
LEMMA BelowUnchanged ==
  ASSUME NEW heap \in [Node -> BSTNode], NEW size \in 0 .. Nodes, Links(heap, size),
         NEW next \in [Node -> BSTNode],
         \A n \in 1 .. size : next[n] = heap[n]
  PROVE  Links(next, size) /\ \A n \in 1 .. size : Below(next, n) = Below(heap, n)
<1>1. \A n \in 1 .. size : Kids(next, n) = Kids(heap, n)
  BY DEF Kids
<1>2. Links(next, size)
  BY <1>1 DEF Links
<1>3. ASSUME NEW n \in 1 .. size PROVE Below(next, n) = Below(heap, n)
  <2>1. \A i \in Below(heap, n) : i \in 1 .. size => Kids(next, i) \subseteq Below(heap, n)
    BY <1>1, BelowLeast
  <2>2. \A i \in Below(next, n) : i \in 1 .. size => Kids(heap, i) \subseteq Below(next, n)
    BY <1>1, <1>2, BelowLeast
  <2>3. n \in Below(heap, n) /\ n \in Below(next, n)
    BY <1>2, BelowLeast
  <2>4. Below(next, n) \subseteq Below(heap, n)
    BY <2>1, <2>3, <1>2, BelowLeast
  <2>5. Below(heap, n) \subseteq Below(next, n)
    BY <2>2, <2>3, BelowLeast
  <2> QED
    BY <2>4, <2>5
<1> QED
  BY <1>2, <1>3

\* A leaf is linked below a node p.
LEMMA BelowGrows ==
  ASSUME NEW heap \in [Node -> BSTNode], NEW size \in 0 .. Nodes, Links(heap, size),
         NEW next \in [Node -> BSTNode], NEW p \in 1 .. size, size + 1 \in 0 .. Nodes,
         \A n \in (1 .. size) \ {p} : Kids(next, n) = Kids(heap, n),
         Kids(next, p) = Kids(heap, p) \cup {size + 1},
         Kids(next, size + 1) = {}
  PROVE  /\ Links(next, size + 1)
         /\ \A n \in 1 .. size :
              Below(next, n) = Below(heap, n)
                               \cup (IF p \in Below(heap, n) THEN {size + 1} ELSE {})
         /\ Below(next, size + 1) = {size + 1}
<1>1. Links(next, size + 1)
  <2>1. \A n \in 1 .. size : Kids(heap, n) \subseteq n + 1 .. size
    BY DEF Links
  <2>2. \A n \in 1 .. size + 1 : n \in 1 .. size \/ n = size + 1
    BY SMT
  <2> QED
    BY <2>1, <2>2, SMT DEF Links
<1>2. ASSUME NEW n \in 1 .. size
      PROVE  Below(next, n) = Below(heap, n)
                              \cup (IF p \in Below(heap, n) THEN {size + 1} ELSE {})
  <2> DEFINE T == Below(heap, n) \cup (IF p \in Below(heap, n) THEN {size + 1} ELSE {})
  <2>1. /\ n \in Below(heap, n) /\ Below(heap, n) \subseteq 1 .. size
        /\ \A i \in Below(heap, n) : Kids(heap, i) \subseteq Below(heap, n)
    BY BelowLeast, SMT
  <2>2. n \in 1 .. size + 1
    BY SMT
  <2>3. /\ n \in Below(next, n)
        /\ \A i \in Below(next, n) : Kids(next, i) \subseteq Below(next, n)
    BY <1>1, <2>2, BelowLeast
  <2>4. \A i \in T : i \in 1 .. size + 1 => Kids(next, i) \subseteq T
    BY <2>1, SMT
  <2>5. Below(next, n) \subseteq T
    <3>1. n \in T
      BY <2>1
    <3> HIDE DEF T
    <3> QED
      BY <1>1, <2>2, <2>4, <3>1, BelowLeast
  <2>6. Below(heap, n) \subseteq Below(next, n)
    <3>1. \A i \in Below(next, n) : i \in 1 .. size => Kids(heap, i) \subseteq Below(next, n)
      BY <2>3
    <3> QED
      BY <2>3, <3>1, BelowLeast
  <2>7. p \in Below(heap, n) => size + 1 \in Below(next, n)
    BY <2>3, <2>6
  <2> QED
    BY <2>5, <2>6, <2>7
<1>3. Below(next, size + 1) = {size + 1}
  <2>1. size + 1 \in 1 .. size + 1
    BY SMT
  <2>2. Below(next, size + 1) \subseteq size + 1 .. size + 1
    BY <1>1, <2>1, BelowLeast
  <2>3. size + 1 \in Below(next, size + 1)
    BY <1>1, <2>1, BelowLeast
  <2> QED
    BY <2>2, <2>3, SMT
<1> QED
  BY <1>1, <1>2, <1>3

-----------------------------------------------------------------------------
(* Pushes and pops. *)

LEMMA PushedWords ==
  ASSUME NEW s \in Seq(Int), NEW w \in Seq(Int)
  PROVE  /\ w \o s \in Seq(Int)
         /\ Len(w \o s) = Len(w) + Len(s)
         /\ \A i \in 1 .. Len(w) : (w \o s)[i] = w[i]
         /\ \A i \in 1 .. Len(s) : (w \o s)[i + Len(w)] = s[i]
BY ConcatProperties, SMT

LEMMA PoppedWords ==
  ASSUME NEW s \in Seq(Int), NEW n \in 0 .. Len(s)
  PROVE  LET t == SubSeq(s, n + 1, Len(s))
         IN  /\ t \in Seq(Int)
             /\ Len(t) = Len(s) - n
             /\ \A i \in 1 .. Len(s) - n : t[i] = s[i + n]
<1>1. Len(s) \in Nat
  BY LenProperties
<1>2. \A i \in n + 1 .. Len(s) : s[i] \in Int
  BY <1>1, ElementOfSeq, SMT
<1>3. SubSeq(s, n + 1, Len(s)) \in Seq(Int)
  BY <1>1, <1>2, SubSeqProperties, SMT
<1> QED
  BY <1>1, <1>3, SubSeqProperties, SMT

LEMMA WordsModulo ==
  ASSUME NEW words \in {3, 4}, NEW n \in Nat
  PROVE  (n + words) % words = n % words
<1>1. (n + 3) % 3 = n % 3 /\ (n + 4) % 4 = n % 4
  BY SMT
<1> QED
  BY <1>1

\* A frame is pushed or popped.
LEMMA FramePushed ==
  ASSUME NEW words \in {3, 4}, NEW lines,
         NEW s \in Seq(Int), NEW w \in Seq(Int), Len(w) = words,
         Frames(s, words, lines),
         IF s = << >> THEN w[words] = Caller(4) ELSE w[words] \in lines
  PROVE  Frames(w \o s, words, lines) /\ w \o s # << >>
<1> DEFINE t == w \o s
<1>1. /\ t \in Seq(Int) /\ Len(t) = words + Len(s) /\ Len(s) \in Nat
      /\ \A i \in 1 .. words : t[i] = w[i]
      /\ \A i \in 1 .. Len(s) : t[i + words] = s[i]
  BY PushedWords, LenProperties
<1> HIDE DEF t
<1>2. t # << >>
  BY <1>1, SMT
<1>3. Len(t) % words = 0
  <2>1. Len(t) = Len(s) + words
    BY <1>1, SMT
  <2>2. Len(s) % words = 0 /\ Len(s) \in Nat
    BY <1>1, Zenon DEF Frames
  <2> QED
    BY <2>1, <2>2, WordsModulo, Zenon
<1>4. ASSUME NEW i \in 1 .. Len(t), i % words = 0
      PROVE  IF i = Len(t) THEN t[i] = Caller(4) ELSE t[i] \in lines
  <2>1. CASE i <= words
    <3>1. i = words
      BY <1>4, <2>1, SMTT(30)
    <3>2. t[i] = w[words]
      BY <1>1, <3>1, SMT
    <3>3. i = Len(t) <=> s = << >>
      BY <1>1, <3>1, SMT
    <3> QED
      BY <3>2, <3>3
  <2>2. CASE i > words
    <3>0. i - words \in 1 .. Len(s) /\ i - words \in Nat /\ (i - words) + words = i
      <4>1. words \in Nat /\ Len(t) \in Nat /\ i \in Nat /\ i <= words + Len(s)
        BY <1>1, SMT
      <4> QED
        BY <4>1, <1>1, <2>2, SMTT(30)
    <3>1. (i - words) % words = 0
      <4> DEFINE n == i - words
      <4>1. n \in Nat /\ n + words = i
        BY <3>0
      <4> HIDE DEF n
      <4>2. (n + words) % words = n % words
        BY <4>1, WordsModulo
      <4>3. n % words = 0
        BY <1>4, <4>1, <4>2
      <4> QED
        BY <4>3 DEF n
    <3>2. t[i] = s[i - words]
      BY <1>1, <3>0
    <3>3. i = Len(t) <=> i - words = Len(s)
      BY <1>1, SMT
    <3> QED
      BY <3>0, <3>1, <3>2, <3>3 DEF Frames
  <2> QED
    BY <2>1, <2>2, SMT
<1> QED
  BY <1>2, <1>3, <1>4 DEF Frames, t

LEMMA FramePopped ==
  ASSUME NEW words \in {3, 4}, NEW lines,
         NEW s \in Seq(Int), s # << >>, Frames(s, words, lines)
  PROVE  LET t == SubSeq(s, words + 1, Len(s))
         IN  /\ words <= Len(s)
             /\ t \in Seq(Int)
             /\ Frames(t, words, lines)
             /\ IF t = << >> THEN s[words] = Caller(4) ELSE s[words] \in lines
<1> DEFINE t == SubSeq(s, words + 1, Len(s))
<1>1. Len(s) \in Nat /\ Len(s) # 0
  BY EmptySeq, SMT
<1>2. words <= Len(s)
  BY <1>1, SMT DEF Frames
<1>3. /\ t \in Seq(Int) /\ Len(t) = Len(s) - words
      /\ \A i \in 1 .. Len(s) - words : t[i] = s[i + words]
  BY <1>1, <1>2, PoppedWords, SMT
<1> HIDE DEF t
<1>4. Frames(t, words, lines)
  <2>1. Len(t) % words = 0
    <3>1. Len(t) \in Nat /\ Len(t) + words = Len(s)
      BY <1>1, <1>2, <1>3, SMT
    <3>2. Len(s) % words = 0
      BY Zenon DEF Frames
    <3> QED
      BY <3>1, <3>2, WordsModulo, Zenon
  <2>2. ASSUME NEW i \in 1 .. Len(t), i % words = 0
        PROVE  IF i = Len(t) THEN t[i] = Caller(4) ELSE t[i] \in lines
    <3>1. i + words \in 1 .. Len(s) /\ (i + words) % words = 0
      <4>1. i + words \in 1 .. Len(s) /\ i \in Nat
        BY <1>1, <1>3, SMT
      <4> QED
        BY <4>1, <2>2, WordsModulo
    <3>2. i = Len(t) <=> i + words = Len(s)
      BY <1>1, <1>3, SMT
    <3>3. t[i] = s[i + words]
      BY <1>3, SMT
    <3> QED
      BY <3>1, <3>2, <3>3 DEF Frames
  <2> QED
    BY <2>1, <2>2 DEF Frames
<1>5. IF t = << >> THEN s[words] = Caller(4) ELSE s[words] \in lines
  <2>1. t = << >> <=> Len(s) = words
    BY <1>1, <1>3, EmptySeq, SMT
  <2>2. words \in 1 .. Len(s) /\ words % words = 0
    BY <1>1, <1>2, SMT
  <2> QED
    BY <2>1, <2>2 DEF Frames
<1> QED
  BY <1>2, <1>3, <1>4, <1>5 DEF t

\* The words of the stack after a push or a pop of three or four words.
LEMMA FrameOfThree ==
  ASSUME NEW s \in Seq(Int), NEW a \in Int, NEW b \in Int, NEW c \in Int
  PROVE  LET t == <<a, b, c>> \o s
         IN  /\ t \in Seq(Int) /\ Len(t) = Len(s) + 3
             /\ t[1] = a /\ t[2] = b /\ t[3] = c
             /\ \A i \in 1 .. Len(s) : t[i + 3] = s[i]
<1>1. <<a, b, c>> \in Seq(Int) /\ Len(<<a, b, c>>) = 3
  BY SMT
<1>2. Len(s) \in Nat
  BY LenProperties
<1> QED
  BY <1>1, <1>2, PushedWords, SMT

LEMMA FrameOfFour ==
  ASSUME NEW s \in Seq(Int), NEW a \in Int, NEW b \in Int, NEW c \in Int, NEW d \in Int
  PROVE  LET t == <<a, b, c, d>> \o s
         IN  /\ t \in Seq(Int) /\ Len(t) = Len(s) + 4
             /\ t[1] = a /\ t[2] = b /\ t[3] = c /\ t[4] = d
             /\ \A i \in 1 .. Len(s) : t[i + 4] = s[i]
<1>1. <<a, b, c, d>> \in Seq(Int) /\ Len(<<a, b, c, d>>) = 4
  BY SMT
<1>2. Len(s) \in Nat
  BY LenProperties
<1> QED
  BY <1>1, <1>2, PushedWords, SMT

\* Offsets from the stack pointer.
LEMMA Offsets ==
  /\ AtSP(0) = stack[1] /\ AtSP(4) = stack[2] /\ AtSP(8) = stack[3] /\ AtSP(12) = stack[4]
  /\ Popped(12) = SubSeq(stack, 3 + 1, Len(stack))
  /\ Popped(16) = SubSeq(stack, 4 + 1, Len(stack))
BY SMT DEF AtSP, Popped

-----------------------------------------------------------------------------
(* Control: each action in turn. *)

LEMMA NoCallType == NoCall \in [fn : Functions, node : Link, key : Keys] /\ NoCall.fn = "none"
<1>1. (CHOOSE k \in Keys : TRUE) \in Keys
  BY KeysAssumption
<1> QED
  BY <1>1 DEF NoCall, Functions, Link

LEMMA InitControl == Init => Control
<1> SUFFICES ASSUME Init PROVE Control
  OBVIOUS
<1> USE DEF Init, NoRegs, Junk, Caller, Line, bst_init_node, bst_search, LOOP_BSTSEARCH, bst_count, AfterCountLeft,
           AfterCountRight, bst_in_order_traversal, AfterInOrderLeft, AfterInOrderRight,
           bst_pre_order_traversal, AfterPreOrderLeft, AfterPreOrderRight, bst_insert,
           AfterInsertLeft, AfterInsertRight, AfterCount, AfterInOrder, AfterPreOrder,
           AfterInsert
<1>1. TypeOK
  <2>1. memory \in [Node -> BSTNode]
    BY NodesAssumption, SMT DEF BSTNode, Link, Node
  <2>2. 0 \in Link /\ keys \in Seq(Keys) /\ Len(keys) <= Nodes /\ stack \in Seq(Int)
    BY NodesAssumption, SMT DEF Link, NULL
  <2> QED
    BY <2>1, <2>2, NoCallType DEF TypeOK, NULL, Registers
<1>2. pc = 4000 /\ stack = << >> /\ regs.ra = 4000 /\ call = NoCall
  BY SMT
<1>3. ControlFlow /\ InFunction /\ Operands
  BY <1>2, NoCallType, SMT DEF ControlFlow, Recursive, InFunction, Operands, Returned
<1> QED
  BY <1>1, <1>3 DEF Control

LEMMA LinkType == Link \subseteq Int /\ NULL \in Link /\ Node \subseteq Link
BY NodesAssumption, SMT DEF Link, Node, NULL

\* The code of asm4.s changes pc, registers, stack, console and memory.
LEMMA TypeStep ==
  ASSUME TypeOK, UNCHANGED <<root, keys, call>>, pc' \in Int, regs' \in Registers,
         stack' \in Seq(Int), console' \in Seq(Int), memory' \in [Node -> BSTNode]
  PROVE  TypeOK'
BY DEF TypeOK

LEMMA Types ==
  ASSUME TypeOK
  PROVE  /\ pc \in Int /\ regs \in Registers
         /\ stack \in Seq(Int) /\ console \in Seq(Int) /\ memory \in [Node -> BSTNode]
         /\ regs.a0 \in Int /\ regs.a1 \in Int /\ regs.v0 \in Int /\ regs.ra \in Int
         /\ \A n \in Node : /\ memory[n].key \in Int
                            /\ memory[n].left \in Link /\ memory[n].right \in Link
<1>1. regs \in Registers /\ memory \in [Node -> BSTNode]
  BY DEF TypeOK
<1>2. regs.a0 \in Int /\ regs.a1 \in Int /\ regs.v0 \in Int /\ regs.ra \in Int
  BY <1>1 DEF Registers
<1>3. \A n \in Node : /\ memory[n].key \in Int
                      /\ memory[n].left \in Link /\ memory[n].right \in Link
  BY <1>1 DEF BSTNode
<1> QED
  BY <1>1, <1>2, <1>3 DEF TypeOK

\* The code of bst_init_node and bst_search, which uses no stack.
LEMMA SearchControl ==
  Control /\ (InitNode \/ Search \/ SearchReturns \/ SearchDescends) => Control'
<1> SUFFICES ASSUME Control PROVE InitNode \/ Search \/ SearchReturns \/ SearchDescends => Control'
  OBVIOUS
<1> USE DEF Caller, Line, bst_init_node, bst_search, LOOP_BSTSEARCH, bst_count, AfterCountLeft,
           AfterCountRight, bst_in_order_traversal, AfterInOrderLeft, AfterInOrderRight,
           bst_pre_order_traversal, AfterPreOrderLeft, AfterPreOrderRight, bst_insert,
           AfterInsertLeft, AfterInsertRight, AfterCount, AfterInOrder, AfterPreOrder,
           AfterInsert
<1>0. TypeOK /\ ControlFlow /\ InFunction /\ Operands
  BY DEF Control
<1>a. /\ stack \in Seq(Int) /\ console \in Seq(Int) /\ memory \in [Node -> BSTNode]
      /\ pc \in Int
  BY <1>0, Types
<1>b. regs \in Registers
  BY <1>0, Types
<1>1. ASSUME InitNode PROVE Control'
  <2>1. /\ pc = bst_init_node /\ pc' = bst_search
        /\ memory' = [memory EXCEPT ![regs.a0] = [key |-> regs.a1, left |-> NULL, right |-> NULL]]
        /\ UNCHANGED <<regs, stack, console, root, keys, call>>
    BY <1>1 DEF InitNode
  <2>2. regs.a0 \in Node /\ regs.a1 \in Int
    BY <1>0, <2>1, Types DEF Operands
  <2>3. memory' \in [Node -> BSTNode]
    BY <1>a, <2>1, <2>2 DEF BSTNode, Link
  <2>4. TypeOK'
    BY <1>0, <1>a, <1>b, <2>1, <2>3, TypeStep
  <2>5. stack' = << >> /\ regs'.ra = 4000 /\ call'.fn = "init"
    BY <1>0, <2>1 DEF ControlFlow, InFunction
  <2>6. ControlFlow' /\ InFunction'
    BY <1>0, <2>1, <2>5, SMT DEF ControlFlow, Recursive, InFunction
  <2>7. Operands'
    <3>1. regs'.a0 \in Link /\ pc' = bst_search
      BY <2>1, <2>2, LinkType
    <3> QED
      BY <3>1, SMT DEF Operands, Returned
  <2> QED
    BY <2>4, <2>6, <2>7 DEF Control
<1>2. ASSUME Search PROVE Control'
  <2>1. /\ pc = bst_search /\ pc' = LOOP_BSTSEARCH
        /\ regs' = [regs EXCEPT !.t0 = regs.a0]
        /\ UNCHANGED <<stack, console, memory, root, keys, call>>
    BY <1>2 DEF Search
  <2>2. regs.a0 \in Link
    BY <1>0, <2>1 DEF Operands
  <2>3. regs' \in Registers /\ regs'.t0 = regs.a0 /\ regs'.ra = regs.ra
    BY <1>b, <2>1 DEF Registers
  <2>4. TypeOK'
    BY <1>0, <1>a, <1>b, <2>1, <2>3, TypeStep
  <2>5. stack' = << >> /\ regs'.ra = 4000
    BY <1>0, <2>1, <2>3 DEF ControlFlow
  <2>6. ControlFlow' /\ InFunction'
    BY <1>0, <2>1, <2>5, SMT DEF ControlFlow, Recursive, InFunction
  <2>7. Operands'
    BY <2>1, <2>2, <2>3, SMT DEF Operands, Returned
  <2> QED
    BY <2>4, <2>6, <2>7 DEF Control
<1>3. ASSUME SearchReturns PROVE Control'
  <2>1. /\ pc = LOOP_BSTSEARCH /\ pc' = regs'.ra
        /\ regs' = [regs EXCEPT !.v0 = regs.t0]
        /\ UNCHANGED <<stack, console, memory, root, keys, call>>
    BY <1>3 DEF SearchReturns, JrRa
  <2>2. regs' \in Registers /\ regs'.ra = regs.ra
    BY <1>b, <2>1 DEF Registers
  <2>3. stack' = << >> /\ regs'.ra = 4000 /\ pc' = 4000
    BY <1>0, <2>1, <2>2 DEF ControlFlow
  <2>4. TypeOK'
    BY <1>0, <1>a, <1>b, <2>1, <2>2, <2>3, TypeStep
  <2>5. call.fn \in {"init", "search"}
    BY <1>0, <2>1 DEF InFunction
  <2>6. ControlFlow' /\ InFunction'
    <3>1. call' = call /\ (call.fn = "none" <=> call = NoCall)
      BY <1>0, <2>1 DEF InFunction
    <3>2. NoCall' = NoCall
      BY DEF NoCall
    <3> QED
      BY <3>1, <3>2, <2>3, SMT DEF ControlFlow, Recursive, InFunction
  <2>7. Operands'
    BY <2>1, <2>3, <2>5, SMT DEF Operands, Returned
  <2> QED
    BY <2>4, <2>6, <2>7 DEF Control
<1>4. ASSUME SearchDescends PROVE Control'
  <2>1. /\ pc = LOOP_BSTSEARCH /\ regs.t0 # NULL
        /\ regs' = [regs EXCEPT !.t0 = ChildTowards(regs.t0, regs.a1)]
        /\ UNCHANGED <<pc, stack, console, memory, root, keys, call>>
    BY <1>4 DEF SearchDescends
  <2>2. ChildTowards(regs.t0, regs.a1) \in Link
    <3>1. regs.t0 \in Node
      BY <1>0, <2>1 DEF Operands, Link
    <3> QED
      BY <1>0, <3>1, Types DEF ChildTowards
  <2>3. regs' \in Registers /\ regs'.t0 \in Link /\ regs'.ra = regs.ra
    BY <1>b, <2>1, <2>2, LinkType DEF Registers
  <2>4. TypeOK'
    BY <1>0, <1>a, <1>b, <2>1, <2>3, TypeStep
  <2>5. stack' = << >> /\ regs'.ra = 4000
    BY <1>0, <2>1, <2>3 DEF ControlFlow
  <2>6. ControlFlow' /\ InFunction'
    BY <1>0, <2>1, <2>5, SMT DEF ControlFlow, Recursive, InFunction
  <2>7. Operands'
    BY <2>1, <2>3, SMT DEF Operands, Returned
  <2> QED
    BY <2>4, <2>6, <2>7 DEF Control
<1> QED
  BY <1>1, <1>2, <1>3, <1>4

\* A recursive call, or a return from one.
Recursions == {<<bst_count, 3, AfterCount>>, <<bst_in_order_traversal, 4, AfterInOrder>>,
               <<bst_pre_order_traversal, 4, AfterPreOrder>>, <<bst_insert, 3, AfterInsert>>}

LEMMA ControlFlowStep ==
  ASSUME NEW entry, NEW words, NEW lines, <<entry, words, lines>> \in Recursions,
         Frames(stack', words, lines),
         IF stack' = << >> THEN regs'.ra = Caller(4) ELSE regs'.ra \in lines,
         pc' = entry \/ pc' = regs'.ra
  PROVE  ControlFlow' /\ pc' \in {entry, Caller(4)} \cup lines /\ pc' \in Int
<1> USE DEF Caller, Line, bst_init_node, bst_search, LOOP_BSTSEARCH, bst_count, AfterCountLeft,
           AfterCountRight, bst_in_order_traversal, AfterInOrderLeft, AfterInOrderRight,
           bst_pre_order_traversal, AfterPreOrderLeft, AfterPreOrderRight, bst_insert,
           AfterInsertLeft, AfterInsertRight, AfterCount, AfterInOrder, AfterPreOrder,
           AfterInsert
<1>0. regs'.ra \in {4000} \cup lines /\ (stack' = << >> <=> regs'.ra = 4000)
      /\ pc' \in {entry, 4000} \cup lines
  BY SMT DEF Recursions
<1>1. CASE entry = bst_count /\ words = 3 /\ lines = AfterCount
  BY <1>0, <1>1, SMT DEF ControlFlow, Recursive
<1>2. CASE entry = bst_in_order_traversal /\ words = 4 /\ lines = AfterInOrder
  BY <1>0, <1>2, SMT DEF ControlFlow, Recursive
<1>3. CASE entry = bst_pre_order_traversal /\ words = 4 /\ lines = AfterPreOrder
  BY <1>0, <1>3, SMT DEF ControlFlow, Recursive
<1>4. CASE entry = bst_insert /\ words = 3 /\ lines = AfterInsert
  BY <1>0, <1>4, SMT DEF ControlFlow, Recursive
<1> QED
  BY <1>1, <1>2, <1>3, <1>4 DEF Recursions

\* What is in the frames after a push and after a pop.
LEMMA CountWordsPushed ==
  ASSUME NEW s \in Seq(Int), NEW a \in Int, NEW b \in Int, NEW c \in Int, NEW line,
         CountWords(s, c), line = AfterCountLeft => a \in Link
  PROVE  CountWords(<<a, b, c>> \o s, line)
<1> DEFINE t == <<a, b, c>> \o s
<1>1. /\ t \in Seq(Int) /\ Len(t) = Len(s) + 3 /\ t[1] = a /\ t[3] = c /\ Len(s) \in Nat
      /\ \A i \in 1 .. Len(s) : t[i + 3] = s[i]
  BY FrameOfThree, LenProperties, SMTT(30)
<1> HIDE DEF t
<1>2. ASSUME NEW k \in Nat \ {0}, 3 * k <= Len(t),
             (IF k = 1 THEN line ELSE t[3 * k - 3]) = AfterCountLeft
      PROVE  t[3 * k - 2] \in Link
  <2>1. CASE k = 1
    BY <1>1, <1>2, <2>1, SMT
  <2>2. CASE k # 1
    <3>1. k - 1 \in Nat \ {0} /\ 3 * (k - 1) <= Len(s)
      BY <1>1, <1>2, <2>2, SMT
    <3>2. t[3 * k - 2] = s[3 * (k - 1) - 2]
      <4>1. 3 * (k - 1) - 2 \in 1 .. Len(s) /\ (3 * (k - 1) - 2) + 3 = 3 * k - 2
        BY <3>1, <1>1, SMT
      <4> QED
        BY <4>1, <1>1
    <3>3. (IF k - 1 = 1 THEN c ELSE s[3 * (k - 1) - 3]) = AfterCountLeft
      <4>1. CASE k = 2
        BY <4>1, <1>1, <1>2, SMT
      <4>2. CASE k # 2
        <5>1. 3 * (k - 1) - 3 \in 1 .. Len(s) /\ (3 * (k - 1) - 3) + 3 = 3 * k - 3
          BY <3>1, <4>2, <2>2, <1>1, SMT
        <5>2. t[3 * k - 3] = s[3 * (k - 1) - 3]
          BY <5>1, <1>1
        <5>3. k - 1 # 1
          BY <4>2, SMT
        <5> QED
          BY <5>2, <5>3, <1>2, <2>2
      <4> QED
        BY <4>1, <4>2
    <3> QED
      BY <3>1, <3>2, <3>3 DEF CountWords
  <2> QED
    BY <2>1, <2>2
<1> QED
  BY <1>2 DEF CountWords, t

LEMMA CountWordsPopped ==
  ASSUME NEW s \in Seq(Int), 3 <= Len(s), NEW line, CountWords(s, line)
  PROVE  /\ CountWords(SubSeq(s, 4, Len(s)), s[3])
         /\ line = AfterCountLeft => s[1] \in Link
<1> DEFINE t == SubSeq(s, 4, Len(s))
<1>1. /\ t \in Seq(Int) /\ Len(t) = Len(s) - 3 /\ Len(s) \in Nat
      /\ \A i \in 1 .. Len(s) - 3 : t[i] = s[i + 3]
  <2>1. Len(s) \in Nat /\ 3 \in 0 .. Len(s)
    BY LenProperties, SMT
  <2>2. t = SubSeq(s, 3 + 1, Len(s))
    BY SMT
  <2> HIDE DEF t
  <2> QED
    BY <2>1, <2>2, PoppedWords
<1> HIDE DEF t
<1>2. ASSUME NEW k \in Nat \ {0}, 3 * k <= Len(t),
             (IF k = 1 THEN s[3] ELSE t[3 * k - 3]) = AfterCountLeft
      PROVE  t[3 * k - 2] \in Link
  <2>1. k + 1 \in Nat \ {0} /\ 3 * (k + 1) <= Len(s) /\ k + 1 # 1
    BY <1>1, <1>2, SMT
  <2>2. t[3 * k - 2] = s[3 * (k + 1) - 2]
    <3>1. 3 * k - 2 \in 1 .. Len(s) - 3 /\ (3 * k - 2) + 3 = 3 * (k + 1) - 2
      BY <1>1, <1>2, SMT
    <3> QED
      BY <3>1, <1>1
  <2>3. s[3 * (k + 1) - 3] = AfterCountLeft
    <3>1. CASE k = 1
      BY <3>1, <1>2, SMT
    <3>2. CASE k # 1
      <4>1. 3 * k - 3 \in 1 .. Len(s) - 3 /\ (3 * k - 3) + 3 = 3 * (k + 1) - 3
        BY <1>1, <1>2, <3>2, SMT
      <4> QED
        BY <4>1, <1>1, <1>2, <3>2
    <3> QED
      BY <3>1, <3>2
  <2> QED
    BY <2>1, <2>2, <2>3 DEF CountWords
<1>3. line = AfterCountLeft => s[1] \in Link
  <2>1. 1 \in Nat \ {0} /\ 3 * 1 <= Len(s) /\ 3 * 1 - 2 = 1
    BY SMT
  <2> QED
    BY <2>1 DEF CountWords
<1> QED
  BY <1>2, <1>3 DEF CountWords, t

\* The addresses of the labels.
LEMMA Labels ==
  /\ Caller(4) = 4000 /\ bst_init_node = 4034 /\ bst_search = 4062 /\ LOOP_BSTSEARCH = 4065
  /\ bst_count = 4105 /\ AfterCountLeft = 4119 /\ AfterCountRight = 4135
  /\ bst_in_order_traversal = 4166 /\ AfterInOrderLeft = 4184 /\ AfterInOrderRight = 4199
  /\ bst_pre_order_traversal = 4222 /\ AfterPreOrderLeft = 4248 /\ AfterPreOrderRight = 4255
  /\ bst_insert = 4284 /\ AfterInsertLeft = 4308 /\ AfterInsertRight = 4328
BY SMT DEF Caller, Line, bst_init_node, bst_search, LOOP_BSTSEARCH, bst_count, AfterCountLeft,
           AfterCountRight, bst_in_order_traversal, AfterInOrderLeft, AfterInOrderRight,
           bst_pre_order_traversal, AfterPreOrderLeft, AfterPreOrderRight, bst_insert,
           AfterInsertLeft, AfterInsertRight

\* The code of a function leads to its own lines, or back to the caller.
LEMMA InFunctionStep ==
  ASSUME InFunction, call' = call
  PROVE  /\ /\ pc \in {bst_count} \cup AfterCount
            /\ pc' \in {bst_count, Caller(4)} \cup AfterCount
            => InFunction' /\ call.fn = "count"
         /\ /\ pc \in {bst_in_order_traversal} \cup AfterInOrder
            /\ pc' \in {bst_in_order_traversal, Caller(4)} \cup AfterInOrder
            => InFunction' /\ call.fn = "in order"
         /\ /\ pc \in {bst_pre_order_traversal} \cup AfterPreOrder
            /\ pc' \in {bst_pre_order_traversal, Caller(4)} \cup AfterPreOrder
            => InFunction' /\ call.fn = "pre order"
         /\ /\ pc \in {bst_insert} \cup AfterInsert
            /\ pc' \in {bst_insert, Caller(4)} \cup AfterInsert
            => InFunction' /\ call.fn = "insert"
<1>1. call'.fn = "none" <=> call' = NoCall'
  <2>1. NoCall' = NoCall
    BY DEF NoCall
  <2> QED
    BY <2>1 DEF InFunction
<1> DEFINE At(a, b, c) == pc = a \/ pc = b \/ pc = c
<1>2. \/ pc = Caller(4)
      \/ call.fn = "init" /\ At(bst_init_node, bst_search, LOOP_BSTSEARCH)
      \/ call.fn = "search" /\ At(bst_search, LOOP_BSTSEARCH, LOOP_BSTSEARCH)
      \/ call.fn = "count" /\ At(bst_count, AfterCountLeft, AfterCountRight)
      \/ /\ call.fn = "in order"
         /\ At(bst_in_order_traversal, AfterInOrderLeft, AfterInOrderRight)
      \/ /\ call.fn = "pre order"
         /\ At(bst_pre_order_traversal, AfterPreOrderLeft, AfterPreOrderRight)
      \/ call.fn = "insert" /\ At(bst_insert, AfterInsertLeft, AfterInsertRight)
  BY Zenon DEF InFunction, AfterCount, AfterInOrder, AfterPreOrder, AfterInsert
<1>3. ASSUME pc \in {bst_count} \cup AfterCount PROVE call.fn = "count"
  <2>1. At(bst_count, AfterCountLeft, AfterCountRight)
    BY <1>3 DEF AfterCount
  <2>2. pc # Caller(4)
    BY <2>1, Labels, SMT
  <2>3. ~At(bst_init_node, bst_search, LOOP_BSTSEARCH)
    BY <2>1, Labels, SMT
  <2>4. ~At(bst_in_order_traversal, AfterInOrderLeft, AfterInOrderRight)
    BY <2>1, Labels, SMT
  <2>5. ~At(bst_pre_order_traversal, AfterPreOrderLeft, AfterPreOrderRight)
    BY <2>1, Labels, SMT
  <2>6. ~At(bst_insert, AfterInsertLeft, AfterInsertRight)
    BY <2>1, Labels, SMT
  <2> QED
    BY <1>2, <2>2, <2>3, <2>4, <2>5, <2>6, Zenon
<1>4. ASSUME pc \in {bst_in_order_traversal} \cup AfterInOrder PROVE call.fn = "in order"
  <2>1. At(bst_in_order_traversal, AfterInOrderLeft, AfterInOrderRight)
    BY <1>4 DEF AfterInOrder
  <2>2. pc # Caller(4)
    BY <2>1, Labels, SMT
  <2>3. ~At(bst_init_node, bst_search, LOOP_BSTSEARCH)
    BY <2>1, Labels, SMT
  <2>4. ~At(bst_count, AfterCountLeft, AfterCountRight)
    BY <2>1, Labels, SMT
  <2>5. ~At(bst_pre_order_traversal, AfterPreOrderLeft, AfterPreOrderRight)
    BY <2>1, Labels, SMT
  <2>6. ~At(bst_insert, AfterInsertLeft, AfterInsertRight)
    BY <2>1, Labels, SMT
  <2> QED
    BY <1>2, <2>2, <2>3, <2>4, <2>5, <2>6, Zenon
<1>5. ASSUME pc \in {bst_pre_order_traversal} \cup AfterPreOrder PROVE call.fn = "pre order"
  <2>1. At(bst_pre_order_traversal, AfterPreOrderLeft, AfterPreOrderRight)
    BY <1>5 DEF AfterPreOrder
  <2>2. pc # Caller(4)
    BY <2>1, Labels, SMT
  <2>3. ~At(bst_init_node, bst_search, LOOP_BSTSEARCH)
    BY <2>1, Labels, SMT
  <2>4. ~At(bst_count, AfterCountLeft, AfterCountRight)
    BY <2>1, Labels, SMT
  <2>5. ~At(bst_in_order_traversal, AfterInOrderLeft, AfterInOrderRight)
    BY <2>1, Labels, SMT
  <2>6. ~At(bst_insert, AfterInsertLeft, AfterInsertRight)
    BY <2>1, Labels, SMT
  <2> QED
    BY <1>2, <2>2, <2>3, <2>4, <2>5, <2>6, Zenon
<1>6. ASSUME pc \in {bst_insert} \cup AfterInsert PROVE call.fn = "insert"
  <2>1. At(bst_insert, AfterInsertLeft, AfterInsertRight)
    BY <1>6 DEF AfterInsert
  <2>2. pc # Caller(4)
    BY <2>1, Labels, SMT
  <2>3. ~At(bst_init_node, bst_search, LOOP_BSTSEARCH)
    BY <2>1, Labels, SMT
  <2>4. ~At(bst_count, AfterCountLeft, AfterCountRight)
    BY <2>1, Labels, SMT
  <2>5. ~At(bst_in_order_traversal, AfterInOrderLeft, AfterInOrderRight)
    BY <2>1, Labels, SMT
  <2>6. ~At(bst_pre_order_traversal, AfterPreOrderLeft, AfterPreOrderRight)
    BY <2>1, Labels, SMT
  <2> QED
    BY <1>2, <2>2, <2>3, <2>4, <2>5, <2>6, Zenon
<1> QED
  BY <1>1, <1>3, <1>4, <1>5, <1>6 DEF InFunction

LEMMA CountStep ==
  ASSUME Control, pc \in {bst_count} \cup AfterCount,
         UNCHANGED <<console, memory, root, keys, call>>,
         regs' \in Registers, stack' \in Seq(Int), pc' \in {bst_count, regs'.ra},
         Frames(stack', 3, AfterCount),
         IF stack' = << >> THEN regs'.ra = Caller(4) ELSE regs'.ra \in AfterCount,
         CountWords(stack', regs'.ra), pc' = bst_count => regs'.a0 \in Link
  PROVE  Control'
<1>0. TypeOK /\ InFunction /\ console \in Seq(Int) /\ memory \in [Node -> BSTNode]
  BY Types DEF Control
<1>1. ControlFlow' /\ pc' \in {bst_count, Caller(4)} \cup AfterCount /\ pc' \in Int
  <2>1. <<bst_count, 3, AfterCount>> \in Recursions
    BY DEF Recursions
  <2> QED
    BY <2>1, ControlFlowStep
<1>2. InFunction' /\ call.fn = "count"
  BY <1>0, <1>1, InFunctionStep
<1>3. TypeOK'
  BY <1>0, <1>1, TypeStep
<1>4. Operands'
  <2>1. pc' \in AfterCount => pc' = regs'.ra
    BY Labels DEF AfterCount
  <2>2. pc' \in {4000, 4105, 4119, 4135} /\ call'.fn = "count"
    BY <1>1, <1>2, Labels DEF AfterCount
  <2> QED
    BY <2>1, <2>2, Labels DEF Operands, AfterCount, AfterInOrder, AfterPreOrder, AfterInsert,
                              Returned
<1> QED
  BY <1>1, <1>2, <1>3, <1>4 DEF Control

\* The code of bst_count.
LEMMA CountControl ==
  Control /\ (CountNothing \/ CountLeft \/ CountRight \/ CountReturns) => Control'
<1> SUFFICES ASSUME Control PROVE CountNothing \/ CountLeft \/ CountRight \/ CountReturns => Control'
  OBVIOUS
<1>0. TypeOK /\ ControlFlow /\ Operands
  BY DEF Control
<1>a. stack \in Seq(Int) /\ regs.a0 \in Int /\ regs.v0 \in Int /\ regs.ra \in Int
  BY <1>0, Types
<1>b. regs \in Registers
  BY <1>0, Types
<1>c. pc = bst_count =>
        /\ IF stack = << >> THEN regs.ra = Caller(4) ELSE regs.ra \in AfterCount
        /\ Frames(stack, 3, AfterCount)
        /\ CountWords(stack, regs.ra) /\ regs.a0 \in Link
  BY <1>0 DEF ControlFlow, Recursive, Operands
<1>d. ASSUME pc \in AfterCount
      PROVE  /\ 3 <= Len(stack) /\ stack[1] \in Int /\ stack[2] \in Int /\ stack[3] \in Int
             /\ Popped(12) \in Seq(Int) /\ Frames(Popped(12), 3, AfterCount)
             /\ IF Popped(12) = << >> THEN stack[3] = Caller(4) ELSE stack[3] \in AfterCount
             /\ CountWords(Popped(12), stack[3])
             /\ pc = AfterCountLeft => stack[1] \in Link
  <2>1. stack # << >> /\ Frames(stack, 3, AfterCount) /\ CountWords(stack, pc)
    BY <1>0, <1>d DEF ControlFlow, Recursive, Operands
  <2>2. /\ 3 <= Len(stack)
        /\ Popped(12) \in Seq(Int) /\ Frames(Popped(12), 3, AfterCount)
        /\ IF Popped(12) = << >> THEN stack[3] = Caller(4) ELSE stack[3] \in AfterCount
    BY <1>a, <2>1, FramePopped, Offsets
  <2>3. CountWords(Popped(12), stack[3]) /\ (pc = AfterCountLeft => stack[1] \in Link)
    <3>1. Popped(12) = SubSeq(stack, 4, Len(stack))
      BY Offsets, SMT
    <3> QED
      BY <1>a, <2>1, <2>2, <3>1, CountWordsPopped
  <2>4. stack[1] \in Int /\ stack[2] \in Int /\ stack[3] \in Int
    BY <1>a, <2>2, SMTT(30)
  <2> QED
    BY <2>2, <2>3, <2>4
<1>e. ASSUME NEW s \in Seq(Int), NEW a \in Int, NEW b \in Int, NEW c \in Int,
             NEW line \in AfterCount, line = AfterCountLeft => a \in Link,
             Frames(s, 3, AfterCount), CountWords(s, c),
             IF s = << >> THEN c = Caller(4) ELSE c \in AfterCount,
             stack' = <<a, b, c>> \o s
      PROVE  /\ stack' \in Seq(Int) /\ stack' # << >>
             /\ Frames(stack', 3, AfterCount) /\ CountWords(stack', line)
  <2>1. stack' \in Seq(Int)
    BY <1>e, FrameOfThree
  <2>2. <<a, b, c>> \in Seq(Int) /\ Len(<<a, b, c>>) = 3 /\ <<a, b, c>>[3] = c
    BY SMT
  <2>3. Frames(stack', 3, AfterCount) /\ stack' # << >>
    BY <1>e, <2>2, FramePushed
  <2>4. CountWords(stack', line)
    BY <1>e, CountWordsPushed
  <2> QED
    BY <2>1, <2>3, <2>4
<1>1. ASSUME CountNothing PROVE Control'
  <2>1. /\ pc = bst_count /\ pc' = regs'.ra
        /\ regs' = [regs EXCEPT !.v0 = 0]
        /\ UNCHANGED <<stack, console, memory, root, keys, call>>
    BY <1>1 DEF CountNothing, JrRa
  <2>2. regs' \in Registers /\ regs'.ra = regs.ra
    BY <1>b, <2>1 DEF Registers
  <2>3. pc' # bst_count
    BY <1>c, <2>1, <2>2, Labels DEF AfterCount
  <2> QED
    BY <1>a, <1>c, <2>1, <2>2, <2>3, CountStep
<1>2. ASSUME CountLeft PROVE Control'
  <2> DEFINE node == memory[regs.a0]
  <2>1. /\ pc = bst_count /\ regs.a0 # NULL /\ pc' = bst_count
        /\ stack' = <<node.right, regs.a0, regs.ra>> \o stack
        /\ regs' = [[regs EXCEPT !.a0 = node.left] EXCEPT !.ra = AfterCountLeft]
        /\ UNCHANGED <<console, memory, root, keys, call>>
    BY <1>2 DEF CountLeft, Jal, Pushed
  <2>2. node.left \in Link /\ node.right \in Link /\ node.left \in Int /\ node.right \in Int
    <3>1. regs.a0 \in Node
      BY <1>c, <2>1 DEF Link
    <3> QED
      BY <1>0, <3>1, Types, LinkType
  <2> HIDE DEF node
  <2>3. regs' \in Registers /\ regs'.ra = AfterCountLeft /\ regs'.a0 = node.left
    <3>1. AfterCountLeft \in Int
      BY Labels
    <3> QED
      BY <1>b, <2>1, <2>2, <3>1 DEF Registers
  <2>4. AfterCountLeft \in AfterCount
    BY DEF AfterCount
  <2>5. /\ stack' \in Seq(Int) /\ stack' # << >>
        /\ Frames(stack', 3, AfterCount) /\ CountWords(stack', AfterCountLeft)
    BY <1>a, <1>c, <1>e, <2>1, <2>2, <2>4
  <2> QED
    BY <2>1, <2>2, <2>3, <2>4, <2>5, CountStep
<1>3. ASSUME CountRight PROVE Control'
  <2>1. /\ pc = AfterCountLeft /\ pc' = bst_count
        /\ stack' = <<regs.v0 + 1, stack[2], stack[3]>> \o Popped(12)
        /\ regs' = [[regs EXCEPT !.a0 = stack[1]] EXCEPT !.ra = AfterCountRight]
        /\ UNCHANGED <<console, memory, root, keys, call>>
    BY <1>3, Offsets DEF CountRight, Jal
  <2>2. pc \in AfterCount /\ AfterCountRight \in AfterCount /\ AfterCountRight # AfterCountLeft
        /\ regs.v0 + 1 \in Int
    BY <1>a, <2>1, Labels, SMTT(30) DEF AfterCount
  <2>3. regs' \in Registers /\ regs'.ra = AfterCountRight /\ regs'.a0 = stack[1]
    <3>1. AfterCountRight \in Int /\ stack[1] \in Int
      BY <1>d, <2>2, Labels
    <3> QED
      BY <1>b, <2>1, <3>1 DEF Registers
  <2>5. /\ stack' \in Seq(Int) /\ stack' # << >>
        /\ Frames(stack', 3, AfterCount) /\ CountWords(stack', AfterCountRight)
    BY <1>d, <1>e, <2>1, <2>2
  <2> QED
    BY <1>d, <2>1, <2>2, <2>3, <2>5, CountStep
<1>4. ASSUME CountReturns PROVE Control'
  <2>1. /\ pc = AfterCountRight /\ pc' = regs'.ra
        /\ stack' = Popped(12)
        /\ regs' = [regs EXCEPT !.v0 = stack[1] + regs.v0, !.a0 = stack[2], !.ra = stack[3]]
        /\ UNCHANGED <<console, memory, root, keys, call>>
    BY <1>4, Offsets DEF CountReturns, JrRa
  <2>2. pc \in AfterCount /\ (stack[1] \in Int => stack[1] + regs.v0 \in Int)
    <3>1. pc \in AfterCount
      BY <2>1 DEF AfterCount
    <3> QED
      BY <1>a, <3>1, SMT
  <2>3. regs' \in Registers /\ regs'.ra = stack[3]
    BY <1>b, <1>d, <2>1, <2>2 DEF Registers
  <2>4. pc' # bst_count
    <3>1. stack[3] = Caller(4) \/ stack[3] \in AfterCount
      BY <1>d, <2>2
    <3> QED
      BY <2>1, <2>3, <3>1, Labels DEF AfterCount
  <2> QED
    BY <1>d, <2>1, <2>2, <2>3, <2>4, CountStep
<1> QED
  BY <1>1, <1>2, <1>3, <1>4

\* What is in the frames of the traversals and of bst_insert.
LEMMA TraversalWordsPushed ==
  ASSUME NEW s \in Seq(Int), NEW a \in Link, NEW b \in Int, NEW c \in Int, NEW d \in Int,
         TraversalWords(s)
  PROVE  TraversalWords(<<a, b, c, d>> \o s)
<1> DEFINE t == <<a, b, c, d>> \o s
<1>1. /\ t \in Seq(Int) /\ Len(t) = Len(s) + 4 /\ t[1] = a /\ Len(s) \in Nat
      /\ \A i \in 1 .. Len(s) : t[i + 4] = s[i]
  BY FrameOfFour, LinkType, LenProperties
<1> HIDE DEF t
<1>2. ASSUME NEW k \in Nat \ {0}, 4 * k <= Len(t) PROVE t[4 * k - 3] \in Link
  <2>1. CASE k = 1
    BY <1>1, <2>1, SMT
  <2>2. CASE k # 1
    <3>1. k - 1 \in Nat \ {0} /\ 4 * (k - 1) <= Len(s)
      BY <1>1, <1>2, <2>2, SMT
    <3>2. 4 * (k - 1) - 3 \in 1 .. Len(s) /\ (4 * (k - 1) - 3) + 4 = 4 * k - 3
      BY <1>1, <3>1, SMT
    <3>3. t[4 * k - 3] = s[4 * (k - 1) - 3]
      BY <1>1, <3>2
    <3> QED
      BY <3>1, <3>3 DEF TraversalWords
  <2> QED
    BY <2>1, <2>2
<1> QED
  BY <1>2 DEF TraversalWords, t

LEMMA TraversalWordsPopped ==
  ASSUME NEW s \in Seq(Int), 4 <= Len(s), TraversalWords(s)
  PROVE  TraversalWords(SubSeq(s, 5, Len(s))) /\ s[1] \in Link
<1> DEFINE t == SubSeq(s, 5, Len(s))
<1>1. /\ t \in Seq(Int) /\ Len(t) = Len(s) - 4 /\ Len(s) \in Nat
      /\ \A i \in 1 .. Len(s) - 4 : t[i] = s[i + 4]
  <2>1. Len(s) \in Nat /\ 4 \in 0 .. Len(s)
    BY LenProperties, SMT
  <2>2. t = SubSeq(s, 4 + 1, Len(s))
    BY SMT
  <2> HIDE DEF t
  <2> QED
    BY <2>1, <2>2, PoppedWords
<1> HIDE DEF t
<1>2. ASSUME NEW k \in Nat \ {0}, 4 * k <= Len(t) PROVE t[4 * k - 3] \in Link
  <2>1. k + 1 \in Nat \ {0} /\ 4 * (k + 1) <= Len(s)
    BY <1>1, <1>2, SMT
  <2>2. 4 * k - 3 \in 1 .. Len(s) - 4 /\ (4 * k - 3) + 4 = 4 * (k + 1) - 3
    BY <1>1, <1>2, SMT
  <2>3. t[4 * k - 3] = s[4 * (k + 1) - 3]
    BY <1>1, <2>2
  <2> QED
    BY <2>1, <2>3 DEF TraversalWords
<1>3. s[1] \in Link
  <2>1. 1 \in Nat \ {0} /\ 4 * 1 <= Len(s) /\ 4 * 1 - 3 = 1
    BY SMT
  <2> QED
    BY <2>1 DEF TraversalWords
<1> QED
  BY <1>2, <1>3 DEF TraversalWords, t

LEMMA InsertWordsPushed ==
  ASSUME NEW s \in Seq(Int), NEW a \in Link, NEW b \in Node, NEW c \in Int, InsertWords(s)
  PROVE  InsertWords(<<a, b, c>> \o s)
<1> DEFINE t == <<a, b, c>> \o s
<1>1. /\ t \in Seq(Int) /\ Len(t) = Len(s) + 3 /\ t[1] = a /\ t[2] = b /\ Len(s) \in Nat
      /\ \A i \in 1 .. Len(s) : t[i + 3] = s[i]
  BY FrameOfThree, LinkType, LenProperties
<1> HIDE DEF t
<1>2. ASSUME NEW k \in Nat \ {0}, 3 * k <= Len(t)
      PROVE  t[3 * k - 2] \in Link /\ t[3 * k - 1] \in Node
  <2>1. CASE k = 1
    BY <1>1, <2>1, SMT
  <2>2. CASE k # 1
    <3>1. k - 1 \in Nat \ {0} /\ 3 * (k - 1) <= Len(s)
      BY <1>1, <1>2, <2>2, SMT
    <3>2. /\ 3 * (k - 1) - 2 \in 1 .. Len(s) /\ (3 * (k - 1) - 2) + 3 = 3 * k - 2
          /\ 3 * (k - 1) - 1 \in 1 .. Len(s) /\ (3 * (k - 1) - 1) + 3 = 3 * k - 1
      BY <1>1, <3>1, SMTT(30)
    <3>3. t[3 * k - 2] = s[3 * (k - 1) - 2] /\ t[3 * k - 1] = s[3 * (k - 1) - 1]
      BY <1>1, <3>2
    <3> QED
      BY <3>1, <3>3 DEF InsertWords
  <2> QED
    BY <2>1, <2>2
<1> QED
  BY <1>2 DEF InsertWords, t

LEMMA InsertWordsPopped ==
  ASSUME NEW s \in Seq(Int), 3 <= Len(s), InsertWords(s)
  PROVE  InsertWords(SubSeq(s, 4, Len(s))) /\ s[1] \in Link /\ s[2] \in Node
<1> DEFINE t == SubSeq(s, 4, Len(s))
<1>1. /\ t \in Seq(Int) /\ Len(t) = Len(s) - 3 /\ Len(s) \in Nat
      /\ \A i \in 1 .. Len(s) - 3 : t[i] = s[i + 3]
  <2>1. Len(s) \in Nat /\ 3 \in 0 .. Len(s)
    BY LenProperties, SMT
  <2>2. t = SubSeq(s, 3 + 1, Len(s))
    BY SMT
  <2> HIDE DEF t
  <2> QED
    BY <2>1, <2>2, PoppedWords
<1> HIDE DEF t
<1>2. ASSUME NEW k \in Nat \ {0}, 3 * k <= Len(t)
      PROVE  t[3 * k - 2] \in Link /\ t[3 * k - 1] \in Node
  <2>1. k + 1 \in Nat \ {0} /\ 3 * (k + 1) <= Len(s)
    BY <1>1, <1>2, SMT
  <2>2. /\ 3 * k - 2 \in 1 .. Len(s) - 3 /\ (3 * k - 2) + 3 = 3 * (k + 1) - 2
        /\ 3 * k - 1 \in 1 .. Len(s) - 3 /\ (3 * k - 1) + 3 = 3 * (k + 1) - 1
    BY <1>1, <1>2, SMT
  <2>3. t[3 * k - 2] = s[3 * (k + 1) - 2] /\ t[3 * k - 1] = s[3 * (k + 1) - 1]
    BY <1>1, <2>2
  <2> QED
    BY <2>1, <2>3 DEF InsertWords
<1>3. s[1] \in Link /\ s[2] \in Node
  <2>1. 1 \in Nat \ {0} /\ 3 * 1 <= Len(s) /\ 3 * 1 - 2 = 1 /\ 3 * 1 - 1 = 2
    BY SMT
  <2> QED
    BY <2>1 DEF InsertWords
<1> QED
  BY <1>2, <1>3 DEF InsertWords, t

\* What every step of the traversals keeps.
LEMMA TraversalStep ==
  ASSUME Control, NEW entry, NEW lines, <<entry, 4, lines>> \in Recursions,
         pc \in {entry} \cup lines,
         UNCHANGED <<memory, root, keys, call>>,
         regs' \in Registers, stack' \in Seq(Int), console' \in Seq(Int),
         pc' \in {entry, regs'.ra},
         Frames(stack', 4, lines),
         IF stack' = << >> THEN regs'.ra = Caller(4) ELSE regs'.ra \in lines,
         TraversalWords(stack'), pc' = entry => regs'.a0 \in Link
  PROVE  Control'
<1>0. TypeOK /\ InFunction /\ memory \in [Node -> BSTNode]
  BY Types DEF Control
<1>1. ControlFlow' /\ pc' \in {entry, Caller(4)} \cup lines /\ pc' \in Int
  BY ControlFlowStep
<1>2. TypeOK'
  BY <1>0, <1>1, TypeStep
<1>3. \/ entry = bst_in_order_traversal /\ lines = AfterInOrder
      \/ entry = bst_pre_order_traversal /\ lines = AfterPreOrder
  BY SMT DEF Recursions
<1>4. InFunction' /\ call.fn \in {"in order", "pre order"}
  <2>1. CASE entry = bst_in_order_traversal /\ lines = AfterInOrder
    BY <1>0, <1>1, <2>1, InFunctionStep
  <2>2. CASE entry = bst_pre_order_traversal /\ lines = AfterPreOrder
    BY <1>0, <1>1, <2>2, InFunctionStep
  <2> QED
    BY <1>3, <2>1, <2>2
<1>5. Operands'
  <2>1. /\ pc' \notin {bst_init_node, bst_search, LOOP_BSTSEARCH, bst_count, bst_insert}
        /\ pc' \notin AfterCount /\ pc' \notin AfterInsert
    <3>1. CASE entry = bst_in_order_traversal /\ lines = AfterInOrder
      BY <1>1, <3>1, Labels, SMTT(30) DEF AfterInOrder, AfterCount, AfterInsert
    <3>2. CASE entry = bst_pre_order_traversal /\ lines = AfterPreOrder
      BY <1>1, <3>2, Labels, SMTT(30) DEF AfterPreOrder, AfterCount, AfterInsert
    <3> QED
      BY <1>3, <3>1, <3>2
  <2>2. pc' \in {bst_in_order_traversal, bst_pre_order_traversal} => regs'.a0 \in Link
    <3>1. CASE entry = bst_in_order_traversal /\ lines = AfterInOrder
      BY <1>1, <3>1, Labels DEF AfterInOrder
    <3>2. CASE entry = bst_pre_order_traversal /\ lines = AfterPreOrder
      BY <1>1, <3>2, Labels DEF AfterPreOrder
    <3> QED
      BY <1>3, <3>1, <3>2
  <2>3. call'.fn # "insert"
    BY <1>4
  <2> QED
    BY <2>1, <2>2, <2>3 DEF Operands, Returned
<1> QED
  BY <1>1, <1>2, <1>4, <1>5 DEF Control

\* The code of bst_in_order_traversal and bst_pre_order_traversal.
LEMMA TraversalControl ==
  /\ Control
  /\ \/ TraverseNothing \/ InOrderLeft \/ InOrderRight \/ PreOrderLeft \/ PreOrderRight
     \/ TraversalReturns
  => Control'
<1> SUFFICES ASSUME Control
             PROVE  \/ TraverseNothing \/ InOrderLeft \/ InOrderRight \/ PreOrderLeft
                    \/ PreOrderRight \/ TraversalReturns
                    => Control'
  OBVIOUS
<1>0. TypeOK /\ ControlFlow /\ Operands
  BY DEF Control
<1>a. /\ stack \in Seq(Int) /\ console \in Seq(Int) /\ regs.a0 \in Int /\ regs.ra \in Int
      /\ \A n \in Int : Append(console, n) \in Seq(Int)
  <2>1. stack \in Seq(Int) /\ console \in Seq(Int) /\ regs.a0 \in Int /\ regs.ra \in Int
    BY <1>0, Types
  <2> QED
    BY <2>1, AppendProperties
<1>b. regs \in Registers
  BY <1>0, Types
<1> DEFINE Traversals == {<<bst_in_order_traversal, AfterInOrder>>,
                          <<bst_pre_order_traversal, AfterPreOrder>>}
           Entries == {bst_in_order_traversal, bst_pre_order_traversal}
<1>r. \A e, lines : <<e, lines>> \in Traversals => <<e, 4, lines>> \in Recursions
  BY DEF Recursions
<1>c. ASSUME NEW entry, NEW lines, <<entry, lines>> \in Traversals, pc = entry
      PROVE  /\ IF stack = << >> THEN regs.ra = Caller(4) ELSE regs.ra \in lines
             /\ Frames(stack, 4, lines)
             /\ TraversalWords(stack) /\ regs.a0 \in Link /\ regs.ra # entry
  <2>1. CASE entry = bst_in_order_traversal /\ lines = AfterInOrder
    BY <1>0, <1>c, <2>1, Labels DEF ControlFlow, Recursive, Operands, AfterInOrder
  <2>2. CASE entry = bst_pre_order_traversal /\ lines = AfterPreOrder
    BY <1>0, <1>c, <2>2, Labels DEF ControlFlow, Recursive, Operands, AfterPreOrder
  <2> QED
    BY <1>c, <2>1, <2>2
<1>d. ASSUME NEW entry, NEW lines, <<entry, lines>> \in Traversals, pc \in lines
      PROVE  /\ 4 <= Len(stack) /\ stack # << >> /\ Frames(stack, 4, lines)
             /\ stack[1] \in Int /\ stack[3] \in Int /\ stack[4] \in Int
             /\ Popped(16) \in Seq(Int) /\ Frames(Popped(16), 4, lines)
             /\ IF Popped(16) = << >> THEN stack[4] = Caller(4) ELSE stack[4] \in lines
             /\ TraversalWords(stack) /\ TraversalWords(Popped(16)) /\ stack[1] \in Link
  <2>1. stack # << >> /\ Frames(stack, 4, lines) /\ TraversalWords(stack)
    <3>1. CASE entry = bst_in_order_traversal /\ lines = AfterInOrder
      BY <1>0, <1>d, <3>1 DEF ControlFlow, Recursive, Operands
    <3>2. CASE entry = bst_pre_order_traversal /\ lines = AfterPreOrder
      BY <1>0, <1>d, <3>2 DEF ControlFlow, Recursive, Operands
    <3> QED
      BY <1>d, <3>1, <3>2
  <2>2. /\ 4 <= Len(stack)
        /\ Popped(16) \in Seq(Int) /\ Frames(Popped(16), 4, lines)
        /\ IF Popped(16) = << >> THEN stack[4] = Caller(4) ELSE stack[4] \in lines
    BY <1>a, <2>1, FramePopped, Offsets
  <2>3. TraversalWords(Popped(16)) /\ stack[1] \in Link
    <3>1. Popped(16) = SubSeq(stack, 5, Len(stack))
      BY Offsets, SMT
    <3> QED
      BY <1>a, <2>1, <2>2, <3>1, TraversalWordsPopped
  <2>4. stack[1] \in Int /\ stack[3] \in Int /\ stack[4] \in Int
    BY <1>a, <2>2, SMTT(30)
  <2> QED
    BY <2>1, <2>2, <2>3, <2>4
<1>e. ASSUME NEW entry, NEW lines, <<entry, lines>> \in Traversals,
             pc = entry, regs.a0 # NULL,
             stack' = Pushed(TraversalFrame(memory[regs.a0]))
      PROVE  /\ stack' \in Seq(Int) /\ stack' # << >> /\ Frames(stack', 4, lines)
             /\ TraversalWords(stack')
             /\ memory[regs.a0].left \in Link /\ memory[regs.a0].left \in Int
             /\ memory[regs.a0].right \in Int /\ memory[regs.a0].key \in Int
  <2>1. regs.a0 \in Node
    BY <1>c, <1>e DEF Link
  <2> DEFINE node == memory[regs.a0]
             w == <<node.right, node.left, node.key, regs.ra>>
  <2>2. /\ node.left \in Link /\ node.right \in Link /\ node.left \in Int /\ node.right \in Int
        /\ node.key \in Int
    BY <1>0, <2>1, Types, LinkType
  <2>3. stack' = w \o stack
    BY <1>e DEF Pushed, TraversalFrame
  <2>4. w \in Seq(Int) /\ Len(w) = 4 /\ w[4] = regs.ra
    <3> HIDE DEF node
    <3> QED
      BY <1>a, <2>2, SMT
  <2>5. /\ IF stack = << >> THEN w[4] = Caller(4) ELSE w[4] \in lines
        /\ Frames(stack, 4, lines) /\ TraversalWords(stack)
    <3>1. /\ IF stack = << >> THEN regs.ra = Caller(4) ELSE regs.ra \in lines
          /\ Frames(stack, 4, lines) /\ TraversalWords(stack)
      BY <1>c, <1>e
    <3> QED
      BY <2>4, <3>1
  <2>6. stack' \in Seq(Int)
    <3> HIDE DEF node
    <3> QED
      BY <1>a, <2>2, <2>3, FrameOfFour
  <2>7. TraversalWords(stack')
    <3> HIDE DEF node
    <3> QED
      BY <1>a, <2>2, <2>3, <2>5, TraversalWordsPushed
  <2>8. stack' # << >> /\ Frames(stack', 4, lines)
    <3> HIDE DEF w
    <3> QED
      BY <1>a, <2>3, <2>4, <2>5, FramePushed
  <2> QED
    BY <2>2, <2>6, <2>7, <2>8
<1>t. /\ <<bst_in_order_traversal, AfterInOrder>> \in Traversals
      /\ <<bst_pre_order_traversal, AfterPreOrder>> \in Traversals
      /\ \A e, lines : <<e, lines>> \in Traversals =>
           \/ e = bst_in_order_traversal /\ lines = AfterInOrder
           \/ e = bst_pre_order_traversal /\ lines = AfterPreOrder
  OBVIOUS
<1> HIDE DEF Traversals
<1>1. ASSUME TraverseNothing PROVE Control'
  <2>1. /\ pc \in Entries /\ pc' = regs.ra
        /\ UNCHANGED <<regs, stack, console, memory, root, keys, call>>
    BY <1>1 DEF TraverseNothing
  <2>2. PICK lines : <<pc, lines>> \in Traversals
    BY <1>t, <2>1
  <2>3. /\ IF stack = << >> THEN regs.ra = Caller(4) ELSE regs.ra \in lines
        /\ Frames(stack, 4, lines) /\ TraversalWords(stack) /\ regs.ra # pc
    BY <1>c, <2>2
  <2>4. <<pc, 4, lines>> \in Recursions
    BY <1>r, <2>2
  <2>5. pc' # pc
    BY <2>1, <2>3
  <2> QED
    BY <1>a, <1>b, <2>1, <2>3, <2>4, <2>5, TraversalStep
<1>l. ASSUME NEW entry, NEW lines, <<entry, lines>> \in Traversals, NEW line \in lines,
             pc = entry, regs.a0 # NULL,
             stack' = Pushed(TraversalFrame(memory[regs.a0])),
             Jal(entry, line, [regs EXCEPT !.a0 = memory[regs.a0].left,
                                           !.t1 = memory[regs.a0].key,
                                           !.t3 = memory[regs.a0].right]),
             console' \in Seq(Int), UNCHANGED <<memory, root, keys, call>>
      PROVE  Control'
  <2> DEFINE node == memory[regs.a0]
  <2>1. /\ stack' \in Seq(Int) /\ stack' # << >> /\ Frames(stack', 4, lines)
        /\ TraversalWords(stack')
        /\ node.left \in Link /\ node.left \in Int /\ node.right \in Int /\ node.key \in Int
    BY <1>e, <1>l
  <2>2. /\ pc' = entry
        /\ regs' = [[regs EXCEPT !.a0 = node.left, !.t1 = node.key, !.t3 = node.right]
                      EXCEPT !.ra = line]
    BY <1>l DEF Jal
  <2>3. line \in Int /\ <<entry, 4, lines>> \in Recursions
    <3>1. line \in AfterInOrder \/ line \in AfterPreOrder
      BY <1>l, <1>t
    <3> QED
      BY <1>l, <1>r, <3>1, Labels DEF AfterInOrder, AfterPreOrder
  <2> HIDE DEF node
  <2>4. regs' \in Registers /\ regs'.ra = line /\ regs'.a0 = node.left
    BY <1>b, <2>1, <2>2, <2>3 DEF Registers
  <2> QED
    BY <1>l, <2>1, <2>2, <2>3, <2>4, TraversalStep
<1>2. ASSUME InOrderLeft PROVE Control'
  <2>1. <<bst_in_order_traversal, AfterInOrder>> \in Traversals
        /\ AfterInOrderLeft \in AfterInOrder
    BY <1>t DEF AfterInOrder
  <2>2. /\ pc = bst_in_order_traversal /\ regs.a0 # NULL
        /\ stack' = Pushed(TraversalFrame(memory[regs.a0]))
        /\ Jal(bst_in_order_traversal, AfterInOrderLeft,
               [regs EXCEPT !.a0 = memory[regs.a0].left, !.t1 = memory[regs.a0].key,
                            !.t3 = memory[regs.a0].right])
        /\ UNCHANGED <<console, memory, root, keys, call>>
    BY <1>2 DEF InOrderLeft
  <2>3. console' \in Seq(Int)
    BY <1>a, <2>2
  <2> QED
    BY <1>l, <2>1, <2>2, <2>3
<1>3. ASSUME PreOrderLeft PROVE Control'
  <2>1. <<bst_pre_order_traversal, AfterPreOrder>> \in Traversals
        /\ AfterPreOrderLeft \in AfterPreOrder
    BY <1>t DEF AfterPreOrder
  <2>2. /\ pc = bst_pre_order_traversal /\ regs.a0 # NULL
        /\ stack' = Pushed(TraversalFrame(memory[regs.a0]))
        /\ console' = Append(console, memory[regs.a0].key)
        /\ Jal(bst_pre_order_traversal, AfterPreOrderLeft,
               [regs EXCEPT !.a0 = memory[regs.a0].left, !.t1 = memory[regs.a0].key,
                            !.t3 = memory[regs.a0].right])
        /\ UNCHANGED <<memory, root, keys, call>>
    BY <1>3 DEF PreOrderLeft
  <2>3. console' \in Seq(Int)
    <3>1. memory[regs.a0].key \in Int
      BY <1>e, <2>1, <2>2
    <3> QED
      BY <1>a, <2>2, <3>1
  <2> QED
    BY <1>l, <2>1, <2>2, <2>3
<1>k. ASSUME NEW entry, NEW lines, <<entry, lines>> \in Traversals, NEW line \in lines,
             pc \in lines,
             Jal(entry, line, [regs EXCEPT !.a0 = stack[1], !.t1 = stack[3], !.t3 = stack[1]]),
             console' \in Seq(Int), UNCHANGED <<stack, memory, root, keys, call>>
      PROVE  Control'
  <2>1. /\ stack # << >> /\ Frames(stack, 4, lines) /\ TraversalWords(stack)
        /\ stack[1] \in Link /\ stack[1] \in Int /\ stack[3] \in Int
    BY <1>d, <1>k
  <2>2. /\ pc' = entry
        /\ regs' = [[regs EXCEPT !.a0 = stack[1], !.t1 = stack[3], !.t3 = stack[1]]
                      EXCEPT !.ra = line]
    BY <1>k DEF Jal
  <2>3. line \in Int /\ <<entry, 4, lines>> \in Recursions
    <3>1. line \in AfterInOrder \/ line \in AfterPreOrder
      BY <1>k, <1>t
    <3> QED
      BY <1>k, <1>r, <3>1, Labels DEF AfterInOrder, AfterPreOrder
  <2>4. regs' \in Registers /\ regs'.ra = line /\ regs'.a0 = stack[1]
    BY <1>b, <2>1, <2>2, <2>3 DEF Registers
  <2> QED
    BY <1>a, <1>k, <2>1, <2>2, <2>3, <2>4, TraversalStep
<1>4. ASSUME InOrderRight PROVE Control'
  <2>1. /\ <<bst_in_order_traversal, AfterInOrder>> \in Traversals
        /\ AfterInOrderLeft \in AfterInOrder /\ AfterInOrderRight \in AfterInOrder
    BY <1>t DEF AfterInOrder
  <2>2. /\ pc = AfterInOrderLeft
        /\ console' = Append(console, stack[3])
        /\ Jal(bst_in_order_traversal, AfterInOrderRight,
               [regs EXCEPT !.a0 = stack[1], !.t1 = stack[3], !.t3 = stack[1]])
        /\ UNCHANGED <<stack, memory, root, keys, call>>
    BY <1>4, Offsets DEF InOrderRight
  <2>3. console' \in Seq(Int)
    <3>1. stack[3] \in Int
      BY <1>d, <2>1, <2>2
    <3> QED
      BY <1>a, <2>2, <3>1
  <2> QED
    BY <1>k, <2>1, <2>2, <2>3
<1>5. ASSUME PreOrderRight PROVE Control'
  <2>1. /\ <<bst_pre_order_traversal, AfterPreOrder>> \in Traversals
        /\ AfterPreOrderLeft \in AfterPreOrder /\ AfterPreOrderRight \in AfterPreOrder
    BY <1>t DEF AfterPreOrder
  <2>2. /\ pc = AfterPreOrderLeft
        /\ Jal(bst_pre_order_traversal, AfterPreOrderRight,
               [regs EXCEPT !.a0 = stack[1], !.t1 = stack[3], !.t3 = stack[1]])
        /\ UNCHANGED <<stack, console, memory, root, keys, call>>
    BY <1>5, Offsets DEF PreOrderRight, RightFromStack
  <2>3. console' \in Seq(Int)
    BY <1>a, <2>2
  <2> QED
    BY <1>k, <2>1, <2>2, <2>3
<1>6. ASSUME TraversalReturns PROVE Control'
  <2>1. /\ pc \in {AfterInOrderRight, AfterPreOrderRight} /\ pc' = regs'.ra
        /\ stack' = Popped(16)
        /\ regs' = [regs EXCEPT !.ra = stack[4]]
        /\ UNCHANGED <<console, memory, root, keys, call>>
    BY <1>6, Offsets DEF TraversalReturns, JrRa, FrameBytes
  <2>2. PICK entry, lines : <<entry, lines>> \in Traversals /\ pc \in lines
    <3>1. pc \in AfterInOrder \/ pc \in AfterPreOrder
      BY <2>1, Zenon DEF AfterInOrder, AfterPreOrder
    <3> QED
      BY <1>t, <3>1, Zenon
  <2>3. /\ stack[4] \in Int /\ Popped(16) \in Seq(Int) /\ Frames(Popped(16), 4, lines)
        /\ IF Popped(16) = << >> THEN stack[4] = Caller(4) ELSE stack[4] \in lines
        /\ TraversalWords(Popped(16))
    BY <1>d, <2>2
  <2>4. regs' \in Registers /\ regs'.ra = stack[4]
    BY <1>b, <2>1, <2>3 DEF Registers
  <2>5. <<entry, 4, lines>> \in Recursions
    BY <1>r, <2>2
  <2>6. pc' # entry
    <3>1. stack[4] = Caller(4) \/ stack[4] \in lines
      BY <2>3
    <3>2. CASE entry = bst_in_order_traversal /\ lines = AfterInOrder
      BY <2>1, <2>4, <3>1, <3>2, Labels DEF AfterInOrder
    <3>3. CASE entry = bst_pre_order_traversal /\ lines = AfterPreOrder
      BY <2>1, <2>4, <3>1, <3>3, Labels DEF AfterPreOrder
    <3> QED
      BY <1>t, <2>2, <3>2, <3>3
  <2> QED
    BY <1>a, <2>1, <2>2, <2>3, <2>4, <2>5, <2>6, TraversalStep
<1> QED
  BY <1>1, <1>2, <1>3, <1>4, <1>5, <1>6

LEMMA InsertStep ==
  ASSUME Control, pc \in {bst_insert} \cup AfterInsert,
         UNCHANGED <<console, root, keys, call>>,
         regs' \in Registers, stack' \in Seq(Int), memory' \in [Node -> BSTNode],
         pc' \in {bst_insert, regs'.ra},
         Frames(stack', 3, AfterInsert),
         IF stack' = << >> THEN regs'.ra = Caller(4) ELSE regs'.ra \in AfterInsert,
         InsertWords(stack'),
         IF pc' = bst_insert THEN regs'.a0 \in Link /\ regs'.a1 \in Link
                             ELSE regs'.v0 \in Link
  PROVE  Control'
<1>0. TypeOK /\ InFunction /\ console \in Seq(Int)
  BY Types DEF Control
<1>1. ControlFlow' /\ pc' \in {bst_insert, Caller(4)} \cup AfterInsert /\ pc' \in Int
  <2>1. <<bst_insert, 3, AfterInsert>> \in Recursions
    BY DEF Recursions
  <2> QED
    BY <2>1, ControlFlowStep
<1>2. InFunction' /\ call.fn = "insert"
  BY <1>0, <1>1, InFunctionStep
<1>3. TypeOK'
  BY <1>0, <1>1, TypeStep
<1>4. Operands'
  <2>1. /\ pc' \notin {bst_init_node, bst_search, LOOP_BSTSEARCH, bst_count,
                       bst_in_order_traversal, bst_pre_order_traversal}
        /\ pc' \notin AfterCount /\ pc' \notin AfterInOrder /\ pc' \notin AfterPreOrder
    BY <1>1, Labels DEF AfterCount, AfterInOrder, AfterPreOrder, AfterInsert
  <2>2. /\ pc' \in AfterInsert => pc' # bst_insert
        /\ pc' = Caller(4) => pc' # bst_insert
    BY Labels DEF AfterInsert
  <2> QED
    BY <2>1, <2>2 DEF Operands, Returned
<1> QED
  BY <1>1, <1>2, <1>3, <1>4 DEF Control

\* The code of bst_insert.
LEMMA InsertControl ==
  Control /\ (InsertHere \/ InsertBelow \/ InsertReturns) => Control'
<1> SUFFICES ASSUME Control PROVE InsertHere \/ InsertBelow \/ InsertReturns => Control'
  OBVIOUS
<1>0. TypeOK /\ ControlFlow /\ Operands
  BY DEF Control
<1>a. /\ stack \in Seq(Int) /\ regs.a0 \in Int /\ regs.a1 \in Int /\ regs.ra \in Int
      /\ memory \in [Node -> BSTNode]
  BY <1>0, Types
<1>b. regs \in Registers
  BY <1>0, Types
<1>c. pc = bst_insert =>
        /\ IF stack = << >> THEN regs.ra = Caller(4) ELSE regs.ra \in AfterInsert
        /\ Frames(stack, 3, AfterInsert)
        /\ InsertWords(stack) /\ regs.a0 \in Link /\ regs.a1 \in Link
  BY <1>0 DEF ControlFlow, Recursive, Operands
<1>1. ASSUME InsertHere PROVE Control'
  <2>1. /\ pc = bst_insert /\ pc' = regs'.ra
        /\ regs' = [regs EXCEPT !.v0 = regs.a1]
        /\ UNCHANGED <<stack, console, memory, root, keys, call>>
    BY <1>1 DEF InsertHere, JrRa
  <2>2. regs' \in Registers /\ regs'.ra = regs.ra /\ regs'.v0 = regs.a1
    BY <1>a, <1>b, <2>1 DEF Registers
  <2>3. pc' # bst_insert
    BY <1>c, <2>1, <2>2, Labels DEF AfterInsert
  <2> QED
    BY <1>a, <1>c, <2>1, <2>2, <2>3, InsertStep
<1>2. ASSUME InsertBelow PROVE Control'
  <2>1. PICK line, child :
          /\ pc = bst_insert /\ regs.a0 # NULL /\ pc' = bst_insert
          /\ line \in AfterInsert
          /\ child \in {memory[regs.a0].left, memory[regs.a0].right}
          /\ stack' = <<regs.a1, regs.a0, regs.ra>> \o stack
          /\ regs' = [[regs EXCEPT !.a0 = child] EXCEPT !.ra = line]
          /\ UNCHANGED <<console, memory, root, keys, call>>
    BY <1>2 DEF InsertBelow, Jal, Pushed, AfterInsert
  <2>2. regs.a0 \in Node
    BY <1>c, <2>1 DEF Link
  <2>3. child \in Link /\ child \in Int
    BY <1>0, <2>1, <2>2, Types, LinkType
  <2>4. regs' \in Registers /\ regs'.ra = line /\ regs'.a0 = child /\ regs'.a1 = regs.a1
    <3>1. line \in Int
      BY <2>1, Labels DEF AfterInsert
    <3> QED
      BY <1>b, <2>1, <2>3, <3>1 DEF Registers
  <2>5. /\ stack' \in Seq(Int) /\ stack' # << >> /\ Frames(stack', 3, AfterInsert)
        /\ InsertWords(stack')
    <3> DEFINE w == <<regs.a1, regs.a0, regs.ra>>
    <3>1. w \in Seq(Int) /\ Len(w) = 3 /\ w[3] = regs.ra
      BY <1>a, SMT
    <3>2. stack' \in Seq(Int) /\ InsertWords(stack')
      <4>1. stack' \in Seq(Int)
        BY <1>a, <2>1, FrameOfThree
      <4>2. InsertWords(stack')
        BY <1>a, <1>c, <2>1, <2>2, InsertWordsPushed
      <4> QED
        BY <4>1, <4>2
    <3>3. IF stack = << >> THEN w[3] = Caller(4) ELSE w[3] \in AfterInsert
      BY <1>c, <2>1, <3>1
    <3>4. stack' = w \o stack /\ Frames(stack, 3, AfterInsert)
      BY <1>c, <2>1
    <3> HIDE DEF w
    <3>5. stack' # << >> /\ Frames(stack', 3, AfterInsert)
      BY <1>a, <3>1, <3>3, <3>4, FramePushed
    <3> QED
      BY <3>2, <3>5
  <2> QED
    BY <1>a, <1>c, <2>1, <2>3, <2>4, <2>5, InsertStep
<1>3. ASSUME InsertReturns PROVE Control'
  <2>1. /\ pc \in AfterInsert /\ pc' = regs'.ra
        /\ memory' = [memory EXCEPT ![stack[2]][ChildField(pc)] = regs.v0]
        /\ regs' = [regs EXCEPT !.v0 = stack[2], !.a0 = stack[2], !.a1 = stack[1],
                                !.ra = stack[3]]
        /\ stack' = Popped(12)
        /\ UNCHANGED <<console, root, keys, call>>
    BY <1>3, Offsets DEF InsertReturns, JrRa, ParentFromStack, ReturnsRoot, AfterInsert
  <2>2. stack # << >> /\ Frames(stack, 3, AfterInsert) /\ InsertWords(stack) /\ regs.v0 \in Link
    BY <1>0, <2>1 DEF ControlFlow, Recursive, Operands
  <2>3. /\ 3 <= Len(stack)
        /\ Popped(12) \in Seq(Int) /\ Frames(Popped(12), 3, AfterInsert)
        /\ IF Popped(12) = << >> THEN stack[3] = Caller(4) ELSE stack[3] \in AfterInsert
    BY <1>a, <2>2, FramePopped, Offsets
  <2>4. InsertWords(Popped(12)) /\ stack[2] \in Node
    <3>1. Popped(12) = SubSeq(stack, 4, Len(stack))
      BY Offsets, SMT
    <3> QED
      BY <1>a, <2>2, <2>3, <3>1, InsertWordsPopped
  <2>5. stack[1] \in Int /\ stack[2] \in Int /\ stack[3] \in Int /\ stack[2] \in Link
    <3>1. stack[1] \in Int /\ stack[2] \in Int /\ stack[3] \in Int
      BY <1>a, <2>3, SMTT(30)
    <3> QED
      BY <2>4, <3>1, LinkType
  <2>6. regs' \in Registers /\ regs'.ra = stack[3] /\ regs'.v0 = stack[2]
    BY <1>b, <2>1, <2>5 DEF Registers
  <2>7. memory' \in [Node -> BSTNode]
    <3>1. CASE ChildField(pc) = "left"
      BY <1>a, <2>1, <2>2, <2>4, <3>1 DEF BSTNode
    <3>2. CASE ChildField(pc) = "right"
      BY <1>a, <2>1, <2>2, <2>4, <3>2 DEF BSTNode
    <3> QED
      BY <3>1, <3>2 DEF ChildField
  <2>8. pc' # bst_insert
    <3>1. stack[3] = Caller(4) \/ stack[3] \in AfterInsert
      BY <2>3
    <3> QED
      BY <2>1, <2>6, <3>1, Labels DEF AfterInsert
  <2> QED
    BY <2>1, <2>3, <2>4, <2>5, <2>6, <2>7, <2>8, InsertStep
<1> QED
  BY <1>1, <1>2, <1>3

\* The test that calls the functions.
TestStep ==
  \/ \E key \in Keys : CallInit(key) \/ CallSearch(key)
  \/ CallInsert
  \/ \E fn \in {"count", "in order", "pre order"} : CallOnTree(fn)
  \/ Resume

LEMMA CallerControl == Control /\ TestStep => Control'
<1> SUFFICES ASSUME Control PROVE TestStep => Control'
  OBVIOUS
<1>0. TypeOK /\ ControlFlow /\ Operands /\ InFunction
  BY DEF Control
<1>a. /\ stack \in Seq(Int) /\ memory \in [Node -> BSTNode] /\ root \in Link
      /\ keys \in Seq(Keys) /\ Len(keys) <= Nodes /\ Len(keys) \in Nat
  BY <1>0, LenProperties DEF TypeOK
<1>b. NoCall' = NoCall
  BY DEF NoCall
<1>c. NoRegs \in Registers /\ NoRegs.ra = Caller(4)
  BY Labels DEF NoRegs, Registers, Junk
\* A function starts with its arguments and no stack.
<1>1. ASSUME NEW fn \in Functions \ {"none"}, NEW a0 \in Link, NEW a1 \in Int,
             NEW node \in Link, NEW key \in Keys, Invoke(fn, a0, a1, node, key),
             keys' \in Seq(Keys), Len(keys') <= Nodes,
             fn = "init" => a0 \in Node, fn = "insert" => a1 \in Link
      PROVE  Control'
  <2>1. /\ pc = Caller(4) /\ call' = [fn |-> fn, node |-> node, key |-> key]
        /\ pc' = Function(fn)
        /\ regs' = [[NoRegs EXCEPT !.a0 = a0, !.a1 = a1] EXCEPT !.ra = Caller(4)]
        /\ console' = << >> /\ UNCHANGED <<stack, memory, root>>
    BY <1>1 DEF Invoke, Jal
  <2>2. /\ regs' \in Registers /\ regs'.ra = Caller(4) /\ regs'.a0 = a0 /\ regs'.a1 = a1
    <3>1. Caller(4) \in Int /\ a0 \in Int
      BY Labels, LinkType
    <3> HIDE DEF NoRegs
    <3> QED
      BY <1>c, <2>1, <3>1 DEF Registers
  <2>3. stack' = << >>
    BY <1>0, <2>1 DEF ControlFlow
  <2>4. call'.fn = fn /\ call' # NoCall /\ call' \in [fn : Functions, node : Link, key : Keys]
    BY <2>1, NoCallType
  <2>5. /\ fn = "init" => pc' = bst_init_node
        /\ fn = "search" => pc' = bst_search
        /\ fn = "count" => pc' = bst_count
        /\ fn = "in order" => pc' = bst_in_order_traversal
        /\ fn = "pre order" => pc' = bst_pre_order_traversal
        /\ fn = "insert" => pc' = bst_insert
    BY <2>1 DEF Function
  <2>6. fn \in {"init", "search", "count", "in order", "pre order", "insert"}
    BY DEF Functions
  <2>e. \/ pc' = bst_init_node \/ pc' = bst_search \/ pc' = bst_count
        \/ pc' = bst_in_order_traversal \/ pc' = bst_pre_order_traversal
        \/ pc' = bst_insert
    BY <2>5, <2>6, Zenon
  <2>7. TypeOK'
    <3>1. pc' \in Int
      BY <2>e, Labels
    <3>2. console' \in Seq(Int)
      BY <2>1, SMT
    <3> QED
      BY <1>1, <1>a, <2>1, <2>2, <2>4, <3>1, <3>2 DEF TypeOK
  <2>8. /\ Len(stack') = 0
        /\ Frames(stack', 3, AfterCount) /\ Frames(stack', 4, AfterInOrder)
        /\ Frames(stack', 4, AfterPreOrder) /\ Frames(stack', 3, AfterInsert)
    BY <2>3, SMT DEF Frames
  <2>9. /\ pc' \notin AfterCount /\ pc' \notin AfterInOrder /\ pc' \notin AfterPreOrder
        /\ pc' \notin AfterInsert /\ pc' # LOOP_BSTSEARCH /\ pc' # Caller(4)
    BY <2>e, Labels DEF AfterCount, AfterInOrder, AfterPreOrder, AfterInsert
  <2>10. ControlFlow'
    BY <2>2, <2>3, <2>8, <2>9, Zenon DEF ControlFlow, Recursive
  <2>11. InFunction'
    BY <1>b, <2>4, <2>5, <2>6, NoCallType DEF InFunction
  <2>12. Operands'
    <3>1. CountWords(stack', regs'.ra) /\ TraversalWords(stack') /\ InsertWords(stack')
      BY <2>8, SMT DEF CountWords, TraversalWords, InsertWords
    <3>0. /\ \A p \in {bst_search, bst_count, bst_in_order_traversal, bst_pre_order_traversal,
                      bst_insert} : p # bst_init_node
          /\ \A p \in {bst_init_node, bst_search, bst_count, bst_in_order_traversal,
                      bst_pre_order_traversal} : p # bst_insert
      BY Labels
    <3>2. pc' = bst_init_node => fn = "init"
      BY <2>5, <2>6, <3>0, Zenon
    <3>3. pc' = bst_insert => fn = "insert"
      BY <2>5, <2>6, <3>0, Zenon
    <3> QED
      BY <1>1, <2>2, <2>9, <3>1, <3>2, <3>3 DEF Operands, Returned
  <2> QED
    BY <2>7, <2>10, <2>11, <2>12 DEF Control
<1>2. Junk \in Int /\ 0 \in Link /\ NoCall.key \in Keys
  BY LinkType, NoCallType DEF Junk, NULL
<1>3. ASSUME NEW key \in Keys, CallInit(key) PROVE Control'
  <2>1. /\ Len(keys) < Nodes /\ keys' = Append(keys, key)
        /\ Invoke("init", Len(keys) + 1, key, Len(keys) + 1, key)
    BY <1>3 DEF CallInit
  <2>2. Len(keys) + 1 \in Node
    BY <1>a, <2>1, NodesAssumption, SMT DEF Node
  <2>3. keys' \in Seq(Keys) /\ Len(keys') <= Nodes
    BY <1>a, <2>1, AppendProperties, NodesAssumption, SMT
  <2>4. key \in Int
    BY KeysAssumption
  <2> QED
    BY <1>1, <2>1, <2>2, <2>3, <2>4, LinkType DEF Functions
<1>4. ASSUME NEW key \in Keys, CallSearch(key) PROVE Control'
  <2>1. Invoke("search", root, key, NULL, key) /\ keys' = keys /\ key \in Int
    BY <1>4, KeysAssumption DEF CallSearch
  <2> QED
    BY <1>1, <1>a, <2>1, LinkType DEF Functions
<1>5. ASSUME CallInsert PROVE Control'
  <2>1. /\ Len(keys) # 0 /\ Invoke("insert", root, Len(keys), Len(keys), NoCall.key)
        /\ keys' = keys
    BY <1>5 DEF CallInsert
  <2>2. Len(keys) \in Node /\ Len(keys) \in Link /\ Len(keys) \in Int
    <3>1. Len(keys) \in Node
      BY <1>a, <2>1, NodesAssumption, SMT DEF Node
    <3> QED
      BY <3>1, LinkType
  <2> QED
    <3>1. keys' \in Seq(Keys) /\ Len(keys') <= Nodes
      BY <1>a, <2>1
    <3>2. "insert" \in Functions \ {"none"} /\ "insert" # "init"
      BY DEF Functions
    <3> QED
      BY <1>1, <1>2, <1>a, <2>1, <2>2, <3>1, <3>2, Zenon
<1>6. ASSUME NEW fn \in {"count", "in order", "pre order"}, CallOnTree(fn) PROVE Control'
  <2>1. Invoke(fn, root, Junk, NULL, NoCall.key) /\ keys' = keys
    BY <1>6 DEF CallOnTree
  <2> QED
    BY <1>1, <1>2, <1>6, <1>a, <2>1, LinkType DEF Functions
<1>7. ASSUME Resume PROVE Control'
  <2>1. /\ pc = Caller(4) /\ call' = NoCall /\ regs' = NoRegs /\ call # NoCall
        /\ root' = IF call.fn = "insert" THEN regs.v0 ELSE root
        /\ UNCHANGED <<pc, stack, console, memory, keys>>
    BY <1>7 DEF Resume
  <2>2. stack' = << >> /\ regs' \in Registers /\ regs'.ra = Caller(4)
    BY <1>0, <1>c, <2>1 DEF ControlFlow
  <2>3. root' \in Link
    BY <1>0, <1>a, <2>1 DEF Operands, Returned
  <2>4. TypeOK'
    BY <1>0, <2>1, <2>2, <2>3, NoCallType DEF TypeOK
  <2>5. /\ pc' \notin {bst_init_node, bst_search, LOOP_BSTSEARCH, bst_count, bst_insert,
                       bst_in_order_traversal, bst_pre_order_traversal}
        /\ pc' \notin AfterCount /\ pc' \notin AfterInOrder /\ pc' \notin AfterPreOrder
        /\ pc' \notin AfterInsert
    BY <2>1, Labels DEF AfterCount, AfterInOrder, AfterPreOrder, AfterInsert
  <2>6. ControlFlow'
    BY <2>2, <2>5, Zenon DEF ControlFlow, Recursive
  <2>7. InFunction' /\ Operands'
    BY <1>b, <2>1, <2>5, NoCallType, Zenon DEF InFunction, Operands, Returned
  <2> QED
    BY <2>4, <2>6, <2>7 DEF Control
<1> QED
  BY <1>3, <1>4, <1>5, <1>6, <1>7 DEF TestStep

LEMMA ControlStep ==
  ASSUME Control, [Next]_vars
  PROVE  Control'
<1>1. CASE Code
  BY <1>1, SearchControl, CountControl, TraversalControl, InsertControl DEF Code
<1>2. CASE Next /\ ~Code
  BY <1>2, CallerControl DEF Next, TestStep
<1>3. CASE UNCHANGED vars
  <2>1. NoCall' = NoCall
    BY DEF NoCall
  <2>2. UNCHANGED <<pc, regs, stack, console, memory, root, keys, call>>
    BY <1>3 DEF vars
  <2>3. TypeOK'
    BY <2>2 DEF Control, TypeOK
  <2>4. ControlFlow'
    BY <2>2, Zenon DEF Control, ControlFlow, Recursive
  <2>5. InFunction'
    BY <2>1, <2>2, Zenon DEF Control, InFunction
  <2>6. Operands'
    BY <2>1, <2>2, Zenon DEF Control, Operands, Returned
  <2> QED
    BY <2>3, <2>4, <2>5, <2>6 DEF Control
<1> QED
  BY <1>1, <1>2, <1>3

LEMMA ControlInvariant == Spec => []Control
BY InitControl, ControlStep, PTL DEF Spec

\* Whatever is called, on whatever tree, the stack is the caller's again when the
\* function returns, and $ra is its return address: every frame is taken from the
\* stack by the recursion that put it there.
THEOREM StackIsRestored == Spec => []StackRestored
<1>1. Control => StackRestored
  BY DEF Control, ControlFlow, StackRestored
<1> QED
  BY <1>1, ControlInvariant, PTL

-----------------------------------------------------------------------------
(* What happens to a tree when memory changes. *)

LEMMA NodeTypes ==
  ASSUME NEW heap \in [Node -> BSTNode], NEW size \in 0 .. Nodes, NEW n \in 1 .. size
  PROVE  /\ n \in Node /\ n \in Nat /\ heap[n] \in BSTNode
         /\ heap[n].left \in Link /\ heap[n].right \in Link /\ heap[n].key \in Int
<1>1. n \in Node /\ n \in Nat
  BY NodesAssumption, SMT DEF Node
<1>2. heap[n] \in BSTNode
  BY <1>1
<1> QED
  BY <1>1, <1>2 DEF BSTNode

\* A child is a node of the tree.
LEMMA ChildTypes ==
  ASSUME NEW heap \in [Node -> BSTNode], NEW size \in 0 .. Nodes, Links(heap, size),
         NEW n \in 1 .. size, NEW c \in {heap[n].left, heap[n].right}, c # NULL
  PROVE  c \in 1 .. size /\ c > n /\ c \in Kids(heap, n)
<1>1. c \in Kids(heap, n)
  BY DEF Kids
<1>2. c \in n + 1 .. size
  BY <1>1 DEF Links
<1> QED
  BY <1>1, <1>2, SMT

LEMMA TreeBelow ==
  ASSUME NEW heap \in [Node -> BSTNode], NEW size \in 0 .. Nodes, Shape(heap, size)
  PROVE  Below(heap, First(size)) = 1 .. size
<1>1. CASE size = 0
  <2>1. 1 .. size = {}
    BY <1>1, SMT
  <2> QED
    BY <1>1, <2>1, BelowNull DEF First
<1>2. CASE size # 0
  <2>1. size \in 1 .. Nodes
    BY <1>2, NodesAssumption, SMT
  <2>2. \A m \in 2 .. size : \E n \in 1 .. size : m \in Kids(heap, n)
    BY DEF Shape, OneParent
  <2> QED
    BY <1>2, <2>1, <2>2, BelowFirst DEF Shape, First
<1> QED
  BY <1>1, <1>2

\* The size of the tree is found from its links.
LEMMA SizeOfShape ==
  ASSUME NEW heap \in [Node -> BSTNode], NEW count \in 0 .. Nodes, NEW size \in Nat,
         size \in {count - 1, count}, Shape(heap, size)
  PROVE  SizeOf(heap, First(size), count) = size
<1>1. CASE size = count /\ count < 2
  <2>1. count = First(size)
    BY <1>1, NodesAssumption, SMT DEF First, NULL
  <2> QED
    BY <1>1, <2>1 DEF SizeOf
<1>2. CASE size = count /\ count >= 2
  <2>1. count \in 2 .. size
    BY <1>2, SMT
  <2>2. PICK n \in 1 .. size : count \in Kids(heap, n)
    BY <2>1 DEF Shape, OneParent
  <2>3. count \in n + 1 .. size
    BY <2>2 DEF Shape, Links
  <2>4. n \in 1 .. count - 1
    BY <1>2, <2>3, SMT
  <2> QED
    BY <1>2, <2>2, <2>4 DEF SizeOf
<1>3. CASE size = count - 1
  <2>1. count # First(size)
    BY <1>3, NodesAssumption, SMT DEF First, NULL
  <2>2. \A n \in 1 .. count - 1 : count \notin Kids(heap, n)
    <3>1. ASSUME NEW n \in 1 .. count - 1, count \in Kids(heap, n) PROVE FALSE
      <4>1. n \in 1 .. size
        BY <1>3
      <4>2. count \in n + 1 .. size
        BY <3>1, <4>1 DEF Shape, Links
      <4> QED
        BY <1>3, <4>2, NodesAssumption, SMT
    <3> QED
      BY <3>1
  <2> QED
    BY <1>3, <2>1, <2>2 DEF SizeOf
<1> QED
  BY <1>1, <1>2, <1>3, NodesAssumption, SMT

LEMMA ShapeUnchanged ==
  ASSUME NEW heap \in [Node -> BSTNode], NEW size \in 0 .. Nodes, Shape(heap, size),
         NEW next \in [Node -> BSTNode],
         \A n \in 1 .. size : next[n] = heap[n]
  PROVE  Shape(next, size)
<1>1. Links(heap, size) /\ Links(next, size)
      /\ \A n \in 1 .. size : Below(next, n) = Below(heap, n)
  BY BelowUnchanged DEF Shape
<1>2. OneParent(next, size)
  <2>1. \A n \in 1 .. size : Kids(next, n) = Kids(heap, n)
    BY DEF Kids
  <2>2. OneParent(heap, size)
    BY DEF Shape
  <2> QED
    BY <2>1, <2>2 DEF OneParent
<1>3. ASSUME NEW n \in 1 .. size, NEW c \in {heap[n].left, heap[n].right}
      PROVE  /\ Below(next, c) = Below(heap, c)
             /\ \A m \in Below(heap, c) : m \in 1 .. size
  <2>1. CASE c = NULL
    BY <2>1, BelowNull
  <2>2. CASE c # NULL
    <3>1. c \in 1 .. size
      BY <1>1, <2>2, ChildTypes
    <3>2. Below(heap, c) \subseteq c .. size
      BY <1>1, <3>1, BelowLeast
    <3>3. \A m \in c .. size : m \in 1 .. size
      BY <3>1, NodesAssumption, SMT
    <3> QED
      BY <1>1, <3>1, <3>2, <3>3
  <2> QED
    BY <2>1, <2>2
<1>4. Sorted(next, size)
  BY <1>3 DEF Shape, Sorted
<1> QED
  BY <1>1, <1>2, <1>4 DEF Shape

\* A tree of one node.
LEMMA ShapeOfOne ==
  ASSUME NEW heap \in [Node -> BSTNode], heap[1].left = NULL, heap[1].right = NULL
  PROVE  Shape(heap, 1)
<1>1. \A n \in 1 .. 1 : n = 1
  BY SMT
<1>2. Kids(heap, 1) = {}
  BY DEF Kids
<1>3. Below(heap, NULL) = {}
  BY BelowNull
<1>4. 2 .. 1 = {}
  BY SMT
<1> QED
  BY <1>1, <1>2, <1>3, <1>4 DEF Shape, Links, OneParent, Sorted

\* What fits below a node fits below its child on the side of the key.
LEMMA FitsChild ==
  ASSUME NEW heap \in [Node -> BSTNode], NEW size \in 0 .. Nodes, Shape(heap, size),
         NEW p \in 1 .. size, NEW key \in Int, FitsBelow(heap, size, p, key),
         NEW c, c # NULL,
         IF key < heap[p].key THEN c = heap[p].left ELSE c = heap[p].right
  PROVE  c \in 1 .. size /\ FitsBelow(heap, size, c, key)
<1>1. Links(heap, size) /\ OneParent(heap, size)
  BY DEF Shape
<1>2. c \in 1 .. size /\ c \in Kids(heap, p)
  BY <1>1, ChildTypes
<1>3. ASSUME NEW m \in 1 .. size, c \in Kids(heap, m) PROVE m = p
  BY <1>1, <1>2, <1>3 DEF OneParent
<1>4. ASSUME NEW m \in 1 .. size, NEW d \in {heap[m].left, heap[m].right},
             c \in Below(heap, d)
      PROVE  (c = d /\ m = p) \/ p \in Below(heap, d)
  <2>1. d # NULL
    BY <1>4, BelowNull
  <2>2. d \in 1 .. size /\ d \in Kids(heap, m)
    BY <1>1, <2>1, ChildTypes
  <2>3. CASE c = d
    BY <1>3, <2>2, <2>3
  <2>4. CASE c # d
    <3>1. PICK q \in Below(heap, d) : c \in Kids(heap, q)
      BY <1>1, <1>4, <2>2, <2>4, BelowParent
    <3>2. Below(heap, d) \subseteq d .. size
      BY <1>1, <2>2, BelowLeast
    <3>3. \A i \in d .. size : i \in 1 .. size
      BY <2>2, NodesAssumption, SMT
    <3>4. q = p
      BY <1>3, <3>1, <3>2, <3>3
    <3> QED
      BY <3>1, <3>4
  <2> QED
    BY <2>3, <2>4
<1>5. heap[p].left # heap[p].right \/ heap[p].left = NULL
  BY <1>1 DEF OneParent
<1>6. ASSUME NEW m \in 1 .. size, c \in Below(heap, heap[m].left) PROVE key < heap[m].key
  <2>1. CASE p \in Below(heap, heap[m].left)
    BY <2>1 DEF FitsBelow
  <2>2. CASE c = heap[m].left /\ m = p
    BY <1>5, <2>2
  <2> QED
    BY <1>4, <1>6, <2>1, <2>2
<1>7. ASSUME NEW m \in 1 .. size, c \in Below(heap, heap[m].right) PROVE key >= heap[m].key
  <2>1. CASE p \in Below(heap, heap[m].right)
    BY <2>1 DEF FitsBelow
  <2>2. CASE c = heap[m].right /\ m = p
    <3>1. heap[p].key \in Int
      BY NodeTypes
    <3>2. ~(key < heap[p].key)
      BY <1>5, <2>2
    <3> QED
      BY <2>2, <3>1, <3>2, SMT
  <2> QED
    BY <1>4, <1>7, <2>1, <2>2
<1> QED
  BY <1>2, <1>6, <1>7 DEF FitsBelow

\* The new node becomes a leaf: the tree is one again.
LEMMA ShapeGrows ==
  ASSUME NEW heap \in [Node -> BSTNode], NEW size \in 0 .. Nodes, Shape(heap, size),
         NEW p \in 1 .. size, NEW new \in Node, new = size + 1,
         NEW f \in {"left", "right"}, heap[p][f] = NULL,
         heap[new].left = NULL, heap[new].right = NULL,
         FitsBelow(heap, size, p, heap[new].key),
         f = IF heap[new].key < heap[p].key THEN "left" ELSE "right"
  PROVE  Shape([heap EXCEPT ![p][f] = new], new)
<1> DEFINE next == [heap EXCEPT ![p][f] = new]
<1>1. Links(heap, size) /\ OneParent(heap, size) /\ Sorted(heap, size)
  BY DEF Shape
<1>2. /\ size \in Nat /\ new \in Nat /\ new > size /\ p # new /\ p \in Node
      /\ new # NULL /\ new \in Link /\ new \in 0 .. Nodes
      /\ 1 .. size = (1 .. new) \ {new}
  BY NodesAssumption, SMT DEF Node, Link, NULL
<1>3. heap[p] \in BSTNode
  BY <1>2
<1>4. /\ next \in [Node -> BSTNode]
      /\ \A n \in Node \ {p} : next[n] = heap[n]
      /\ next[p].key = heap[p].key
      /\ f = "left" => next[p].left = new /\ next[p].right = heap[p].right
      /\ f = "right" => next[p].right = new /\ next[p].left = heap[p].left
  <2>1. CASE f = "left"
    BY <1>2, <1>3, <2>1 DEF BSTNode
  <2>2. CASE f = "right"
    BY <1>2, <1>3, <2>2 DEF BSTNode
  <2> QED
    BY <2>1, <2>2
<1>n. \A n \in 1 .. size : n \in Node
  BY NodeTypes
<1> HIDE DEF next
<1>5. /\ \A n \in (1 .. size) \ {p} : Kids(next, n) = Kids(heap, n)
      /\ Kids(next, p) = Kids(heap, p) \cup {size + 1}
      /\ Kids(next, size + 1) = {}
  <2>1. \A n \in (1 .. size) \ {p} : Kids(next, n) = Kids(heap, n)
    BY <1>4, <1>n DEF Kids
  <2>2. Kids(next, p) = Kids(heap, p) \cup {new}
    <3>1. CASE f = "left"
      BY <1>2, <1>4, <3>1 DEF Kids
    <3>2. CASE f = "right"
      BY <1>2, <1>4, <3>2 DEF Kids
    <3> QED
      BY <3>1, <3>2
  <2>3. Kids(next, new) = {}
    BY <1>2, <1>4 DEF Kids
  <2> QED
    BY <2>1, <2>2, <2>3
<1>6. /\ Links(next, new)
      /\ \A n \in 1 .. size :
           Below(next, n) = Below(heap, n) \cup (IF p \in Below(heap, n) THEN {new} ELSE {})
      /\ Below(next, new) = {new}
  BY <1>1, <1>2, <1>4, <1>5, BelowGrows
<1>7. \A n \in 1 .. size : \A k \in Kids(heap, n) : k # new
  <2>1. \A n \in 1 .. size : Kids(heap, n) \subseteq n + 1 .. size
    BY <1>1 DEF Links
  <2>2. \A n \in 1 .. size : \A k \in n + 1 .. size : k # new
    BY <1>2, SMT
  <2> QED
    BY <2>1, <2>2
<1>8. OneParent(next, new)
  <2>1. ASSUME NEW n \in 1 .. new
        PROVE  next[n].left # next[n].right \/ next[n].left = NULL
    <3>1. CASE n = new
      BY <1>2, <1>4, <3>1
    <3>2. CASE n \in 1 .. size /\ n # p
      <4>1. next[n] = heap[n]
        BY <1>4, <1>n, <3>2
      <4> QED
        BY <1>1, <3>2, <4>1 DEF OneParent
    <3>3. CASE n = p
      <4>1. heap[p].left # new /\ heap[p].right # new
        BY <1>2, <1>7 DEF Kids
      <4> QED
        BY <1>4, <3>3, <4>1
    <3> QED
      BY <1>2, <3>1, <3>2, <3>3
  <2>2. ASSUME NEW n \in 1 .. new, NEW m \in 1 .. new, n # m
        PROVE  Kids(next, n) \cap Kids(next, m) = {}
    <3>1. CASE n = new \/ m = new
      BY <1>5, <3>1
    <3>2. CASE n \in 1 .. size /\ m \in 1 .. size
      <4>1. Kids(heap, n) \cap Kids(heap, m) = {}
        BY <1>1, <2>2, <3>2 DEF OneParent
      <4>2. new \notin Kids(heap, n) /\ new \notin Kids(heap, m)
        BY <1>7, <3>2
      <4> QED
        BY <1>5, <2>2, <3>2, <4>1, <4>2
    <3> QED
      BY <1>2, <3>1, <3>2
  <2>3. ASSUME NEW m \in 2 .. new PROVE \E n \in 1 .. new : m \in Kids(next, n)
    <3>1. CASE m = new
      BY <1>2, <1>5, <3>1
    <3>2. CASE m \in 2 .. size
      <4>1. PICK n \in 1 .. size : m \in Kids(heap, n)
        BY <1>1, <3>2 DEF OneParent
      <4> QED
        BY <1>2, <1>5, <4>1
    <3>3. m = new \/ m \in 2 .. size
      BY <1>2, SMT
    <3> QED
      BY <3>1, <3>2, <3>3
  <2> QED
    BY <2>1, <2>2, <2>3 DEF OneParent
\* The new key is on the right side of all nodes above.
<1>9. ASSUME NEW n \in 1 .. size, NEW d \in {heap[n].left, heap[n].right}
      PROVE  /\ Below(next, d) \subseteq Below(heap, d) \cup {new}
             /\ new \in Below(next, d) => p \in Below(heap, d)
             /\ Below(heap, d) \subseteq 1 .. size
  <2>1. CASE d = NULL
    BY <1>4, <2>1, BelowNull
  <2>2. CASE d # NULL
    <3>1. d \in 1 .. size
      BY <1>1, <2>2, ChildTypes
    <3>2. Below(heap, d) \subseteq d .. size
      BY <1>1, <3>1, BelowLeast
    <3>3. \A i \in d .. size : i \in 1 .. size /\ i # new
      BY <1>2, <3>1, SMT
    <3> QED
      BY <1>6, <3>1, <3>2, <3>3
  <2> QED
    BY <2>1, <2>2
<1>10. \A n \in 1 .. new : next[n].key = heap[n].key
  <2>1. \A n \in 1 .. new : n \in Node
    BY <1>2, NodesAssumption, SMT DEF Node
  <2> QED
    BY <1>4, <2>1
<1>11. heap[new].key \in Int /\ heap[p].key \in Int
  BY <1>2, <1>3 DEF BSTNode
<1>12. Sorted(next, new)
  <2>1. ASSUME NEW n \in 1 .. new, NEW m \in Below(next, next[n].left)
        PROVE  next[m].key < next[n].key
    <3>1. CASE n = new
      BY <1>2, <1>4, <2>1, <3>1, BelowNull
    <3>2. CASE n \in 1 .. size /\ next[n].left = heap[n].left
      <4>1. m \in Below(heap, heap[n].left) \/ (m = new /\ p \in Below(heap, heap[n].left))
        BY <1>9, <2>1, <3>2
      <4>2. CASE m \in Below(heap, heap[n].left)
        <5>1. m \in 1 .. new /\ heap[m].key < heap[n].key
          BY <1>1, <1>2, <1>9, <3>2, <4>2 DEF Sorted
        <5> QED
          BY <1>10, <5>1
      <4>3. CASE m = new /\ p \in Below(heap, heap[n].left)
        <5>1. heap[new].key < heap[n].key /\ new \in 1 .. new
          BY <1>2, <3>2, <4>3, SMT DEF FitsBelow
        <5> QED
          BY <1>10, <4>3, <5>1
      <4> QED
        BY <4>1, <4>2, <4>3
    <3>3. CASE n = p /\ f = "left"
      <4>1. m = new /\ new \in 1 .. new
        BY <1>2, <1>4, <1>6, <2>1, <3>3, SMT
      <4>2. heap[new].key < heap[p].key
        BY <3>3
      <4> QED
        BY <1>10, <3>3, <4>1, <4>2
    <3>4. n = new \/ (n \in 1 .. size /\ next[n].left = heap[n].left) \/ (n = p /\ f = "left")
      BY <1>2, <1>4, <1>n
    <3> QED
      BY <3>1, <3>2, <3>3, <3>4
  <2>2. ASSUME NEW n \in 1 .. new, NEW m \in Below(next, next[n].right)
        PROVE  next[m].key >= next[n].key
    <3>1. CASE n = new
      BY <1>2, <1>4, <2>2, <3>1, BelowNull
    <3>2. CASE n \in 1 .. size /\ next[n].right = heap[n].right
      <4>1. m \in Below(heap, heap[n].right) \/ (m = new /\ p \in Below(heap, heap[n].right))
        BY <1>9, <2>2, <3>2
      <4>2. CASE m \in Below(heap, heap[n].right)
        <5>1. m \in 1 .. new /\ heap[m].key >= heap[n].key
          BY <1>1, <1>2, <1>9, <3>2, <4>2 DEF Sorted
        <5> QED
          BY <1>10, <5>1
      <4>3. CASE m = new /\ p \in Below(heap, heap[n].right)
        <5>1. heap[new].key >= heap[n].key /\ new \in 1 .. new
          BY <1>2, <3>2, <4>3, SMT DEF FitsBelow
        <5> QED
          BY <1>10, <4>3, <5>1
      <4> QED
        BY <4>1, <4>2, <4>3
    <3>3. CASE n = p /\ f = "right"
      <4>1. m = new /\ new \in 1 .. new
        BY <1>2, <1>4, <1>6, <2>2, <3>3, SMT
      <4>2. heap[new].key >= heap[p].key
        BY <1>11, <3>3, SMT
      <4> QED
        BY <1>10, <3>3, <4>1, <4>2
    <3>4. n = new \/ (n \in 1 .. size /\ next[n].right = heap[n].right) \/ (n = p /\ f = "right")
      BY <1>2, <1>4, <1>n
    <3> QED
      BY <3>1, <3>2, <3>3, <3>4
  <2> QED
    BY <2>1, <2>2 DEF Sorted
<1> QED
  BY <1>6, <1>8, <1>12 DEF Shape, next

\* Nothing is above the first node.
LEMMA FitsFirst ==
  ASSUME NEW heap \in [Node -> BSTNode], NEW size \in 0 .. Nodes, Shape(heap, size),
         NEW key, size # 0
  PROVE  FitsBelow(heap, size, 1, key)
<1>1. ASSUME NEW m \in 1 .. size, NEW d \in {heap[m].left, heap[m].right}
      PROVE  1 \notin Below(heap, d)
  <2>1. CASE d = NULL
    BY <2>1, BelowNull
  <2>2. CASE d # NULL
    <3>1. Links(heap, size)
      BY DEF Shape
    <3>2. d \in 1 .. size /\ d > m
      BY <2>2, <3>1, ChildTypes
    <3>3. Below(heap, d) \subseteq d .. size
      BY <3>1, <3>2, BelowLeast
    <3>4. 1 \notin d .. size
      BY <3>2, NodesAssumption, SMT
    <3> QED
      BY <3>3, <3>4
  <2> QED
    BY <2>1, <2>2
<1> QED
  BY <1>1 DEF FitsBelow

-----------------------------------------------------------------------------
(* The tree: each action in turn. *)

Runs(p, fn) ==
  \/ p = Caller(4)
  \/ fn = "init" /\ p \in {bst_init_node, bst_search, LOOP_BSTSEARCH}
  \/ fn = "search" /\ p \in {bst_search, LOOP_BSTSEARCH}
  \/ fn = "count" /\ p \in {bst_count} \cup AfterCount
  \/ fn = "in order" /\ p \in {bst_in_order_traversal} \cup AfterInOrder
  \/ fn = "pre order" /\ p \in {bst_pre_order_traversal} \cup AfterPreOrder
  \/ fn = "insert" /\ p \in {bst_insert} \cup AfterInsert

LEMMA RunsWhere ==
  ASSUME NEW p, NEW fn, Runs(p, fn)
  PROVE  /\ fn = "insert" => p \in {Caller(4), bst_insert} \cup AfterInsert
         /\ fn = "init" => p \in {Caller(4), bst_init_node, bst_search, LOOP_BSTSEARCH}
         /\ p = bst_init_node => fn = "init"
         /\ p \in {bst_insert} \cup AfterInsert => fn = "insert"
<1> DEFINE At(a, b, c) == p = a \/ p = b \/ p = c
<1>1. /\ bst_init_node # Caller(4) /\ bst_init_node # bst_search
      /\ bst_init_node # LOOP_BSTSEARCH
      /\ bst_init_node \notin {bst_count} \cup AfterCount
      /\ bst_init_node \notin {bst_in_order_traversal} \cup AfterInOrder
      /\ bst_init_node \notin {bst_pre_order_traversal} \cup AfterPreOrder
      /\ bst_init_node \notin {bst_insert} \cup AfterInsert
  BY Labels DEF AfterCount, AfterInOrder, AfterPreOrder, AfterInsert
<1>2. ASSUME NEW q \in {bst_insert} \cup AfterInsert
      PROVE  /\ q # Caller(4) /\ q # bst_init_node /\ q # bst_search /\ q # LOOP_BSTSEARCH
             /\ q \notin {bst_count} \cup AfterCount
             /\ q \notin {bst_in_order_traversal} \cup AfterInOrder
             /\ q \notin {bst_pre_order_traversal} \cup AfterPreOrder
  <2>1. q = bst_insert \/ q = AfterInsertLeft \/ q = AfterInsertRight
    BY <1>2 DEF AfterInsert
  <2>2. q \in {4284, 4308, 4328}
    BY <2>1, Labels
  <2>3. /\ q # Caller(4) /\ q # bst_init_node /\ q # bst_search /\ q # LOOP_BSTSEARCH
    BY <2>2, Labels
  <2>4. q \notin {bst_count} \cup AfterCount
    BY <2>2, Labels DEF AfterCount
  <2>5. q \notin {bst_in_order_traversal} \cup AfterInOrder
    BY <2>2, Labels DEF AfterInOrder
  <2>6. q \notin {bst_pre_order_traversal} \cup AfterPreOrder
    BY <2>2, Labels DEF AfterPreOrder
  <2> QED
    BY <2>3, <2>4, <2>5, <2>6
<1>3. fn = "insert" => p \in {Caller(4), bst_insert} \cup AfterInsert
  BY DEF Runs
<1>4. fn = "init" => p \in {Caller(4), bst_init_node, bst_search, LOOP_BSTSEARCH}
  BY DEF Runs
<1>5. p = bst_init_node => fn = "init"
  BY <1>1, Zenon DEF Runs
<1>6. p \in {bst_insert} \cup AfterInsert => fn = "insert"
  BY <1>2, Zenon DEF Runs
<1> QED
  BY <1>3, <1>4, <1>5, <1>6

LEMMA RunsInFunction == (InFunction => Runs(pc, call.fn)) /\ (InFunction' => Runs(pc', call'.fn))
BY Zenon DEF InFunction, Runs

LEMMA CountType == TypeOK => Len(keys) \in 0 .. Nodes
<1>1. TypeOK => Len(keys) \in Nat /\ Len(keys) <= Nodes
  BY LenProperties DEF TypeOK
<1> QED
  BY <1>1, NodesAssumption, SMT

\* The size of the tree, and what is known of it.
LEMMA SizeType ==
  ASSUME TypeOK, IsTree
  PROVE  /\ Size \in 0 .. Nodes /\ Len(keys) \in 0 .. Nodes
         /\ Size \in {Len(keys) - 1, Len(keys)}
<1>1. Size = Len(keys) \/ Size = Len(keys) - 1
  BY DEF Size, SizeOf
<1>2. Len(keys) \in 0 .. Nodes /\ Size \in Nat
  BY CountType DEF IsTree
<1> QED
  BY <1>1, <1>2, NodesAssumption, SMT

\* The tree is the same as long as memory, the root and the keys are.
LEMMA SameTree ==
  ASSUME IsTree, memory' = memory, Root' = Root, keys' = keys
  PROVE  IsTree' /\ Size' = Size /\ Inner' = Inner
<1>1. Size' = Size
  BY DEF Size
<1> QED
  BY <1>1 DEF IsTree, Inner

\* The root that the caller knows, as long as bst_insert has not returned.
LEMMA RootOfCaller ==
  /\ pc # Caller(4) \/ call.fn # "insert" \/ call = NoCall => Root = root
  /\ pc' # Caller(4) \/ call'.fn # "insert" \/ call' = NoCall => Root' = root'
<1>1. NoCall' = NoCall
  BY DEF NoCall
<1> QED
  BY <1>1 DEF Root, Returned

\* The code that is not concerned with the tree.
LEMMA OtherCode ==
  ASSUME TreeInv, Control', call.fn # "insert",
         UNCHANGED <<memory, root, keys, call>>,
         pc # bst_init_node, pc' # bst_init_node
  PROVE  TreeInv'
<1>1. IsTree' /\ Inner' = Inner
  <2>1. Root = root /\ Root' = root' /\ root' = root
    BY RootOfCaller
  <2> QED
    BY <2>1, SameTree DEF TreeInv
<1>2. Fresh'
  BY <1>1 DEF TreeInv, Fresh
<1>3. Insertion'
  <2>1. pc' \notin {bst_insert} \cup AfterInsert
    BY RunsInFunction, RunsWhere DEF Control
  <2> QED
    BY <2>1 DEF Insertion
<1> QED
  BY <1>1, <1>2, <1>3 DEF TreeInv

LEMMA OtherCodeTree ==
  ASSUME TreeInv, Control',
         \/ Search \/ SearchReturns \/ SearchDescends
         \/ CountNothing \/ CountLeft \/ CountRight \/ CountReturns
         \/ TraverseNothing \/ InOrderLeft \/ InOrderRight \/ PreOrderLeft \/ PreOrderRight
         \/ TraversalReturns
  PROVE  TreeInv' /\ UNCHANGED memory
<1> DEFINE Where == {bst_search, LOOP_BSTSEARCH, bst_count, bst_in_order_traversal,
                     bst_pre_order_traversal} \cup AfterCount \cup AfterInOrder \cup AfterPreOrder
<1>1. pc \in Where /\ UNCHANGED <<memory, root, keys, call>>
  BY Zenon DEF Search, SearchReturns, SearchDescends, CountNothing, CountLeft, CountRight,
         CountReturns, TraverseNothing, InOrderLeft, InOrderRight, PreOrderLeft, PreOrderRight,
         TraversalReturns, AfterCount, AfterInOrder, AfterPreOrder
<1>2. \A p \in Where : p \notin {Caller(4), bst_init_node, bst_insert} \cup AfterInsert
  BY Labels DEF AfterCount, AfterInOrder, AfterPreOrder, AfterInsert
<1> HIDE DEF Where
<1>3. Runs(pc, call.fn) /\ Runs(pc', call'.fn)
  BY RunsInFunction DEF TreeInv, Control
<1>4. call.fn # "insert" /\ pc # bst_init_node
  BY <1>1, <1>2, <1>3, RunsWhere
<1>5. pc' # bst_init_node
  <2>1. CASE Search \/ SearchDescends
    BY <1>1, <1>2, <2>1, Labels DEF Search, SearchDescends
  <2>2. CASE SearchReturns
    <3>1. regs \in Registers /\ regs.ra = Caller(4)
      BY <2>2, Types DEF SearchReturns, TreeInv, Control, ControlFlow
    <3>2. pc' = regs'.ra /\ regs' = [regs EXCEPT !.v0 = regs.t0]
      BY <2>2 DEF SearchReturns, JrRa
    <3>3. pc' = Caller(4)
      BY <3>1, <3>2 DEF Registers
    <3> QED
      BY <3>3, Labels
  <2>3. CASE ~(Search \/ SearchDescends \/ SearchReturns)
    <3>1. pc \notin {bst_search, LOOP_BSTSEARCH, Caller(4), bst_init_node}
      BY <2>3, Labels DEF CountNothing, CountLeft, CountRight,
         CountReturns, TraverseNothing, InOrderLeft, InOrderRight, PreOrderLeft, PreOrderRight,
         TraversalReturns
    <3>2. call.fn # "init" /\ call' = call
      BY <1>1, <1>3, <3>1, RunsWhere
    <3> QED
      BY <1>3, <3>2, RunsWhere
  <2> QED
    BY <2>1, <2>2, <2>3
<1> QED
  BY <1>1, <1>4, <1>5, OtherCode

\* bst_init_node writes a node that is not in the tree.
LEMMA InitNodeTree ==
  ASSUME TreeInv, Control', InitNode
  PROVE  TreeInv' /\ Size' = Size /\ \A n \in Inner : memory'[n] = memory[n]
<1>0. TypeOK /\ IsTree /\ Fresh /\ Insertion /\ InFunction /\ InFunction'
  BY DEF TreeInv, Control
<1>1. /\ pc = bst_init_node /\ pc' = bst_search
      /\ memory' = [memory EXCEPT ![regs.a0] = [key |-> regs.a1, left |-> NULL, right |-> NULL]]
      /\ UNCHANGED <<regs, stack, console, root, keys, call>>
  BY DEF InitNode
<1>2. regs.a0 = Len(keys) /\ Len(keys) \notin Inner /\ Len(keys) # 0
  BY <1>0, <1>1 DEF Fresh
<1>3. /\ Size \in 0 .. Nodes /\ Len(keys) \in 0 .. Nodes /\ Size \in {Len(keys) - 1, Len(keys)}
      /\ Size \in Nat
  BY <1>0, SizeType DEF IsTree
<1>4. Len(keys) \in Node /\ (1 .. Len(keys)) \ Inner = {Len(keys)}
  BY <1>2, <1>3, NodesAssumption, SMT DEF Node, Inner
<1>5. memory \in [Node -> BSTNode] /\ memory' \in [Node -> BSTNode]
  BY Types DEF TreeInv, Control, TypeOK
<1>6. \A n \in Inner : memory'[n] = memory[n]
  <2>1. \A n \in Inner : n # Len(keys) /\ n \in Node
    BY <1>2, <1>3, NodeTypes, <1>5 DEF Inner
  <2> QED
    BY <1>1, <1>2, <1>5, <2>1
<1>7. Shape(memory', Size)
  BY <1>0, <1>3, <1>5, <1>6, ShapeUnchanged DEF IsTree, Inner
<1>8. call.fn = "init"
  BY <1>0, <1>1, RunsInFunction, RunsWhere
<1>9. Root' = First(Size)
  BY <1>0, <1>1, <1>8, RootOfCaller DEF IsTree
<1>10. Size' = Size
  BY <1>1, <1>3, <1>5, <1>7, <1>9, SizeOfShape DEF Size
<1>11. IsTree'
  BY <1>3, <1>7, <1>9, <1>10 DEF IsTree
<1>12. Fresh'
  <2>1. memory'[Len(keys)].left = NULL /\ memory'[Len(keys)].right = NULL
    BY <1>1, <1>2, <1>4, <1>5
  <2>2. pc' # bst_init_node
    BY <1>1, Labels
  <2>3. \A n \in (1 .. Len(keys))' \ Inner' : n = Len(keys)
    BY <1>1, <1>4, <1>10 DEF Inner
  <2> QED
    BY <2>1, <2>2, <2>3 DEF Fresh
<1>13. Insertion'
  <2>1. pc' \notin {bst_insert} \cup AfterInsert /\ call'.fn # "insert"
    BY <1>0, <1>1, <1>8, RunsInFunction, RunsWhere
  <2> QED
    BY <2>1 DEF Insertion
<1> QED
  BY <1>6, <1>10, <1>11, <1>12, <1>13 DEF TreeInv

\* What hangs from the root.
LEMMA LinkedNodes == ASSUME TypeOK, IsTree PROVE Linked = Inner
<1>1. memory \in [Node -> BSTNode] /\ Size \in 0 .. Nodes
  BY Types, SizeType
<1> QED
  BY <1>1, TreeBelow, FromIsBelow DEF Linked, IsTree, Inner

\* The test initialises and inserts the nodes one after the other.
LEMMA CallerTree ==
  ASSUME TreeInv, Control', TestStep
  PROVE  TreeInv' /\ UNCHANGED memory
<1>0. TypeOK /\ IsTree /\ Fresh /\ Insertion /\ InFunction /\ InFunction' /\ ControlFlow
      /\ TypeOK' /\ Operands
  BY DEF TreeInv, Control
<1>1. /\ Size \in 0 .. Nodes /\ Len(keys) \in 0 .. Nodes /\ Size \in {Len(keys) - 1, Len(keys)}
      /\ Size \in Nat /\ memory \in [Node -> BSTNode]
  BY <1>0, SizeType, Types DEF IsTree
<1>2. NoCall' = NoCall
  BY DEF NoCall
<1>3. Linked = Inner
  BY <1>0, LinkedNodes
\* A function is called.
<1>4. ASSUME NEW fn, NEW a0, NEW a1, NEW node, NEW key, Invoke(fn, a0, a1, node, key)
      PROVE  /\ pc = Caller(4) /\ pc' = Function(fn) /\ call'.fn = fn /\ call'.node = node
             /\ UNCHANGED <<stack, memory, root>> /\ Root = root
             /\ stack = << >> /\ regs'.a0 = a0 /\ regs'.a1 = a1
             /\ pc # bst_init_node
  <2>1. /\ pc = Caller(4) /\ call' = [fn |-> fn, node |-> node, key |-> key] /\ call = NoCall
        /\ pc' = Function(fn)
        /\ regs' = [[NoRegs EXCEPT !.a0 = a0, !.a1 = a1] EXCEPT !.ra = Caller(4)]
        /\ UNCHANGED <<stack, memory, root>>
    BY <1>4 DEF Invoke, Jal
  <2>2. regs'.a0 = a0 /\ regs'.a1 = a1
    BY <2>1 DEF NoRegs
  <2>3. Root = root
    BY <2>1, RootOfCaller
  <2>4. stack = << >>
    BY <1>0, <2>1 DEF ControlFlow
  <2>5. pc # bst_init_node
    BY <2>1, Labels
  <2> QED
    BY <2>1, <2>2, <2>3, <2>4, <2>5
<1>5. ASSUME NEW key \in Keys, CallInit(key) PROVE TreeInv' /\ UNCHANGED memory
  <2>1. /\ Len(keys) < Nodes /\ Linked = DOMAIN keys /\ keys' = Append(keys, key)
        /\ pc = Caller(4) /\ pc' = bst_init_node /\ call'.fn = "init"
        /\ regs'.a0 = Len(keys) + 1 /\ pc # bst_init_node
        /\ UNCHANGED <<stack, memory, root>> /\ Root = root
    <3>1. /\ Len(keys) < Nodes /\ Linked = DOMAIN keys /\ keys' = Append(keys, key)
          /\ Invoke("init", Len(keys) + 1, key, Len(keys) + 1, key)
      BY <1>5 DEF CallInit
    <3>2. /\ pc = Caller(4) /\ pc' = Function("init") /\ call'.fn = "init"
          /\ regs'.a0 = Len(keys) + 1 /\ pc # bst_init_node
          /\ UNCHANGED <<stack, memory, root>> /\ Root = root
      BY <1>4, <3>1
    <3>3. Function("init") = bst_init_node
      BY DEF Function
    <3> QED
      BY <3>1, <3>2, <3>3
  <2>2. Len(keys') = Len(keys) + 1 /\ DOMAIN keys = 1 .. Len(keys)
    BY <1>0, <2>1, AppendProperties, LenProperties DEF TypeOK
  <2>3. Size = Len(keys)
    <3>1. 1 .. Size = 1 .. Len(keys)
      BY <1>3, <2>1, <2>2 DEF Inner
    <3>2. Len(keys) = 0 \/ Len(keys) \in 1 .. Len(keys)
      BY <1>1, SMT
    <3> QED
      BY <1>1, <3>1, <3>2, SMT
  <2>4. Root' = First(Size)
    BY <1>0, <2>1, RootOfCaller DEF IsTree
  <2>5. Size' = Size
    <3>1. Len(keys') \in 0 .. Nodes /\ Size \in {Len(keys') - 1, Len(keys')}
      BY <1>1, <2>1, <2>2, <2>3, NodesAssumption, SMT
    <3>2. SizeOf(memory, First(Size), Len(keys')) = Size
      BY <1>0, <1>1, <3>1, SizeOfShape DEF IsTree
    <3> QED
      BY <2>1, <2>4, <3>2 DEF Size
  <2>6. IsTree'
    BY <1>0, <1>1, <2>1, <2>4, <2>5 DEF IsTree
  <2>7. Fresh'
    <3>1. Len(keys') \notin Inner' /\ Len(keys') # 0
      BY <1>1, <2>2, <2>3, <2>5, SMT DEF Inner
    <3> QED
      BY <2>1, <2>2, <3>1 DEF Fresh
  <2>8. Insertion'
    <3>1. pc' \notin {bst_insert} \cup AfterInsert
      BY <1>0, <2>1, RunsInFunction, RunsWhere
    <3> QED
      BY <2>1, <3>1 DEF Insertion
  <2> QED
    BY <2>1, <2>6, <2>7, <2>8 DEF TreeInv
\* The other functions are called on the tree as it is.
<1>6. ASSUME NEW fn \in {"search", "count", "in order", "pre order"}, pc' = Function(fn),
             pc = Caller(4), Root = root, pc # bst_init_node,
             UNCHANGED <<memory, root, keys>>, call'.fn = fn
      PROVE  TreeInv' /\ UNCHANGED memory
  <2>1. Root' = Root
    BY <1>6, RootOfCaller
  <2>2. IsTree' /\ Inner' = Inner
    BY <1>0, <1>6, <2>1, SameTree
  <2>3. Fresh'
    <3>1. pc' # bst_init_node
      <4>1. Runs(pc', call'.fn) /\ fn # "init"
        BY <1>0, RunsInFunction
      <4> QED
        BY <1>6, <4>1, RunsWhere
    <3> QED
      BY <1>0, <1>6, <2>2, <3>1 DEF Fresh
  <2>4. Insertion'
    <3>1. pc' \notin {bst_insert} \cup AfterInsert
      BY <1>0, <1>6, RunsInFunction, RunsWhere
    <3> QED
      BY <1>6, <3>1 DEF Insertion
  <2> QED
    BY <1>6, <2>2, <2>3, <2>4 DEF TreeInv
<1>7. ASSUME NEW key \in Keys, CallSearch(key) PROVE TreeInv' /\ UNCHANGED memory
  <2>1. keys' = keys /\ Invoke("search", root, key, NULL, key)
    BY <1>7 DEF CallSearch
  <2> QED
    BY <1>4, <1>6, <2>1
<1>8. ASSUME NEW fn \in {"count", "in order", "pre order"}, CallOnTree(fn)
      PROVE  TreeInv' /\ UNCHANGED memory
  <2>1. keys' = keys /\ Invoke(fn, root, Junk, NULL, NoCall.key)
    BY <1>8 DEF CallOnTree
  <2> QED
    <3>1. /\ pc' = Function(fn) /\ pc = Caller(4) /\ Root = root /\ pc # bst_init_node
          /\ UNCHANGED <<memory, root>> /\ call'.fn = fn
      BY <1>4, <2>1
    <3> QED
      BY <1>6, <2>1, <3>1
<1>9. ASSUME CallInsert PROVE TreeInv' /\ UNCHANGED memory
  <2>1. Len(keys) \notin Linked \cup {0} /\ keys' = keys
        /\ Invoke("insert", root, Len(keys), Len(keys), NoCall.key)
    BY <1>9 DEF CallInsert
  <2>2. /\ pc = Caller(4) /\ pc' = bst_insert /\ call'.fn = "insert" /\ call'.node = Len(keys)
        /\ UNCHANGED <<stack, memory, root, keys>> /\ Root = root
        /\ stack = << >> /\ regs'.a0 = root /\ regs'.a1 = Len(keys)
        /\ pc # bst_init_node
    <3>1. Function("insert") = bst_insert
      BY DEF Function
    <3> QED
      BY <1>4, <2>1, <3>1
  <2>3. pc' # Caller(4) /\ pc' # bst_init_node /\ pc' \notin AfterInsert
    BY <2>2, Labels DEF AfterInsert
  <2>4. Root' = Root
    BY <2>2, <2>3, RootOfCaller
  <2>5. IsTree' /\ Size' = Size /\ Inner' = Inner
    BY <1>0, <2>2, <2>4, SameTree
  <2>6. Fresh'
    BY <1>0, <2>2, <2>3, <2>5 DEF Fresh
  <2>7. Insertion'
    <3>1. Depth' = 0
      BY <2>2, SMT DEF Depth
    <3>2. 1 .. 0 = {} /\ 1 .. 0 - 1 = {}
      BY SMT
    <3>3. Path'
      BY <3>1, <3>2 DEF Path
    <3>4. call'.node \notin Inner' /\ Len(keys) # 0
      BY <1>3, <2>1, <2>2, <2>5
    <3>5. Descent(regs.ra)'
      BY <3>1, <3>4 DEF Descent
    <3> QED
      BY <2>2, <2>3, <3>1, <3>3, <3>4, <3>5 DEF Insertion
  <2> QED
    BY <2>2, <2>5, <2>6, <2>7 DEF TreeInv
<1>10. ASSUME Resume PROVE TreeInv' /\ UNCHANGED memory
  <2>1. /\ pc = Caller(4) /\ call' = NoCall /\ call # NoCall
        /\ root' = IF call.fn = "insert" THEN regs.v0 ELSE root
        /\ UNCHANGED <<pc, memory, keys>>
    BY <1>10 DEF Resume
  <2>2. Root' = Root
    <3>1. Root' = root'
      BY <1>2, <2>1, RootOfCaller
    <3> QED
      BY <2>1, <3>1 DEF Root, Returned
  <2>3. IsTree' /\ Inner' = Inner
    BY <1>0, <2>1, <2>2, SameTree
  <2>4. pc' # bst_init_node /\ pc # bst_init_node /\ pc' \notin {bst_insert} \cup AfterInsert
    BY <2>1, Labels DEF AfterInsert
  <2>5. Fresh'
    BY <1>0, <2>1, <2>3, <2>4 DEF Fresh
  <2>6. Insertion'
    <3>1. call'.fn # "insert"
      BY <2>1, NoCallType
    <3> QED
      BY <2>4, <3>1 DEF Insertion
  <2> QED
    BY <2>1, <2>3, <2>5, <2>6 DEF TreeInv
<1> QED
  BY <1>5, <1>7, <1>8, <1>9, <1>10 DEF TestStep

\* The frames of bst_insert are counted by Depth.
LEMMA DepthOf ==
  ASSUME NEW s \in Seq(Int), NEW lines, Frames(s, 3, lines)
  PROVE  /\ Len(s) \div 3 \in Nat /\ Len(s) = 3 * (Len(s) \div 3)
         /\ Len(s) \div 3 = 0 <=> s = << >>
<1>1. Len(s) \in Nat /\ Len(s) % 3 = 0
  BY LenProperties DEF Frames
<1>2. Len(s) \div 3 \in Nat /\ Len(s) = 3 * (Len(s) \div 3)
  BY <1>1, SMT
<1>3. Len(s) = 0 <=> s = << >>
  BY EmptySeq
<1> QED
  BY <1>2, <1>3, SMT

\* What holds before every step of bst_insert.
LEMMA InsertState ==
  ASSUME TreeInv, pc \in {bst_insert} \cup AfterInsert
  PROVE  /\ TypeOK /\ IsTree /\ Fresh /\ Insertion /\ ControlFlow /\ Operands
         /\ InFunction
         /\ Size \in 0 .. Nodes /\ Size \in Nat /\ Len(keys) \in 0 .. Nodes
         /\ Size \in {Len(keys) - 1, Len(keys)}
         /\ memory \in [Node -> BSTNode] /\ stack \in Seq(Int) /\ regs \in Registers
         /\ call.fn = "insert" /\ call.node = Len(keys) /\ call.node \in Node
         /\ call # NoCall
         /\ Root = root /\ root = First(Size)
         /\ pc # Caller(4) /\ pc # bst_init_node
         /\ Frames(stack, 3, AfterInsert)
         /\ Depth \in Nat /\ Len(stack) = 3 * Depth /\ (Depth = 0 <=> stack = << >>)
         /\ Path
         /\ \A n \in 1 .. Len(keys) \ Inner : memory[n].left = NULL /\ memory[n].right = NULL
<1>0. TypeOK /\ IsTree /\ Fresh /\ Insertion /\ ControlFlow /\ InFunction /\ Operands
  BY DEF TreeInv, Control
<1>1. call.fn = "insert" /\ Runs(pc, call.fn)
  BY <1>0, RunsInFunction, RunsWhere
<1>2. pc # Caller(4) /\ pc # bst_init_node
  BY Labels DEF AfterInsert
<1>3. Root = root
  BY <1>2, RootOfCaller
<1>4. /\ Size \in 0 .. Nodes /\ Len(keys) \in 0 .. Nodes /\ Size \in {Len(keys) - 1, Len(keys)}
      /\ Size \in Nat /\ memory \in [Node -> BSTNode] /\ stack \in Seq(Int)
  BY <1>0, SizeType, Types DEF IsTree
<1>5. regs \in Registers
  BY <1>0, Types
<1>6. call.node = Len(keys) /\ Len(keys) # 0 /\ Path
  BY <1>0, <1>1 DEF Insertion
<1>7. call.node \in Node
  BY <1>4, <1>6, NodesAssumption, SMT DEF Node
<1>8. Frames(stack, 3, AfterInsert)
  BY <1>0 DEF ControlFlow, Recursive
<1>9. Depth \in Nat /\ Len(stack) = 3 * Depth /\ (Depth = 0 <=> stack = << >>)
  BY <1>4, <1>8, DepthOf DEF Depth
<1>10. call # NoCall
  BY <1>0, <1>1 DEF InFunction
<1>11. \A n \in 1 .. Len(keys) \ Inner : memory[n].left = NULL /\ memory[n].right = NULL
  BY <1>0, <1>2 DEF Fresh
<1>12. root = First(Size)
  BY <1>0, <1>3 DEF IsTree
<1> QED
  BY <1>0, <1>1, <1>2, <1>3, <1>4, <1>5, <1>6, <1>7, <1>8, <1>9, <1>10, <1>11, <1>12

\* The new node is not in the tree: it is the node after those of the tree.
LEMMA NewNode ==
  ASSUME TreeInv, pc \in {bst_insert} \cup AfterInsert, call.node \notin Inner
  PROVE  /\ call.node = Size + 1 /\ Len(keys) = Size + 1
         /\ memory[call.node].left = NULL /\ memory[call.node].right = NULL
         /\ memory[call.node].key \in Int
<1>1. call.node = Size + 1 /\ Len(keys) = Size + 1 /\ call.node \in 1 .. Len(keys)
  <2>1. /\ Size \in Nat /\ Len(keys) \in 0 .. Nodes /\ Size \in {Len(keys) - 1, Len(keys)}
        /\ call.node = Len(keys) /\ call.node \in Node
    BY InsertState
  <2> QED
    BY <2>1, NodesAssumption, SMT DEF Inner, Node
<1>2. memory[call.node].left = NULL /\ memory[call.node].right = NULL
  BY <1>1, InsertState
<1>3. memory[call.node].key \in Int
  BY InsertState, Types
<1> QED
  BY <1>1, <1>2, <1>3

\* The recursion has found the place: the new node is returned to be linked there,
\* or to the caller if there is no tree.
LEMMA InsertHereTree ==
  ASSUME TreeInv, Control', InsertHere
  PROVE  /\ TreeInv' /\ UNCHANGED memory
         /\ \/ pc' # Caller(4) /\ Size' = Size
            \/ pc' = Caller(4) /\ Size = 0 /\ call.node = 1 /\ Root' = 1 /\ Size' = 1
<1>1. /\ pc = bst_insert /\ regs.a0 = NULL /\ pc' = regs'.ra
      /\ regs' = [regs EXCEPT !.v0 = regs.a1]
      /\ UNCHANGED <<stack, console, memory, root, keys, call>>
  BY DEF InsertHere, JrRa
<1>2. pc \in {bst_insert} \cup AfterInsert
  BY <1>1
<1>3. /\ regs.a1 = call.node
      /\ regs.a0 = IF Depth = 0 THEN root ELSE memory[Parent(1)][ChildField(regs.ra)]
      /\ call.node \notin Inner
      /\ Depth > 0 => Fits(Parent(1)) /\ regs.ra = Towards(Parent(1))
      /\ IF stack = << >> THEN regs.ra = Caller(4) ELSE regs.ra \in AfterInsert
  BY <1>1, <1>2, InsertState DEF Insertion, Descent, ControlFlow, Recursive
<1>4. regs'.ra = regs.ra /\ regs'.v0 = call.node
  BY <1>1, <1>2, <1>3, InsertState DEF Registers
<1>5. NoCall' = NoCall
  BY DEF NoCall
<1>6. CASE Depth = 0
  <2>1. pc' = Caller(4) /\ root = NULL
    BY <1>1, <1>2, <1>3, <1>4, <1>6, InsertState
  <2>2. Root' = call.node
    BY <1>1, <1>2, <1>4, <1>5, <2>1, InsertState DEF Root, Returned
  <2>3. Size = 0 /\ call.node = 1 /\ Len(keys) = 1
    <3>1. Size = 0
      BY <1>2, <2>1, InsertState DEF First, NULL
    <3> QED
      BY <1>2, <1>3, <3>1, NewNode
  <2>4. Shape(memory, 1)
    <3>1. memory[1].left = NULL /\ memory[1].right = NULL /\ memory \in [Node -> BSTNode]
      BY <1>2, <1>3, <2>3, NewNode, InsertState
    <3> QED
      BY <3>1, ShapeOfOne
  <2>5. Size' = 1
    <3>1. Len(keys') = Root'
      BY <1>1, <2>2, <2>3
    <3> QED
      BY <1>1, <2>3, <3>1 DEF Size, SizeOf
  <2>6. IsTree'
    BY <1>1, <2>2, <2>3, <2>4, <2>5 DEF IsTree, First
  <2>7. pc' # bst_init_node /\ pc' \notin {bst_insert} \cup AfterInsert
    BY <2>1, Labels DEF AfterInsert
  <2>8. Fresh'
    <3>1. (1 .. Len(keys))' \ Inner' = {}
      BY <1>1, <2>3, <2>5 DEF Inner
    <3> QED
      BY <2>7, <3>1 DEF Fresh
  <2>9. Insertion'
    BY <1>1, <1>2, <2>3, <2>7, InsertState DEF Insertion
  <2> QED
    BY <1>1, <2>1, <2>2, <2>3, <2>5, <2>6, <2>8, <2>9 DEF TreeInv
<1>7. CASE Depth # 0
  <2>1. pc' \in AfterInsert /\ pc' = regs.ra
    BY <1>1, <1>2, <1>3, <1>4, <1>7, InsertState
  <2>2. pc' # Caller(4) /\ pc' # bst_init_node /\ pc' # bst_insert
    BY <2>1, Labels DEF AfterInsert
  <2>3. Root' = Root
    BY <1>1, <1>2, <2>2, RootOfCaller, InsertState
  <2>4. IsTree' /\ Size' = Size /\ Inner' = Inner
    BY <1>1, <1>2, <2>3, SameTree, InsertState
  <2>5. Fresh'
    BY <1>1, <1>2, <2>2, <2>4, InsertState DEF Fresh
  <2>6. Insertion'
    <3>1. Depth' = Depth /\ Depth > 0
      BY <1>1, <1>2, <1>7, InsertState, SMT DEF Depth
    <3>2. /\ Parent(1)' = Parent(1)
          /\ \A k \in Int : Parent(k)' = Parent(k) /\ ReturnTo(k)' = ReturnTo(k)
      BY <1>1 DEF Parent, ReturnTo
    <3>3. Path'
      <4>1. Path
        BY <1>2, InsertState
      <4> QED
        BY <1>1, <2>4, <4>1 DEF Path, Parent, ReturnTo, Depth
    <3>4. Fits(Parent(1))' /\ Towards(Parent(1))' = Towards(Parent(1))
      BY <1>1, <1>3, <2>4, <3>1, <3>2 DEF Fits, Towards
    <3>5. Descent(pc)'
      BY <1>1, <1>3, <2>1, <2>4, <3>1, <3>4 DEF Descent
    <3>6. memory'[Parent(1)'][ChildField(pc')] = NULL
      BY <1>1, <1>3, <1>7, <2>1, <3>2
    <3> QED
      BY <1>1, <1>2, <1>4, <2>2, <3>3, <3>5, <3>6, InsertState DEF Insertion
  <2> QED
    BY <1>1, <2>2, <2>4, <2>5, <2>6 DEF TreeInv
<1> QED
  BY <1>6, <1>7

\* t is the stack s of d frames under one that keeps b and c.
OneFrameMore(s, t, d, b, c) ==
  /\ Len(t) \div 3 = d + 1 /\ t[2] = b /\ t[3] = c
  /\ \A k \in 1 .. d : t[3 * (k + 1) - 1] = s[3 * k - 1] /\ t[3 * (k + 1)] = s[3 * k]

\* The frames when one is pushed on them, and when the innermost is popped.
LEMMA DepthPushed ==
  ASSUME NEW s \in Seq(Int), NEW a \in Int, NEW b \in Int, NEW c \in Int,
         NEW t, t = <<a, b, c>> \o s, NEW d \in Nat, Len(s) = 3 * d
  PROVE  OneFrameMore(s, t, d, b, c)
<1> DEFINE u == <<a, b, c>> \o s
           n == 3 * d
<1>1. /\ u \in Seq(Int) /\ Len(u) = Len(s) + 3 /\ u[2] = b /\ u[3] = c
      /\ \A i \in 1 .. Len(s) : u[i + 3] = s[i]
  <2> HIDE DEF n
  <2>1. Len(s) = n
    BY DEF n
  <2> QED
    BY FrameOfThree, LenProperties
<1>2. t = u
  OBVIOUS
<1> HIDE DEF u
<1>3. Len(t) \div 3 = d + 1
  <2>1. Len(t) = 3 * (d + 1) /\ d + 1 \in Nat
    BY <1>1, <1>2, SMT
  <2> QED
    BY <2>1, SMT
<1>4. ASSUME NEW k \in 1 .. d
      PROVE  t[3 * (k + 1) - 1] = s[3 * k - 1] /\ t[3 * (k + 1)] = s[3 * k]
  <2>1. /\ 3 * k - 1 \in 1 .. Len(s) /\ (3 * k - 1) + 3 = 3 * (k + 1) - 1
        /\ 3 * k \in 1 .. Len(s) /\ 3 * k + 3 = 3 * (k + 1)
    BY SMT
  <2> QED
    BY <1>1, <1>2, <2>1
<1> QED
  BY <1>1, <1>2, <1>3, <1>4 DEF OneFrameMore

\* t is the stack s of d frames without the innermost.
OneFrameLess(s, t, d) ==
  /\ Len(t) \div 3 = d - 1 /\ (t = << >> <=> d = 1)
  /\ \A k \in 1 .. d - 1 :
       t[3 * k - 1] = s[3 * (k + 1) - 1] /\ t[3 * k] = s[3 * (k + 1)]

LEMMA DepthPopped ==
  ASSUME NEW s \in Seq(Int), NEW d \in Nat, Len(s) = 3 * d, d # 0
  PROVE  OneFrameLess(s, SubSeq(s, 4, Len(s)), d)
<1> DEFINE t == SubSeq(s, 4, Len(s))
<1>1. /\ t \in Seq(Int) /\ Len(t) = Len(s) - 3
      /\ \A i \in 1 .. Len(s) - 3 : t[i] = s[i + 3]
  <2>1. 3 \in 0 .. Len(s)
    BY SMT
  <2>2. t = SubSeq(s, 3 + 1, Len(s))
    BY SMT
  <2> HIDE DEF t
  <2> QED
    BY <2>1, <2>2, PoppedWords
<1> HIDE DEF t
<1>2. Len(t) \div 3 = d - 1
  <2>1. d - 1 \in Nat /\ Len(t) = 3 * (d - 1)
    BY <1>1, SMT
  <2> QED
    BY <2>1, SMT
<1>3. t = << >> <=> d = 1
  <2>1. t = << >> <=> Len(t) = 0
    BY <1>1, EmptySeq
  <2> QED
    BY <1>1, <2>1, SMT
<1>4. ASSUME NEW k \in 1 .. d - 1
      PROVE  t[3 * k - 1] = s[3 * (k + 1) - 1] /\ t[3 * k] = s[3 * (k + 1)]
  <2>1. /\ 3 * k - 1 \in 1 .. Len(s) - 3 /\ (3 * k - 1) + 3 = 3 * (k + 1) - 1
        /\ 3 * k \in 1 .. Len(s) - 3 /\ 3 * k + 3 = 3 * (k + 1)
    BY SMT
  <2> QED
    BY <1>1, <2>1
<1> QED
  BY <1>2, <1>3, <1>4 DEF t, OneFrameLess

\* The recursion goes on below a node: the new node fits there.
LEMMA InsertBelowTree ==
  ASSUME TreeInv, Control', InsertBelow
  PROVE  TreeInv' /\ UNCHANGED memory /\ pc' # Caller(4) /\ Size' = Size
<1> DEFINE p == regs.a0
           line == Towards(p)
<1>1. /\ pc = bst_insert /\ p # NULL /\ pc' = bst_insert
      /\ stack' = <<regs.a1, p, regs.ra>> \o stack
      /\ UNCHANGED <<console, memory, root, keys, call>>
  BY DEF InsertBelow, Jal, Pushed
<1>2. pc \in {bst_insert} \cup AfterInsert
  BY <1>1
<1>3. /\ regs.a1 = call.node
      /\ p = IF Depth = 0 THEN root ELSE memory[Parent(1)][ChildField(regs.ra)]
      /\ call.node \notin Inner
      /\ Depth > 0 => Fits(Parent(1)) /\ regs.ra = Towards(Parent(1))
  BY <1>1, <1>2, InsertState DEF Insertion, Descent
<1>4. line \in AfterInsert /\ (line = AfterInsertLeft <=> GoesLeft(regs.a1, p))
  BY <1>3, Labels DEF Towards, GoesLeft, AfterInsert
<1>5. /\ regs' = [[regs EXCEPT !.a0 = memory[p][ChildField(line)]] EXCEPT !.ra = line]
  <2>1. CASE GoesLeft(regs.a1, p)
    <3>1. /\ line = AfterInsertLeft /\ ChildField(line) = "left"
          /\ regs' = [[regs EXCEPT !.a0 = memory[p].left] EXCEPT !.ra = AfterInsertLeft]
      BY <1>4, <2>1 DEF InsertBelow, Jal, ChildField
    <3> QED
      BY <3>1
  <2>2. CASE ~GoesLeft(regs.a1, p)
    <3>1. /\ line = AfterInsertRight /\ ChildField(line) = "right"
          /\ regs' = [[regs EXCEPT !.a0 = memory[p].right] EXCEPT !.ra = AfterInsertRight]
      BY <1>4, <2>2, Labels DEF InsertBelow, Jal, ChildField, AfterInsert
    <3> QED
      BY <3>1
  <2> QED
    BY <2>1, <2>2
<1>6. /\ regs'.a0 = memory[p][ChildField(line)] /\ regs'.ra = line /\ regs'.a1 = regs.a1
  BY <1>2, <1>5, InsertState DEF Registers
<1> DEFINE key == memory[call.node].key
<1>7. key \in Int
  BY <1>2, <1>3, NewNode
<1>8. p \in Inner /\ Fits(p)
  <2>1. CASE Depth = 0
    <3>1. Size # 0 /\ p = 1
      BY <1>1, <1>2, <1>3, <2>1, InsertState DEF First
    <3>2. 1 \in Inner
      BY <1>2, <3>1, InsertState, SMT DEF Inner
    <3>3. FitsBelow(memory, Size, 1, key)
      BY <1>2, <3>1, InsertState, FitsFirst DEF IsTree
    <3> QED
      BY <3>1, <3>2, <3>3 DEF Fits
  <2>2. CASE Depth # 0
    <3>1. Depth > 0 /\ 1 \in 1 .. Depth
      BY <1>2, <2>2, InsertState, SMT
    <3>2. Parent(1) \in 1 .. Size /\ FitsBelow(memory, Size, Parent(1), key)
      BY <1>2, <1>3, <3>1, InsertState DEF Path, Fits, Inner
    <3>3. IF key < memory[Parent(1)].key THEN p = memory[Parent(1)].left
                                         ELSE p = memory[Parent(1)].right
      <4>1. AfterInsertLeft # AfterInsertRight
        BY Labels
      <4> QED
        BY <1>3, <2>2, <3>1, <4>1 DEF Towards, ChildField
    <3>4. /\ memory \in [Node -> BSTNode] /\ Size \in 0 .. Nodes /\ Shape(memory, Size)
      BY <1>2, InsertState DEF IsTree
    <3> HIDE DEF key, p
    <3>5. p \in 1 .. Size /\ FitsBelow(memory, Size, p, key)
      BY <1>1, <1>7, <3>2, <3>3, <3>4, FitsChild
    <3> QED
      BY <3>5 DEF Inner, Fits, key
  <2> QED
    BY <2>1, <2>2
<1> HIDE DEF p
<1>9. pc' # Caller(4) /\ pc' # bst_init_node /\ pc' \notin AfterInsert
  BY <1>1, Labels DEF AfterInsert
<1>10. Root' = Root
  BY <1>1, <1>2, <1>9, RootOfCaller, InsertState
<1>11. IsTree' /\ Size' = Size /\ Inner' = Inner
  BY <1>1, <1>2, <1>10, SameTree, InsertState
<1>12. Fresh'
  BY <1>1, <1>2, <1>9, <1>11, InsertState DEF Fresh
<1>13. /\ Depth' = Depth + 1 /\ Parent(1)' = p /\ ReturnTo(1)' = regs.ra
       /\ \A k \in 1 .. Depth :
            Parent(k + 1)' = Parent(k) /\ ReturnTo(k + 1)' = ReturnTo(k)
  <2>1. regs.a1 \in Int /\ p \in Int /\ regs.ra \in Int
    BY <1>2, InsertState, Types DEF p
  <2>2. stack \in Seq(Int) /\ Depth \in Nat /\ Len(stack) = 3 * Depth
    BY <1>2, InsertState
  <2>3. OneFrameMore(stack, stack', Depth, p, regs.ra)
    BY <1>1, <2>1, <2>2, DepthPushed, Zenon
  <2>4. 3 * 1 - 1 = 2 /\ 3 * 1 = 3
    BY SMT
  <2> QED
    BY <2>3, <2>4 DEF OneFrameMore, Depth, Parent, ReturnTo
<1>14. Path'
  <2>1. Path /\ Depth \in Nat
    BY <1>2, InsertState
  <2>2. ASSUME NEW k \in 1 .. Depth + 1 PROVE Parent(k)' \in Inner
    <3>1. CASE k = 1
      BY <1>8, <1>13, <3>1
    <3>2. CASE k # 1
      <4>1. k - 1 \in 1 .. Depth /\ (k - 1) + 1 = k
        BY <2>1, <3>2, SMT
      <4>2. Parent((k - 1) + 1)' = Parent(k - 1)
        BY <1>13, <4>1
      <4> QED
        BY <2>1, <4>1, <4>2 DEF Path, Parent
    <3> QED
      BY <3>1, <3>2
  <2>3. ASSUME NEW k \in 1 .. Depth
        PROVE  Parent(k)' = memory[Parent(k + 1)'][ChildField(ReturnTo(k)')]
    <3>0. Parent(k + 1)' = Parent(k)
      BY <1>13
    <3>1. CASE k = 1
      <4>1. Depth # 0
        BY <2>1, <3>1, SMT
      <4> QED
        BY <1>3, <1>13, <3>0, <3>1, <4>1 DEF p
    <3>2. CASE k # 1
      <4>1. k - 1 \in 1 .. Depth /\ k - 1 \in 1 .. Depth - 1 /\ (k - 1) + 1 = k
        BY <2>1, <3>2, SMT
      <4>2. Parent((k - 1) + 1)' = Parent(k - 1) /\ ReturnTo((k - 1) + 1)' = ReturnTo(k - 1)
        BY <1>13, <4>1
      <4>3. Parent(k - 1) = memory[Parent((k - 1) + 1)][ChildField(ReturnTo(k - 1))]
        BY <2>1, <4>1 DEF Path
      <4>4. Parent(k)' = Parent(k - 1) /\ ReturnTo(k)' = ReturnTo(k - 1)
        BY <4>1, <4>2 DEF Parent, ReturnTo
      <4>5. Parent((k - 1) + 1) = Parent(k)
        BY <4>1
      <4> QED
        BY <3>0, <4>3, <4>4, <4>5
    <3> QED
      BY <3>1, <3>2
  <2>4. stack'[3 * (Depth + 1) - 1] = root
    <3>1. CASE Depth = 0
      <4>1. Depth + 1 = 1
        BY <3>1, SMT
      <4>2. p = root
        BY <1>3, <3>1 DEF p
      <4> QED
        BY <1>13, <3>1, <4>1, <4>2 DEF Parent
    <3>2. CASE Depth # 0
      <4>1. Depth \in 1 .. Depth /\ Depth > 0
        BY <2>1, <3>2, SMT
      <4> QED
        BY <1>13, <2>1, <4>1 DEF Path, Parent
    <3> QED
      BY <3>1, <3>2
  <2>5. Depth' = Depth + 1 /\ Depth' - 1 = Depth
    BY <1>13, <2>1, SMT
  <2> QED
    <3>1. \A k \in 1 .. Depth' : Parent(k)' \in Inner'
      BY <1>11, <2>2, <2>5
    <3>2. \A k \in 1 .. Depth' - 1 :
            Parent(k)' = memory'[Parent(k + 1)'][ChildField(ReturnTo(k)')]
      BY <1>1, <2>3, <2>5
    <3>3. stack'[3 * Depth' - 1] = root'
      BY <1>1, <2>4, <2>5
    <3> QED
      BY <3>1, <3>2, <3>3 DEF Path, Parent
<1>15. Descent(regs.ra)'
  <2>1. Fits(Parent(1))'
    BY <1>1, <1>8, <1>11, <1>13 DEF Fits
  <2>2. Towards(Parent(1))' = line
    BY <1>1, <1>13 DEF Towards
  <2> QED
    BY <1>1, <1>3, <1>6, <1>11, <2>1, <2>2 DEF Descent
<1>16. Insertion'
  <2>1. regs'.a1 = call'.node
    BY <1>1, <1>3, <1>6
  <2>2. Depth' # 0
    BY <1>2, <1>13, InsertState, SMT
  <2>3. regs'.a0 = memory'[Parent(1)'][ChildField(regs'.ra)]
    BY <1>1, <1>6, <1>13
  <2> QED
    BY <1>1, <1>2, <1>9, <1>14, <1>15, <2>1, <2>2, <2>3, InsertState DEF Insertion
<1> QED
  BY <1>1, <1>9, <1>11, <1>12, <1>16 DEF TreeInv

\* What the return from a recursion does to a node of the tree: it gets the new
\* node as a child that was missing, or it stays as it is.
LinkedAsLeaf(node) ==
  \/ node.left = NULL /\ memory'[Parent(1)] = [node EXCEPT !.left = call.node]
  \/ node.right = NULL /\ memory'[Parent(1)] = [node EXCEPT !.right = call.node]

LEMMA ChildIsStored ==
  ASSUME TreeInv, Control', InsertReturns
  PROVE  /\ Depth # 0 /\ Parent(1) \in Inner
         /\ root # NULL /\ Len(keys) # 0 /\ root = First(Len(keys))
         /\ memory' \in [Node -> BSTNode] /\ Shape(memory', Len(keys))
         /\ \A n \in Inner : memory'[n] # memory[n] =>
              n = Parent(1) /\ LinkedAsLeaf(memory[n])
         /\ \A n \in Inner : \A f \in {"left", "right"} :
              memory[n][f] # NULL => memory'[n][f] = memory[n][f]
         /\ Inner \subseteq 1 .. Len(keys)
<1> DEFINE p == Parent(1)
           f == ChildField(pc)
<1>1. pc \in AfterInsert /\ memory' = [memory EXCEPT ![p][f] = regs.v0]
  <2>1. p = stack[2]
    <3>1. 3 * 1 - 1 = 2
      BY SMT
    <3> QED
      BY <3>1 DEF Parent
  <2> QED
    BY <2>1, Offsets DEF InsertReturns, ParentFromStack, AfterInsert
<1>2. pc \in {bst_insert} \cup AfterInsert /\ pc # bst_insert
  BY <1>1, Labels DEF AfterInsert
<1>3. /\ Size \in Nat /\ Size \in 0 .. Nodes /\ Len(keys) \in 0 .. Nodes
      /\ Size \in {Len(keys) - 1, Len(keys)} /\ Shape(memory, Size)
      /\ memory \in [Node -> BSTNode] /\ root = First(Size)
      /\ call.node = Len(keys) /\ call.node \in Node /\ Depth \in Nat
  BY <1>2, InsertState DEF IsTree
<1>4. Depth # 0
  BY <1>1, <1>2, InsertState DEF ControlFlow, Recursive
<1>5. p \in Inner
  <2>1. 1 \in 1 .. Depth
    BY <1>3, <1>4, SMT
  <2> QED
    BY <1>2, <2>1, InsertState DEF Path
<1>6. Size # 0 /\ Len(keys) # 0 /\ p \in Node /\ p # NULL /\ p \in 1 .. Size
  BY <1>3, <1>5, NodesAssumption, SMT DEF Inner, Node, NULL
<1>7. root = 1 /\ root # NULL /\ root = First(Len(keys))
  BY <1>3, <1>6, SMT DEF First, NULL
<1>8. f \in {"left", "right"}
  BY DEF ChildField
<1>9. memory[p] \in BSTNode /\ \A n \in Inner : n \in Node
  BY <1>3, <1>6, NodeTypes DEF Inner
<1>10. Inner \subseteq 1 .. Len(keys)
  BY <1>3, NodesAssumption, SMT DEF Inner
<1>11. CASE /\ Descent(pc) /\ regs.v0 = call.node
            /\ memory[p][f] = NULL
  <2>1. call.node \notin Inner /\ Fits(p) /\ pc = Towards(p)
    BY <1>3, <1>4, <1>11, SMT DEF Descent
  <2>2. /\ call.node = Size + 1 /\ Len(keys) = Size + 1
        /\ memory[call.node].left = NULL /\ memory[call.node].right = NULL
        /\ memory[call.node].key \in Int
    BY <1>2, <2>1, NewNode
  <2>3. f = IF memory[call.node].key < memory[p].key THEN "left" ELSE "right"
    BY <2>1, Labels DEF Towards, ChildField
  <2>4. FitsBelow(memory, Size, p, memory[call.node].key)
    BY <2>1 DEF Fits
  <2>5. memory' = [memory EXCEPT ![p][f] = call.node]
    BY <1>1, <1>11
  <2> HIDE DEF p, f
  <2>6. Shape(memory', Len(keys))
    <3>1. Shape([memory EXCEPT ![p][f] = call.node], call.node)
      BY <1>3, <1>6, <1>8, <1>11, <2>2, <2>3, <2>4, ShapeGrows
    <3> QED
      BY <1>3, <2>5, <3>1
  <2>7. call.node \in Link
    BY <1>3, LinkType
  <2>8. /\ memory' \in [Node -> BSTNode]
        /\ \A n \in Node : n # p => memory'[n] = memory[n]
        /\ f = "left" => memory'[p] = [memory[p] EXCEPT !.left = call.node]
        /\ f = "right" => memory'[p] = [memory[p] EXCEPT !.right = call.node]
    <3>1. CASE f = "left"
      BY <1>3, <1>6, <1>9, <2>5, <2>7, <3>1 DEF BSTNode
    <3>2. CASE f = "right"
      BY <1>3, <1>6, <1>9, <2>5, <2>7, <3>2 DEF BSTNode
    <3> QED
      BY <1>8, <3>1, <3>2
  <2>9. LinkedAsLeaf(memory[p])
    BY <1>8, <1>11, <2>8 DEF LinkedAsLeaf, p
  <2>10. ASSUME NEW g \in {"left", "right"}, memory[p][g] # NULL
         PROVE  memory'[p][g] = memory[p][g]
    BY <1>8, <1>9, <1>11, <2>8, <2>10 DEF BSTNode
  <2>11. \A n \in Inner : memory'[n] # memory[n] => n = p /\ LinkedAsLeaf(memory[n])
    BY <1>9, <2>8, <2>9
  <2>12. \A n \in Inner : \A g \in {"left", "right"} :
           memory[n][g] # NULL => memory'[n][g] = memory[n][g]
    BY <1>9, <2>8, <2>10
  <2> QED
    BY <1>4, <1>5, <1>6, <1>7, <1>10, <2>6, <2>8, <2>11, <2>12 DEF p
<1>12. CASE call.node \in Inner /\ regs.v0 = memory[p][f]
  <2>1. Size = Len(keys)
    BY <1>3, <1>12, NodesAssumption, SMT DEF Inner
  <2>2. memory' = memory
    <3>1. CASE f = "left"
      BY <1>1, <1>3, <1>6, <1>9, <1>12, <3>1 DEF BSTNode
    <3>2. CASE f = "right"
      BY <1>1, <1>3, <1>6, <1>9, <1>12, <3>2 DEF BSTNode
    <3> QED
      BY <1>8, <3>1, <3>2
  <2> QED
    BY <1>3, <1>4, <1>5, <1>6, <1>7, <1>10, <2>1, <2>2
<1> QED
  BY <1>1, <1>2, <1>11, <1>12, InsertState DEF Insertion

\* Back from a recursion: the child is stored, and the node itself is returned.
LEMMA InsertReturnsTree ==
  ASSUME TreeInv, Control', InsertReturns
  PROVE  TreeInv' /\ Root' = root /\ Size' = Len(keys)
<1> DEFINE p == Parent(1)
<1>1. /\ pc \in AfterInsert /\ pc' = regs'.ra
      /\ regs' = [regs EXCEPT !.v0 = p, !.a0 = p, !.a1 = stack[1], !.ra = ReturnTo(1)]
      /\ stack' = SubSeq(stack, 4, Len(stack)) /\ Popped(12) = stack'
      /\ UNCHANGED <<console, root, keys, call>>
  <2>1. p = stack[2] /\ ReturnTo(1) = stack[3] /\ 3 + 1 = 4
    <3>1. 3 * 1 - 1 = 2 /\ 3 * 1 = 3 /\ 3 + 1 = 4
      BY SMT
    <3> QED
      BY <3>1 DEF Parent, ReturnTo
  <2> QED
    BY <2>1, Offsets DEF InsertReturns, ParentFromStack, ReturnsRoot, AfterInsert, JrRa
<1>2. pc \in {bst_insert} \cup AfterInsert
  BY <1>1
<1>3. /\ Depth # 0 /\ p \in Inner
      /\ root # NULL /\ Len(keys) # 0 /\ root = First(Len(keys))
      /\ memory' \in [Node -> BSTNode] /\ Shape(memory', Len(keys))
      /\ \A n \in Inner : \A f \in {"left", "right"} :
           memory[n][f] # NULL => memory'[n][f] = memory[n][f]
      /\ Inner \subseteq 1 .. Len(keys)
  BY ChildIsStored
<1>4. /\ stack \in Seq(Int) /\ Depth \in Nat /\ Len(stack) = 3 * Depth /\ regs \in Registers
      /\ Path /\ call.fn = "insert" /\ call.node = Len(keys) /\ Len(keys) \in 0 .. Nodes
      /\ Size \in Nat /\ call # NoCall /\ Frames(stack, 3, AfterInsert)
      /\ (Depth = 0 <=> stack = << >>)
  BY <1>2, InsertState
<1>5. OneFrameLess(stack, stack', Depth)
  BY <1>1, <1>3, <1>4, DepthPopped, Zenon
<1>6. regs'.v0 = p /\ regs'.ra = ReturnTo(1)
  BY <1>1, <1>4 DEF Registers
<1>7. IF stack' = << >> THEN pc' = Caller(4) ELSE pc' \in AfterInsert
  <2>1. IF Popped(12) = << >> THEN stack[3] = Caller(4) ELSE stack[3] \in AfterInsert
    BY <1>3, <1>4, FramePopped, Offsets
  <2>2. 3 * 1 = 3
    BY SMT
  <2> QED
    BY <1>1, <1>6, <2>1, <2>2 DEF ReturnTo
<1>8. p \in Nat /\ p # NULL
  BY <1>3, <1>4, SMT DEF Inner, NULL
<1> HIDE DEF p
<1>9. /\ Depth' = Depth - 1 /\ (stack' = << >> <=> Depth = 1)
      /\ \A k \in 1 .. Depth - 1 :
           Parent(k)' = Parent(k + 1) /\ ReturnTo(k)' = ReturnTo(k + 1)
  BY <1>5 DEF OneFrameLess, Depth, Parent, ReturnTo
<1>10. pc' # bst_init_node /\ pc' # bst_insert
  BY <1>7, Labels DEF AfterInsert
<1>11. NoCall' = NoCall
  BY DEF NoCall
<1>12. Root' = root
  <2>1. CASE stack' = << >>
    <3>1. Depth = 1 /\ Parent(Depth) = root
      BY <1>3, <1>4, <1>9, <2>1, SMT DEF Path
    <3> QED
      BY <1>1, <1>4, <1>6, <1>7, <1>11, <2>1, <3>1 DEF Root, Returned, p
  <2>2. CASE stack' # << >>
    <3>1. pc' # Caller(4)
      BY <1>7, <2>2, Labels DEF AfterInsert
    <3> QED
      BY <1>1, <3>1, RootOfCaller
  <2> QED
    BY <2>1, <2>2
<1>13. Size' = Len(keys)
  <2>1. /\ SizeOf(memory', First(Len(keys)), Len(keys)) = Len(keys)
    <3>1. Len(keys) \in Nat /\ Len(keys) \in {Len(keys) - 1, Len(keys)}
      BY <1>4, NodesAssumption, SMT
    <3> QED
      BY <1>3, <1>4, <3>1, SizeOfShape
  <2> QED
    BY <1>1, <1>3, <1>12, <2>1 DEF Size
<1>14. IsTree' /\ Inner' = 1 .. Len(keys)
  <2>1. Len(keys) \in Nat
    BY <1>4, NodesAssumption, SMT
  <2> QED
    BY <1>1, <1>3, <1>12, <1>13, <2>1 DEF IsTree, Inner
<1>15. Fresh'
  <2>1. (1 .. Len(keys))' \ Inner' = {}
    BY <1>1, <1>14
  <2> QED
    BY <1>10, <2>1 DEF Fresh
<1>16. Path'
  <2>1. ASSUME NEW k \in 1 .. Depth - 1
        PROVE  Parent(k)' \in Inner'
    <3>1. k + 1 \in 1 .. Depth
      BY <1>4, SMT
    <3> QED
      BY <1>3, <1>4, <1>9, <1>14, <3>1 DEF Path
  <2>2. ASSUME NEW k \in 1 .. Depth - 2
        PROVE  Parent(k)' = memory'[Parent(k + 1)'][ChildField(ReturnTo(k)')]
    <3>1. /\ k \in 1 .. Depth - 1 /\ k + 1 \in 1 .. Depth - 1 /\ k + 1 \in 1 .. Depth
          /\ (k + 1) + 1 \in 1 .. Depth
      BY <1>4, SMT
    <3>2. /\ Parent(k + 1) = memory[Parent((k + 1) + 1)][ChildField(ReturnTo(k + 1))]
          /\ Parent(k + 1) \in Inner /\ Parent((k + 1) + 1) \in Inner
      BY <1>4, <3>1 DEF Path
    <3>3. Parent(k + 1) # NULL
      BY <1>4, <3>2, SMT DEF Inner, NULL
    <3>4. ChildField(ReturnTo(k + 1)) \in {"left", "right"}
      BY DEF ChildField
    <3>5. Parent(k + 1) = memory'[Parent((k + 1) + 1)][ChildField(ReturnTo(k + 1))]
      BY <1>3, <3>2, <3>3, <3>4
    <3>6. Parent(k)' = Parent(k + 1) /\ ReturnTo(k)' = ReturnTo(k + 1)
      BY <1>9, <3>1
    <3>7. Parent(k + 1)' = Parent((k + 1) + 1)
      BY <1>9, <3>1
    <3> QED
      BY <3>5, <3>6, <3>7
  <2>3. Depth - 1 > 0 => stack'[3 * (Depth - 1) - 1] = root
    <3>1. ASSUME Depth - 1 > 0 PROVE Depth - 1 \in 1 .. Depth - 1 /\ (Depth - 1) + 1 = Depth
      BY <1>4, <3>1, SMT
    <3>2. ASSUME Depth - 1 > 0 PROVE stack'[3 * (Depth - 1) - 1] = stack[3 * ((Depth - 1) + 1) - 1]
      BY <1>5, <3>1, <3>2 DEF OneFrameLess
    <3>3. Depth > 0 => stack[3 * Depth - 1] = root
      BY <1>4 DEF Path, Parent
    <3>4. Depth > 0
      BY <1>3, <1>4, SMT
    <3> QED
      BY <3>1, <3>2, <3>3, <3>4
  <2>4. Depth' = Depth - 1 /\ Depth' - 1 = Depth - 2
    BY <1>4, <1>9, SMT
  <2> QED
    <3>1. \A k \in 1 .. Depth' : Parent(k)' \in Inner'
      BY <2>1, <2>4
    <3>2. \A k \in 1 .. Depth' - 1 :
            Parent(k)' = memory'[Parent(k + 1)'][ChildField(ReturnTo(k)')]
      BY <2>2, <2>4
    <3>3. Depth' > 0 => stack'[3 * Depth' - 1] = root'
      BY <1>1, <2>3, <2>4
    <3> QED
      BY <3>1, <3>2, <3>3 DEF Path, Parent
<1>17. pc' \in AfterInsert =>
         call.node \in Inner' /\ regs'.v0 = memory'[Parent(1)'][ChildField(pc')]
  <2> SUFFICES ASSUME pc' \in AfterInsert
               PROVE  call.node \in Inner' /\ regs'.v0 = memory'[Parent(1)'][ChildField(pc')]
    OBVIOUS
  <2>1. Depth # 1
    BY <1>7, <1>9, Labels DEF AfterInsert
  <2>2. 1 \in 1 .. Depth - 1 /\ 1 + 1 \in 1 .. Depth
    BY <1>3, <1>4, <2>1, SMT
  <2>3. p = memory[Parent(1 + 1)][ChildField(ReturnTo(1))] /\ Parent(1 + 1) \in Inner
    BY <1>4, <2>2 DEF Path, p
  <2>4. ChildField(ReturnTo(1)) \in {"left", "right"}
    BY DEF ChildField
  <2>5. p = memory'[Parent(1 + 1)][ChildField(ReturnTo(1))]
    BY <1>3, <1>8, <2>3, <2>4
  <2>6. Parent(1)' = Parent(1 + 1)
    BY <1>9, <2>2
  <2>7. call.node \in Inner'
    BY <1>3, <1>4, <1>14, NodesAssumption, SMT
  <2> QED
    BY <1>1, <1>6, <2>5, <2>6, <2>7
<1>18. Insertion'
  <2>1. call'.node = Len(keys') /\ Len(keys') # 0
    BY <1>1, <1>3, <1>4
  <2> QED
    BY <1>1, <1>10, <1>16, <1>17, <2>1 DEF Insertion
<1> QED
  BY <1>12, <1>13, <1>14, <1>15, <1>18 DEF TreeInv

-----------------------------------------------------------------------------
(* The tree in every state. *)

LEMMA InitTree == Init => TreeInv
<1> SUFFICES ASSUME Init PROVE TreeInv
  OBVIOUS
<1>1. Control
  BY InitControl
<1>2. pc = Caller(4) /\ root = NULL /\ keys = << >> /\ call = NoCall
  BY DEF Init
<1>3. Root = NULL /\ Len(keys) = 0
  BY <1>2, EmptySeq DEF Root, Returned
<1>4. Size = 0 /\ 0 \in Nat
  BY <1>3, SMT DEF Size, SizeOf, NULL
<1>5. Shape(memory, 0)
  <2>1. 1 .. 0 = {} /\ 2 .. 0 = {}
    BY SMT
  <2> QED
    BY <2>1 DEF Shape, Links, OneParent, Sorted
<1>6. IsTree
  BY <1>3, <1>4, <1>5 DEF IsTree, First
<1>7. pc # bst_init_node /\ pc \notin {bst_insert} \cup AfterInsert
  BY <1>2, Labels DEF AfterInsert
<1>8. 1 .. Len(keys) = {}
  BY <1>3, SMT
<1>9. Fresh
  BY <1>7, <1>8 DEF Fresh
<1>10. call.fn # "insert"
  BY <1>2, NoCallType
<1> QED
  BY <1>1, <1>6, <1>7, <1>9, <1>10 DEF TreeInv, Insertion

\* Every step keeps the tree, and only the recursion that links a node changes one.
LEMMA TreeStep ==
  ASSUME TreeInv, [Next]_vars
  PROVE  /\ TreeInv'
         /\ \A n \in Inner : memory'[n] # memory[n] =>
              pc \in AfterInsert /\ LinkedAsLeaf(memory[n]) /\ n = Parent(1)
         /\ pc = Caller(4) => memory' = memory
<1>1. Control'
  BY ControlStep DEF TreeInv
<1>2. CASE InsertReturns
  <2>1. pc \in AfterInsert /\ pc # Caller(4)
    BY <1>2, Labels DEF InsertReturns, AfterInsert
  <2> QED
    BY <1>1, <1>2, <2>1, InsertReturnsTree, ChildIsStored
<1>3. CASE InitNode
  <2>1. pc # Caller(4)
    BY <1>3, Labels DEF InitNode
  <2> QED
    BY <1>1, <1>3, <2>1, InitNodeTree
<1>4. CASE InsertHere \/ InsertBelow
  BY <1>1, <1>4, InsertHereTree, InsertBelowTree
<1>5. CASE Code /\ ~(InsertReturns \/ InitNode \/ InsertHere \/ InsertBelow)
  <2>1. \/ Search \/ SearchReturns \/ SearchDescends
        \/ CountNothing \/ CountLeft \/ CountRight \/ CountReturns
        \/ TraverseNothing \/ InOrderLeft \/ InOrderRight \/ PreOrderLeft \/ PreOrderRight
        \/ TraversalReturns
    BY <1>5, Zenon DEF Code
  <2> QED
    BY <1>1, <2>1, OtherCodeTree
<1>6. CASE TestStep
  BY <1>1, <1>6, CallerTree
<1>7. CASE UNCHANGED vars
  <2>1. UNCHANGED <<pc, regs, stack, console, memory, root, keys, call>>
    BY <1>7 DEF vars
  <2>2. NoCall' = NoCall
    BY DEF NoCall
  <2>3. Root' = Root
    BY <2>1, <2>2, Zenon DEF Root, Returned
  <2>4. IsTree' /\ Inner' = Inner
    BY <2>1, <2>3, SameTree DEF TreeInv
  <2>5. Fresh'
    BY <2>1, <2>4, Zenon DEF TreeInv, Fresh
  <2>6. Insertion'
    <3>1. /\ Depth' = Depth /\ Parent(1)' = Parent(1)
          /\ call' = call /\ memory' = memory /\ regs' = regs /\ pc' = pc
      BY <2>1 DEF Depth, Parent
    <3>2. Path' = Path
      BY <2>1, <2>4, <3>1, Zenon DEF Path, Depth, Parent, ReturnTo
    <3>3. Fits(Parent(1))' = Fits(Parent(1)) /\ Towards(Parent(1))' = Towards(Parent(1))
      <4>1. Size' = Size
        BY <2>1, <2>3 DEF Size
      <4> QED
        BY <2>1, <3>1, <4>1 DEF Fits, Towards
    <3>4. \A line : Descent(line)' = Descent(line)
      BY <2>4, <3>1, <3>3, Zenon DEF Descent
    <3>5. Insertion
      BY DEF TreeInv
    <3> QED
      BY <2>1, <2>4, <3>1, <3>2, <3>4, <3>5, Zenon DEF Insertion
  <2> QED
    BY <1>1, <2>1, <2>4, <2>5, <2>6 DEF TreeInv
<1> QED
  <2>1. CASE Code
    BY <1>2, <1>3, <1>4, <1>5, <2>1
  <2>2. CASE Next /\ ~Code
    BY <1>6, <2>2 DEF Next, TestStep
  <2> QED
    BY <1>7, <2>1, <2>2

LEMMA TreeInvariant == Spec => []TreeInv
BY InitTree, TreeStep, PTL DEF Spec

-----------------------------------------------------------------------------

\* Whatever keys are inserted in whatever order, and in every state of every
\* insertion, what hangs from the root is a tree: no node has two parents, and the
\* keys on the left are smaller and those on the right are not.
THEOREM TreeIsOrdered == Spec => []OrderedTree
<1>1. ASSUME TreeInv PROVE OrderedTree
  <2>1. /\ Linked = Inner /\ memory \in [Node -> BSTNode] /\ Size \in 0 .. Nodes
        /\ Shape(memory, Size) /\ Root = First(Size)
    BY <1>1, LinkedNodes, SizeType, Types DEF TreeInv, Control, IsTree
  <2>2. \A n : Children(n) = Kids(memory, n)
    BY DEF Children, Kids
  <2>3. /\ Links(memory, Size) /\ OneParent(memory, Size) /\ Sorted(memory, Size)
    BY <2>1 DEF Shape
  <2>4. ASSUME NEW n \in Inner
        PROVE  Cardinality({m \in Inner : n \in Kids(memory, m)}) = IF n = Root THEN 0 ELSE 1
    <3> DEFINE parents == {m \in Inner : n \in Kids(memory, m)}
    <3>1. n \in 1 .. Size /\ n \in Nat /\ Size # 0 /\ Root = 1
      BY <2>1, <2>4, NodesAssumption, SMT DEF Inner, First
    <3>2. CASE n = Root
      <4>1. ASSUME NEW m \in parents PROVE FALSE
        <5>1. m \in 1 .. Size /\ n \in Kids(memory, m)
          BY DEF Inner
        <5>2. n \in m + 1 .. Size
          BY <2>3, <5>1 DEF Links
        <5> QED
          BY <3>1, <3>2, <5>1, <5>2, SMT
      <4>2. parents = {}
        BY <4>1
      <4> QED
        BY <3>2, <4>2, FS_EmptySet
    <3>3. CASE n # Root
      <4>1. n \in 2 .. Size
        BY <3>1, <3>3, SMT
      <4>2. PICK p \in 1 .. Size : n \in Kids(memory, p)
        BY <2>3, <4>1 DEF OneParent
      <4>3. \A m \in 1 .. Size : n \in Kids(memory, m) => m = p
        BY <2>3, <4>2 DEF OneParent
      <4>4. parents = {p}
        BY <4>2, <4>3 DEF Inner
      <4>5. Cardinality({p}) = 1
        BY FS_Singleton
      <4> QED
        BY <3>3, <4>4, <4>5
    <3> QED
      BY <3>2, <3>3
  <2>5. ASSUME NEW n \in Inner
        PROVE  /\ memory[n].left # memory[n].right \/ memory[n].left = NULL
               /\ \A m \in From(memory[n].left) : memory[m].key < memory[n].key
               /\ \A m \in From(memory[n].right) : memory[m].key >= memory[n].key
    BY <2>3, FromIsBelow DEF OneParent, Sorted, Inner
  <2> QED
    BY <2>1, <2>2, <2>4, <2>5 DEF OrderedTree
<1> QED
  BY <1>1, TreeInvariant, PTL

\* A step changes a node of the tree only by hanging the new node where nothing
\* hung: when the recursions return, each writes a link of its node again, and all
\* but the innermost write what was there.
THEOREM TreeGrowsByLeaves == Spec => OnlyALeafIsAdded
<1> DEFINE Leaf(n) ==
      /\ call.fn = "insert"
      /\ \/ /\ memory[n].left = NULL
            /\ memory'[n] = [memory[n] EXCEPT !.left = call.node]
         \/ /\ memory[n].right = NULL
            /\ memory'[n] = [memory[n] EXCEPT !.right = call.node]
<1>1. ASSUME TreeInv, [Next]_vars
      PROVE  \A n \in From(root) : memory'[n] # memory[n] => Leaf(n)
  <2>1. CASE pc = Caller(4)
    BY <1>1, <2>1, TreeStep
  <2>2. CASE pc # Caller(4)
    <3>1. From(root) = Inner
      BY <1>1, <2>2, RootOfCaller, LinkedNodes DEF Linked, TreeInv, Control
    <3>2. ASSUME NEW n \in Inner, memory'[n] # memory[n] PROVE Leaf(n)
      <4>1. pc \in {bst_insert} \cup AfterInsert /\ LinkedAsLeaf(memory[n]) /\ n = Parent(1)
        BY <1>1, <3>2, TreeStep
      <4>2. call.fn = "insert"
        BY <1>1, <4>1, InsertState
      <4> QED
        BY <4>1, <4>2 DEF LinkedAsLeaf
    <3> QED
      BY <3>1, <3>2
  <2> QED
    BY <2>1, <2>2
<1>2. ASSUME TreeInv, [Next]_vars
      PROVE  [\A n \in From(root) : memory'[n] # memory[n] => Leaf(n)]_vars
  BY <1>1, <1>2
<1> QED
  BY <1>2, TreeInvariant, PTL DEF Spec, OnlyALeafIsAdded

-----------------------------------------------------------------------------
(* Induction on a tree, from the leaves to the root. *)

LEMMA TreeInduction ==
  ASSUME NEW heap \in [Node -> BSTNode], NEW size \in 0 .. Nodes, Links(heap, size),
         NEW P, NULL \in P,
         \A n \in 1 .. size : heap[n].left \in P /\ heap[n].right \in P => n \in P
  PROVE  0 .. size \subseteq P
<1> DEFINE Q == {d \in Nat : \A n \in 1 .. size : n + d > size => n \in P}
<1>0. size \in Nat
  BY NodesAssumption, SMT
<1>1. 0 \in Q
  BY <1>0, SMT
<1>2. ASSUME NEW d \in Nat, d \in Q PROVE d + 1 \in Q
  <2>1. ASSUME NEW n \in 1 .. size, n + (d + 1) > size PROVE n \in P
    <3>1. ASSUME NEW c \in {heap[n].left, heap[n].right} PROVE c \in P
      <4>1. CASE c = NULL
        BY <4>1
      <4>2. CASE c # NULL
        <5>1. c \in 1 .. size /\ c > n
          BY <4>2, ChildTypes
        <5>2. c + d > size
          BY <1>0, <2>1, <5>1, SMT
        <5> QED
          BY <1>2, <5>1, <5>2
      <4> QED
        BY <4>1, <4>2
    <3> QED
      BY <3>1
  <2> QED
    BY <2>1, SMT
<1>3. size \in Q
  <2> HIDE DEF Q
  <2> QED
    BY <1>0, <1>1, <1>2, SetInduction
<1>4. \A n \in 0 .. size : n = NULL \/ (n \in 1 .. size /\ n + size > size)
  BY <1>0, SMT DEF NULL
<1> QED
  BY <1>3, <1>4

-----------------------------------------------------------------------------
(* The keys of a tree in the order of a traversal. *)

\* What a traversal prints for a node, from what it prints for its children.
Visit(inOrder, left, key, right) ==
  IF inOrder THEN left \o <<key>> \o right ELSE <<key>> \o left \o right

IsOrder(order, heap, size, inOrder) ==
  /\ order \in [0 .. size -> Seq(Int)]
  /\ order[NULL] = << >>
  /\ \A n \in 1 .. size :
       order[n] = Visit(inOrder, order[heap[n].left], heap[n].key, order[heap[n].right])

LEMMA VisitType ==
  ASSUME NEW inOrder, NEW left \in Seq(Int), NEW key \in Int, NEW right \in Seq(Int)
  PROVE  Visit(inOrder, left, key, right) \in Seq(Int)
<1>1. <<key>> \in Seq(Int)
  BY SMT
<1>2. left \o <<key>> \in Seq(Int) /\ <<key>> \o left \in Seq(Int)
  BY <1>1, ConcatProperties
<1>3. (left \o <<key>>) \o right \in Seq(Int) /\ (<<key>> \o left) \o right \in Seq(Int)
  BY <1>2, ConcatProperties
<1> QED
  BY <1>3 DEF Visit

\* A tree has such an order: it is found by deeper and deeper recursion.
LEMMA OrderExists ==
  ASSUME NEW heap \in [Node -> BSTNode], NEW size \in 0 .. Nodes, Links(heap, size), NEW inOrder
  PROVE  \E order : IsOrder(order, heap, size, inOrder)
<1> DEFINE S == [0 .. size -> Seq(Int)]
           Step(v) == [n \in 0 .. size |->
                         IF n = NULL THEN << >>
                         ELSE Visit(inOrder, v[heap[n].left], heap[n].key, v[heap[n].right])]
           start == [n \in 0 .. size |-> << >>]
           g == [d \in Nat |-> [v \in S |-> Step(v)]]
<1>0. size \in Nat /\ NULL \in 0 .. size /\ \A n \in 0 .. size : n # NULL => n \in 1 .. size
  BY NodesAssumption, SMT DEF NULL
<1>1. \A n \in 1 .. size : heap[n].left \in 0 .. size /\ heap[n].right \in 0 .. size
  <2>1. \A n \in 1 .. size : \A c : c \in {heap[n].left, heap[n].right} => c = NULL \/ c \in 1 .. size
    BY ChildTypes
  <2>2. \A c \in 1 .. size : c \in 0 .. size
    BY <1>0, SMT
  <2> QED
    BY <1>0, <2>1, <2>2
<1>2. \A n \in 1 .. size : heap[n].key \in Int
  BY NodeTypes
<1>3. start \in S
  <2>1. << >> \in Seq(Int)
    BY SMT
  <2> QED
    BY <2>1
<1>4. ASSUME NEW v \in S PROVE Step(v) \in S
  <2>1. ASSUME NEW n \in 0 .. size, n # NULL
        PROVE  Visit(inOrder, v[heap[n].left], heap[n].key, v[heap[n].right]) \in Seq(Int)
    BY <1>0, <1>1, <1>2, <2>1, VisitType
  <2>2. << >> \in Seq(Int)
    BY SMT
  <2> QED
    BY <2>1, <2>2
<1>5. g \in [Nat -> [S -> S]] /\ \A d \in Nat, v \in S : g[d][v] = Step(v)
  <2> HIDE DEF Step, S
  <2> QED
    BY <1>4, Zenon
<1> HIDE DEF g, S
<1>6. PICK w : SolvesRecursion(w, S, start, g)
  <2> HIDE DEF start
  <2> QED
    BY <1>3, <1>5, RecursiveFunction
<1>7. w \in [Nat -> S] /\ w[0] = start /\ \A d \in Nat : w[d + 1] = Step(w[d])
  <2> HIDE DEF start, Step
  <2> QED
    BY <1>5, <1>6, Zenon DEF SolvesRecursion
<1>8. \A v \in S : Step(v)[NULL] = << >>
  BY <1>0
<1>9. \A v \in S, n \in 1 .. size :
        Step(v)[n] = Visit(inOrder, v[heap[n].left], heap[n].key, v[heap[n].right])
  <2>1. \A n \in 1 .. size : n \in 0 .. size /\ n # NULL
    BY <1>0, SMT DEF NULL
  <2> HIDE DEF Visit
  <2> QED
    BY <2>1
<1> DEFINE P == {n \in 0 .. size : \A d \in Nat : n + d > size \/ n = NULL => w[d + 1][n] = w[d][n]}
<1>10. NULL \in P
  <2>1. ASSUME NEW d \in Nat PROVE w[d][NULL] = << >>
    <3>1. CASE d = 0
      BY <1>0, <1>7, <3>1
    <3>2. CASE d # 0
      <4>1. d - 1 \in Nat /\ (d - 1) + 1 = d
        BY <3>2, SMT
      <4>2. w[d] = Step(w[d - 1]) /\ w[d - 1] \in S
        <5> HIDE DEF Step
        <5> QED
          BY <1>7, <4>1
      <4> QED
        BY <1>8, <4>2
    <3> QED
      BY <3>1, <3>2
  <2>2. \A d \in Nat : d + 1 \in Nat
    BY SMT
  <2> QED
    BY <1>0, <2>1, <2>2
<1>11. ASSUME NEW n \in 1 .. size, heap[n].left \in P, heap[n].right \in P PROVE n \in P
  <2>1. ASSUME NEW d \in Nat, n + d > size PROVE w[d + 1][n] = w[d][n]
    <3>1. d # 0 /\ d - 1 \in Nat /\ (d - 1) + 1 = d /\ d + 1 \in Nat
      BY <1>0, <2>1, SMT
    <3>2. ASSUME NEW c \in {heap[n].left, heap[n].right} PROVE w[d][c] = w[d - 1][c]
      <4>1. c = NULL \/ c + (d - 1) > size
        <5>1. CASE c # NULL
          <6>1. c \in 1 .. size /\ c > n
            BY <5>1, ChildTypes
          <6> QED
            BY <1>0, <2>1, <6>1, SMT
        <5> QED
          BY <5>1
      <4>2. c \in P
        BY <1>11
      <4> QED
        BY <3>1, <4>1, <4>2
    <3>3. w[d + 1] = Step(w[d]) /\ w[d] = Step(w[d - 1]) /\ w[d] \in S /\ w[d - 1] \in S
      <4> HIDE DEF Step
      <4> QED
        BY <1>7, <3>1
    <3> HIDE DEF Step
    <3> QED
      BY <1>9, <3>2, <3>3
  <2>2. n \in 0 .. size /\ n # NULL
    BY <1>0, SMT DEF NULL
  <2> QED
    BY <2>1, <2>2
<1>12. 0 .. size \subseteq P
  <2> HIDE DEF P
  <2> QED
    BY <1>10, <1>11, TreeInduction
<1>13. \A n \in 0 .. size : w[size + 1][n] = w[size][n]
  <2>1. \A n \in 0 .. size : n + size > size \/ n = NULL
    BY <1>0, SMT DEF NULL
  <2> QED
    BY <1>0, <1>12, <2>1
<1> HIDE DEF P
<1>14. w[size + 1] = Step(w[size]) /\ w[size] \in S
  <2> HIDE DEF Step
  <2> QED
    BY <1>0, <1>7
<1> HIDE DEF Step
<1>15. IsOrder(w[size], heap, size, inOrder)
  <2>1. \A n \in 1 .. size : n \in 0 .. size
    BY <1>0, SMT
  <2> QED
    BY <1>0, <1>8, <1>9, <1>13, <1>14, <2>1 DEF IsOrder, S
<1> QED
  BY <1>15

-----------------------------------------------------------------------------
(* How often a key is in a tree, and in its order. *)

Occurrences(s, K) == {i \in DOMAIN s : s[i] \in K}
NodesWith(heap, n, K) == {m \in Below(heap, n) : heap[m].key \in K}

LEMMA OccurrencesFinite ==
  ASSUME NEW s \in Seq(Int), NEW K
  PROVE  /\ IsFiniteSet(Occurrences(s, K)) /\ Cardinality(Occurrences(s, K)) \in Nat
         /\ Occurrences(s, K) \subseteq 1 .. Len(s)
<1>1. Len(s) \in Nat /\ DOMAIN s = 1 .. Len(s)
  BY LenProperties
<1>2. IsFiniteSet(1 .. Len(s))
  BY <1>1, FS_Interval, SMT
<1>3. Occurrences(s, K) \subseteq 1 .. Len(s)
  BY <1>1 DEF Occurrences
<1>4. IsFiniteSet(Occurrences(s, K))
  BY <1>2, <1>3, FS_Subset
<1> QED
  BY <1>3, <1>4, FS_CardinalityType

LEMMA ShiftedIndex ==
  ASSUME NEW n \in Nat, NEW m \in Nat, NEW i \in 1 .. m
  PROVE  i + n \in n + 1 .. n + m /\ (i + n) - n = i
BY SMT

LEMMA OccurrencesConcat ==
  ASSUME NEW s \in Seq(Int), NEW t \in Seq(Int), NEW K
  PROVE  Cardinality(Occurrences(s \o t, K)) =
           Cardinality(Occurrences(s, K)) + Cardinality(Occurrences(t, K))
<1> DEFINE n == Len(s)
           u == s \o t
           O == Occurrences(s, K)
           T == Occurrences(t, K)
           Shifted == {i \in n + 1 .. n + Len(t) : t[i - n] \in K}
           shift == [i \in T |-> i + n]
<1>1. /\ n \in Nat /\ Len(t) \in Nat /\ DOMAIN s = 1 .. n /\ DOMAIN t = 1 .. Len(t)
      /\ u \in Seq(Int) /\ Len(u) = n + Len(t)
      /\ \A i \in 1 .. n + Len(t) : u[i] = IF i <= n THEN s[i] ELSE t[i - n]
  BY ConcatProperties, LenProperties
<1>2. DOMAIN u = 1 .. n + Len(t)
  BY <1>1, LenProperties
<1>3. IsFiniteSet(O) /\ IsFiniteSet(T) /\ O \subseteq 1 .. n /\ T \subseteq 1 .. Len(t)
      /\ Cardinality(O) \in Nat /\ Cardinality(T) \in Nat
  BY OccurrencesFinite
<1> HIDE DEF n, u
<1>4. Occurrences(u, K) = O \cup Shifted
  <2>1. \A i \in 1 .. n + Len(t) :
          \/ i \in 1 .. n /\ i \notin n + 1 .. n + Len(t) /\ u[i] = s[i]
          \/ i \notin 1 .. n /\ i \in n + 1 .. n + Len(t) /\ u[i] = t[i - n]
    BY <1>1, SMT
  <2>2. \A i \in 1 .. n : i \in 1 .. n + Len(t)
    BY <1>1, SMT
  <2>3. \A i \in n + 1 .. n + Len(t) : i \in 1 .. n + Len(t)
    BY <1>1, SMT
  <2> QED
    BY <1>1, <1>2, <2>1, <2>2, <2>3 DEF Occurrences
<1>5. shift \in Bijection(T, Shifted)
  <2>1. \A i \in T : i + n \in Shifted
    <3>1. ASSUME NEW i \in T PROVE i + n \in Shifted
      <4>1. i \in 1 .. Len(t) /\ t[i] \in K
        BY <1>3 DEF Occurrences
      <4>2. n \in Nat /\ Len(t) \in Nat
        BY <1>1
      <4>3. i + n \in n + 1 .. n + Len(t) /\ (i + n) - n = i
        BY <4>1, <4>2, ShiftedIndex
      <4> QED
        BY <4>1, <4>3
    <3> QED
      BY <3>1
  <2>2. \A j \in Shifted : j - n \in T /\ (j - n) + n = j
    <3>1. ASSUME NEW j \in Shifted PROVE j - n \in T /\ (j - n) + n = j
      <4>1. j - n \in 1 .. Len(t) /\ (j - n) + n = j /\ t[j - n] \in K
        BY <1>1, SMT
      <4> QED
        BY <1>1, <4>1 DEF Occurrences
    <3> QED
      BY <3>1
  <2>3. \A a, b \in T : a + n = b + n => a = b
    BY <1>1, <1>3, SMT
  <2>4. shift \in [T -> Shifted]
    BY <2>1
  <2>5. \A a, b \in T : shift[a] = shift[b] => a = b
    BY <2>3
  <2>6. \A j \in Shifted : \E i \in T : shift[i] = j
    BY <2>2
  <2> HIDE DEF T, Shifted, shift
  <2> QED
    BY <2>4, <2>5, <2>6 DEF Bijection, Injection, Surjection, IsInjective
<1>6. IsFiniteSet(Shifted) /\ Cardinality(Shifted) = Cardinality(T)
  <2> HIDE DEF T, Shifted, shift
  <2>1. ExistsBijection(T, Shifted)
    BY <1>5 DEF ExistsBijection
  <2> QED
    BY <1>3, <2>1, FS_Bijection
<1>7. O \cap Shifted = {}
  BY <1>1, <1>3, SMT
<1> HIDE DEF O, T, Shifted
<1>8. Cardinality(O \cup Shifted) = Cardinality(O) + Cardinality(Shifted) - Cardinality({})
  BY <1>3, <1>6, <1>7, FS_Union
<1>9. Cardinality({}) = 0
  BY FS_EmptySet
<1>10. Cardinality(Occurrences(u, K)) = Cardinality(O) + Cardinality(T)
  BY <1>3, <1>4, <1>6, <1>8, <1>9, SMT
<1> QED
  BY <1>10 DEF O, T, u

LEMMA OccurrencesOfOne ==
  ASSUME NEW key \in Int, NEW K
  PROVE  Cardinality(Occurrences(<<key>>, K)) = IF key \in K THEN 1 ELSE 0
<1>1. DOMAIN <<key>> = {1} /\ <<key>>[1] = key
  BY SMT
<1>2. Occurrences(<<key>>, K) = IF key \in K THEN {1} ELSE {}
  BY <1>1, Zenon DEF Occurrences
<1> QED
  BY <1>2, FS_EmptySet, FS_Singleton

LEMMA OccurrencesOfNone == ASSUME NEW K PROVE Cardinality(Occurrences(<< >>, K)) = 0
<1>1. Occurrences(<< >>, K) = {}
  <2>1. DOMAIN << >> = {}
    BY SMT
  <2> QED
    BY <2>1 DEF Occurrences
<1> QED
  BY <1>1, FS_EmptySet

LEMMA OccurrencesVisit ==
  ASSUME NEW inOrder, NEW left \in Seq(Int), NEW key \in Int, NEW right \in Seq(Int), NEW K
  PROVE  Cardinality(Occurrences(Visit(inOrder, left, key, right), K)) =
           Cardinality(Occurrences(left, K)) + (IF key \in K THEN 1 ELSE 0)
             + Cardinality(Occurrences(right, K))
<1> DEFINE C(s) == Cardinality(Occurrences(s, K))
<1>1. <<key>> \in Seq(Int)
  BY SMT
<1>2. left \o <<key>> \in Seq(Int) /\ <<key>> \o left \in Seq(Int)
  BY <1>1, ConcatProperties
<1>3. C(left \o <<key>>) = C(left) + C(<<key>>) /\ C(<<key>> \o left) = C(<<key>>) + C(left)
  BY <1>1, OccurrencesConcat
<1>4. /\ C((left \o <<key>>) \o right) = C(left \o <<key>>) + C(right)
      /\ C((<<key>> \o left) \o right) = C(<<key>> \o left) + C(right)
  <2>1. \A s \in Seq(Int) : C(s \o right) = C(s) + C(right)
    BY OccurrencesConcat
  <2> HIDE DEF C
  <2> QED
    BY <1>2, <2>1, Zenon
<1>5. C(<<key>>) = IF key \in K THEN 1 ELSE 0
  BY OccurrencesOfOne
<1>6. C(left) \in Nat /\ C(right) \in Nat /\ C(<<key>>) \in Nat
  BY <1>1, OccurrencesFinite
<1>7. C(Visit(inOrder, left, key, right)) =
        IF inOrder THEN C((left \o <<key>>) \o right) ELSE C((<<key>> \o left) \o right)
  BY DEF Visit
<1> HIDE DEF C
<1>8. C(Visit(inOrder, left, key, right)) = C(left) + C(<<key>>) + C(right)
  <2> DEFINE a == C(left)
             b == C(<<key>>)
             c == C(right)
             all == C(Visit(inOrder, left, key, right))
  <2>1. a \in Nat /\ b \in Nat /\ c \in Nat
    BY <1>6
  <2>2. all = a + b + c \/ all = b + a + c
    BY <1>3, <1>4, <1>7, Zenon
  <2> HIDE DEF a, b, c, all
  <2>3. all = a + b + c
    BY <2>1, <2>2, SMT
  <2> QED
    BY <2>3 DEF a, b, c, all
<1>9. C(Visit(inOrder, left, key, right)) = C(left) + (IF key \in K THEN 1 ELSE 0) + C(right)
  BY <1>5, <1>8
<1> QED
  BY <1>9 DEF C

\* What is below the children of a node is apart, and below the node.
LEMMA BelowApart ==
  ASSUME NEW heap \in [Node -> BSTNode], NEW size \in 0 .. Nodes, Shape(heap, size),
         NEW n \in 1 .. size
  PROVE  LET left == Below(heap, heap[n].left)
             right == Below(heap, heap[n].right)
         IN  /\ left \cap right = {} /\ n \notin left /\ n \notin right
             /\ Below(heap, n) = {n} \cup left \cup right
             /\ left \subseteq 1 .. size /\ right \subseteq 1 .. size
             /\ Below(heap, n) \subseteq 1 .. size
<1>1. Links(heap, size) /\ Sorted(heap, size) /\ size \in Nat
  BY NodesAssumption, SMT DEF Shape
<1>2. ASSUME NEW c \in {heap[n].left, heap[n].right}
      PROVE  n \notin Below(heap, c) /\ Below(heap, c) \subseteq 1 .. size
  <2>1. CASE c = NULL
    BY <2>1, BelowNull
  <2>2. CASE c # NULL
    <3>1. c \in 1 .. size /\ c > n
      BY <1>1, <2>2, ChildTypes
    <3>2. Below(heap, c) \subseteq c .. size
      BY <1>1, <3>1, BelowLeast
    <3>3. n \notin c .. size /\ c .. size \subseteq 1 .. size
      BY <1>1, <3>1, SMT
    <3> QED
      BY <3>2, <3>3
  <2> QED
    BY <2>1, <2>2
<1>3. ASSUME NEW m \in Below(heap, heap[n].left) \cap Below(heap, heap[n].right) PROVE FALSE
  <2>1. m \in 1 .. size
    BY <1>2
  <2>2. heap[m].key \in Int /\ heap[n].key \in Int
    BY <2>1, NodeTypes
  <2>3. heap[m].key < heap[n].key /\ heap[m].key >= heap[n].key
    BY <1>1 DEF Sorted
  <2> QED
    BY <2>2, <2>3, SMT
<1>4. Below(heap, n) = {n} \cup Below(heap, heap[n].left) \cup Below(heap, heap[n].right)
  BY <1>1, BelowChildren
<1> QED
  BY <1>2, <1>3, <1>4

LEMMA NodesWithFinite ==
  ASSUME NEW heap \in [Node -> BSTNode], NEW size \in 0 .. Nodes, Shape(heap, size),
         NEW n \in 0 .. size, NEW K
  PROVE  IsFiniteSet(NodesWith(heap, n, K)) /\ Cardinality(NodesWith(heap, n, K)) \in Nat
<1>1. size \in Nat /\ (n = NULL \/ n \in 1 .. size)
  BY NodesAssumption, SMT DEF NULL
<1>2. Below(heap, n) \subseteq 1 .. size
  BY <1>1, BelowApart, BelowNull
<1>3. IsFiniteSet(1 .. size)
  BY <1>1, FS_Interval, SMT
<1>4. IsFiniteSet(NodesWith(heap, n, K))
  BY <1>2, <1>3, FS_Subset DEF NodesWith
<1> QED
  BY <1>4, FS_CardinalityType

LEMMA NodesWithChildren ==
  ASSUME NEW heap \in [Node -> BSTNode], NEW size \in 0 .. Nodes, Shape(heap, size),
         NEW n \in 1 .. size, NEW K
  PROVE  Cardinality(NodesWith(heap, n, K)) =
           Cardinality(NodesWith(heap, heap[n].left, K)) + (IF heap[n].key \in K THEN 1 ELSE 0)
             + Cardinality(NodesWith(heap, heap[n].right, K))
<1> DEFINE L == NodesWith(heap, heap[n].left, K)
           R == NodesWith(heap, heap[n].right, K)
           M == IF heap[n].key \in K THEN {n} ELSE {}
<1>1. NodesWith(heap, n, K) = L \cup R \cup M /\ L \cap R = {} /\ (L \cup R) \cap M = {}
  BY BelowApart DEF NodesWith
<1>2. \A c \in {heap[n].left, heap[n].right} : c \in 0 .. size
  <2>1. size \in Nat /\ 0 \in 0 .. size /\ 1 .. size \subseteq 0 .. size
    BY NodesAssumption, SMT
  <2> QED
    BY <2>1, ChildTypes DEF Shape, NULL
<1>3. /\ IsFiniteSet(L) /\ IsFiniteSet(R) /\ Cardinality(L) \in Nat /\ Cardinality(R) \in Nat
  BY <1>2, NodesWithFinite
<1>4. IsFiniteSet(M) /\ Cardinality(M) = IF heap[n].key \in K THEN 1 ELSE 0
  BY FS_Singleton, FS_EmptySet
<1>5. Cardinality({}) = 0
  BY FS_EmptySet
<1> HIDE DEF L, R, M
<1>6. IsFiniteSet(L \cup R) /\ Cardinality(L \cup R) = Cardinality(L) + Cardinality(R)
  <2>1. Cardinality(L \cup R) = Cardinality(L) + Cardinality(R) - Cardinality(L \cap R)
    BY <1>3, FS_Union
  <2> QED
    <3>1. IsFiniteSet(L \cup R)
      BY <1>3, FS_Union
    <3>2. Cardinality(L) + Cardinality(R) - 0 = Cardinality(L) + Cardinality(R)
      BY <1>3, SMT
    <3> QED
      BY <1>1, <1>5, <2>1, <3>1, <3>2, Zenon
<1>7. Cardinality((L \cup R) \cup M) = Cardinality(L \cup R) + Cardinality(M)
  <2>1. Cardinality((L \cup R) \cup M)
          = Cardinality(L \cup R) + Cardinality(M) - Cardinality((L \cup R) \cap M)
    BY <1>4, <1>6, FS_Union
  <2>2. Cardinality(L \cup R) \in Nat /\ Cardinality(M) \in Nat
    BY <1>4, <1>6, FS_CardinalityType
  <2>3. Cardinality(L \cup R) + Cardinality(M) - 0 = Cardinality(L \cup R) + Cardinality(M)
    BY <2>2, SMT
  <2> QED
    BY <1>1, <1>5, <2>1, <2>3, Zenon
<1>8. Cardinality(NodesWith(heap, n, K)) = Cardinality(L) + Cardinality(M) + Cardinality(R)
  <2>1. Cardinality(M) \in Nat
    BY <1>4, FS_CardinalityType
  <2> QED
    BY <1>1, <1>3, <1>6, <1>7, <2>1, SMT
<1> QED
  BY <1>4, <1>8 DEF L, R

\* A key is in the order as often as in the tree.
LEMMA OrderCounts ==
  ASSUME NEW heap \in [Node -> BSTNode], NEW size \in 0 .. Nodes, Shape(heap, size),
         NEW inOrder, NEW order, IsOrder(order, heap, size, inOrder), NEW K
  PROVE  \A n \in 0 .. size :
           Cardinality(Occurrences(order[n], K)) = Cardinality(NodesWith(heap, n, K))
<1> DEFINE P == {n \in 0 .. size :
                   Cardinality(Occurrences(order[n], K)) = Cardinality(NodesWith(heap, n, K))}
<1>1. NULL \in P
  <2>1. NULL \in 0 .. size
    BY NodesAssumption, SMT DEF NULL
  <2>2. NodesWith(heap, NULL, K) = {}
    BY BelowNull DEF NodesWith
  <2>3. order[NULL] = << >>
    BY DEF IsOrder
  <2> QED
    BY <2>1, <2>2, <2>3, OccurrencesOfNone, FS_EmptySet
<1>2. ASSUME NEW n \in 1 .. size, heap[n].left \in P, heap[n].right \in P PROVE n \in P
  <2>1. heap[n].left \in 0 .. size /\ heap[n].right \in 0 .. size /\ n \in 0 .. size
    BY <1>2, SMT
  <2>2. /\ order[heap[n].left] \in Seq(Int) /\ order[heap[n].right] \in Seq(Int)
        /\ heap[n].key \in Int
    BY <2>1, NodeTypes DEF IsOrder
  <2>3. order[n] = Visit(inOrder, order[heap[n].left], heap[n].key, order[heap[n].right])
    BY DEF IsOrder
  <2>4. Cardinality(Occurrences(order[n], K)) =
          Cardinality(Occurrences(order[heap[n].left], K)) + (IF heap[n].key \in K THEN 1 ELSE 0)
            + Cardinality(Occurrences(order[heap[n].right], K))
    <3> DEFINE left == order[heap[n].left]
               right == order[heap[n].right]
               key == heap[n].key
    <3>1. left \in Seq(Int) /\ right \in Seq(Int) /\ key \in Int
      BY <2>2
    <3>2. order[n] = Visit(inOrder, left, key, right)
      BY <2>3
    <3> HIDE DEF left, right, key
    <3>3. Cardinality(Occurrences(order[n], K)) =
            Cardinality(Occurrences(left, K)) + (IF key \in K THEN 1 ELSE 0)
              + Cardinality(Occurrences(right, K))
      BY <3>1, <3>2, OccurrencesVisit
    <3> QED
      BY <3>3 DEF left, right, key
  <2>5. Cardinality(NodesWith(heap, n, K)) =
          Cardinality(NodesWith(heap, heap[n].left, K)) + (IF heap[n].key \in K THEN 1 ELSE 0)
            + Cardinality(NodesWith(heap, heap[n].right, K))
    BY NodesWithChildren
  <2>6. /\ Cardinality(Occurrences(order[heap[n].left], K))
             = Cardinality(NodesWith(heap, heap[n].left, K))
        /\ Cardinality(Occurrences(order[heap[n].right], K))
             = Cardinality(NodesWith(heap, heap[n].right, K))
    BY <1>2
  <2>7. Cardinality(Occurrences(order[n], K)) = Cardinality(NodesWith(heap, n, K))
    BY <2>4, <2>5, <2>6, Zenon
  <2> QED
    BY <2>1, <2>7
<1>3. Links(heap, size)
  BY DEF Shape
<1>4. 0 .. size \subseteq P
  <2> HIDE DEF P
  <2> QED
    BY <1>1, <1>2, <1>3, TreeInduction
<1> QED
  BY <1>4

\* Every key in the order is the key of a node.
LEMMA OrderKeys ==
  ASSUME NEW heap \in [Node -> BSTNode], NEW size \in 0 .. Nodes, Shape(heap, size),
         NEW inOrder, NEW order, IsOrder(order, heap, size, inOrder)
  PROVE  \A n \in 0 .. size : \A i \in 1 .. Len(order[n]) :
           \E m \in Below(heap, n) : order[n][i] = heap[m].key
<1> TAKE n \in 0 .. size
<1> TAKE i \in 1 .. Len(order[n])
<1> DEFINE K == {order[n][i]}
<1>1. order[n] \in Seq(Int) /\ DOMAIN order[n] = 1 .. Len(order[n])
  BY LenProperties DEF IsOrder
<1>2. i \in Occurrences(order[n], K)
  BY <1>1 DEF Occurrences
<1>3. Cardinality(Occurrences(order[n], K)) # 0
  <2> HIDE DEF K
  <2> QED
    BY <1>1, <1>2, OccurrencesFinite, FS_EmptySet
<1>4. NodesWith(heap, n, K) # {}
  <2>1. Cardinality(Occurrences(order[n], K)) = Cardinality(NodesWith(heap, n, K))
    BY OrderCounts
  <2>2. Cardinality({}) = 0
    BY FS_EmptySet
  <2> HIDE DEF K
  <2> QED
    BY <1>3, <2>1, <2>2, Zenon
<1> QED
  BY <1>4 DEF NodesWith

Ascending(s) == \A i, j \in 1 .. Len(s) : i < j => s[i] <= s[j]

\* In order, the keys are in ascending order.
LEMMA InOrderAscends ==
  ASSUME NEW heap \in [Node -> BSTNode], NEW size \in 0 .. Nodes, Shape(heap, size),
         NEW inOrder, NEW order, IsOrder(order, heap, size, inOrder),
         \A left, key, right : Visit(inOrder, left, key, right) = left \o <<key>> \o right
  PROVE  \A n \in 0 .. size : Ascending(order[n])
<1> DEFINE P == {n \in 0 .. size : Ascending(order[n])}
<1>1. NULL \in P
  <2>1. NULL \in 0 .. size
    BY NodesAssumption, SMT DEF NULL
  <2>2. Len(order[NULL]) = 0
    BY EmptySeq DEF IsOrder
  <2> QED
    BY <2>1, <2>2, SMT DEF Ascending
<1>2. ASSUME NEW n \in 1 .. size, heap[n].left \in P, heap[n].right \in P PROVE n \in P
  <2> DEFINE left == order[heap[n].left]
             right == order[heap[n].right]
             key == heap[n].key
             a == Len(left)
             b == Len(right)
             all == order[n]
  <2>1. heap[n].left \in 0 .. size /\ heap[n].right \in 0 .. size /\ n \in 0 .. size
    BY <1>2, SMT
  <2>2. left \in Seq(Int) /\ right \in Seq(Int) /\ key \in Int /\ all \in Seq(Int)
    BY <2>1, NodeTypes DEF IsOrder
  <2>3. all = (left \o <<key>>) \o right
    <3>1. all = Visit(inOrder, left, key, right)
      BY DEF IsOrder
    <3>2. Visit(inOrder, left, key, right) = (left \o <<key>>) \o right
      <4> HIDE DEF left, right, key
      <4> QED
        OBVIOUS
    <3> QED
      BY <3>1, <3>2
  <2>k. \A c \in 0 .. size : \A i \in 1 .. Len(order[c]) :
          \E m \in Below(heap, c) : order[c][i] = heap[m].key
    BY OrderKeys
  <2>4. \A i \in 1 .. a : left[i] < key
    <3> SUFFICES ASSUME NEW i \in 1 .. a PROVE left[i] < key
      OBVIOUS
    <3>1. \E m \in Below(heap, heap[n].left) : left[i] = heap[m].key
      BY <2>1, <2>k
    <3>2. \A m \in Below(heap, heap[n].left) : heap[m].key < heap[n].key
      BY DEF Shape, Sorted
    <3> QED
      BY <3>1, <3>2
  <2>5. \A i \in 1 .. b : right[i] >= key
    <3> SUFFICES ASSUME NEW i \in 1 .. b PROVE right[i] >= key
      OBVIOUS
    <3>1. \E m \in Below(heap, heap[n].right) : right[i] = heap[m].key
      BY <2>1, <2>k
    <3>2. \A m \in Below(heap, heap[n].right) : heap[m].key >= heap[n].key
      BY DEF Shape, Sorted
    <3> QED
      BY <3>1, <3>2
  <2>6. Ascending(left) /\ Ascending(right)
    BY <1>2
  <2> HIDE DEF left, right, key, all
  <2>7. /\ a \in Nat /\ b \in Nat /\ Len(all) = a + 1 + b
        /\ \A i \in 1 .. a : all[i] = left[i] /\ left[i] \in Int
        /\ all[a + 1] = key
        /\ \A i \in a + 2 .. a + 1 + b :
             i - (a + 1) \in 1 .. b /\ all[i] = right[i - (a + 1)] /\ right[i - (a + 1)] \in Int
    <3> DEFINE mid == left \o <<key>>
    <3>1. a \in Nat /\ b \in Nat
      BY <2>2, LenProperties
    <3>2. <<key>> \in Seq(Int) /\ Len(<<key>>) = 1 /\ <<key>>[1] = key
      BY <2>2, SMT
    <3>3. /\ mid \in Seq(Int) /\ Len(mid) = a + 1
          /\ \A i \in 1 .. a + 1 : mid[i] = IF i <= a THEN left[i] ELSE <<key>>[i - a]
      BY <2>2, <3>2, ConcatProperties
    <3>4. \A i \in 1 .. a : mid[i] = left[i] /\ left[i] \in Int
      <4>1. \A i \in 1 .. a : i \in 1 .. a + 1 /\ i <= a
        BY <3>1, SMT
      <4> QED
        BY <2>2, <3>3, <4>1, ElementOfSeq
    <3>5. mid[a + 1] = key
      <4>1. a + 1 \in 1 .. a + 1 /\ ~(a + 1 <= a) /\ (a + 1) - a = 1
        BY <3>1, SMT
      <4> QED
        BY <3>2, <3>3, <4>1
    <3> HIDE DEF mid
    <3>6. all = mid \o right
      BY <2>3 DEF mid
    <3>7. /\ Len(all) = a + 1 + b
          /\ \A i \in 1 .. a + 1 + b : all[i] = IF i <= a + 1 THEN mid[i] ELSE right[i - (a + 1)]
      <4>1. /\ Len(mid \o right) = Len(mid) + Len(right)
            /\ \A i \in 1 .. Len(mid) + Len(right) : (mid \o right)[i] =
                 IF i <= Len(mid) THEN mid[i] ELSE right[i - Len(mid)]
        <5>1. mid \in Seq(Int) /\ right \in Seq(Int)
          BY <2>2, <3>3
        <5> QED
          BY <5>1, ConcatProperties
      <4> QED
        BY <3>3, <3>6, <4>1, Zenon
    <3>8. \A i \in 1 .. a : all[i] = left[i] /\ left[i] \in Int
      <4>1. \A i \in 1 .. a : i \in 1 .. a + 1 + b /\ i <= a + 1
        BY <3>1, SMT
      <4> QED
        BY <3>4, <3>7, <4>1
    <3>9. all[a + 1] = key
      <4>1. a + 1 \in 1 .. a + 1 + b /\ a + 1 <= a + 1
        BY <3>1, SMT
      <4> QED
        BY <3>5, <3>7, <4>1
    <3>10. \A i \in a + 2 .. a + 1 + b :
             i - (a + 1) \in 1 .. b /\ all[i] = right[i - (a + 1)] /\ right[i - (a + 1)] \in Int
      <4>1. \A i \in a + 2 .. a + 1 + b :
              i - (a + 1) \in 1 .. b /\ i \in 1 .. a + 1 + b /\ ~(i <= a + 1)
        BY <3>1, SMT
      <4> QED
        BY <2>2, <3>7, <4>1, ElementOfSeq
    <3> QED
      BY <3>1, <3>7, <3>8, <3>9, <3>10
  <2> HIDE DEF a, b
  <2>8. ASSUME NEW i \in 1 .. a + 1 + b, NEW j \in 1 .. a + 1 + b, i < j
        PROVE  all[i] <= all[j]
    <3>1. CASE j <= a
      <4>1. i \in 1 .. a /\ j \in 1 .. a
        BY <2>7, <2>8, <3>1, SMT
      <4> QED
        BY <2>6, <2>7, <2>8, <4>1 DEF Ascending, a
    <3>2. CASE i >= a + 2
      <4>1. /\ i \in a + 2 .. a + 1 + b /\ j \in a + 2 .. a + 1 + b
            /\ i - (a + 1) < j - (a + 1)
        BY <2>7, <2>8, <3>2, SMT
      <4> QED
        BY <2>6, <2>7, <4>1 DEF Ascending, b
    <3>3. CASE j > a /\ i < a + 2
      <4>1. all[i] <= key /\ all[i] \in Int
        <5>1. i \in 1 .. a \/ i = a + 1
          BY <2>7, <3>3, SMT
        <5>2. CASE i = a + 1
          BY <2>2, <2>7, <5>2, SMT
        <5>3. CASE i \in 1 .. a
          <6>1. all[i] = left[i] /\ left[i] \in Int /\ left[i] < key
            BY <2>4, <2>7, <5>3
          <6> QED
            BY <2>2, <6>1, SMT
        <5> QED
          BY <5>1, <5>2, <5>3
      <4>2. all[j] >= key /\ all[j] \in Int
        <5>1. j \in a + 2 .. a + 1 + b \/ j = a + 1
          BY <2>7, <3>3, SMT
        <5>2. CASE j = a + 1
          BY <2>2, <2>7, <5>2, SMT
        <5>3. CASE j \in a + 2 .. a + 1 + b
          BY <2>5, <2>7, <5>3
        <5> QED
          BY <5>1, <5>2, <5>3
      <4> QED
        BY <2>2, <4>1, <4>2, SMT
    <3> QED
      BY <2>7, <3>1, <3>2, <3>3, SMT
  <2>9. Ascending(all)
    BY <2>7, <2>8, Zenon DEF Ascending
  <2> QED
    BY <2>1, <2>9 DEF all
<1>3. Links(heap, size)
  BY DEF Shape
<1>4. 0 .. size \subseteq P
  <2> HIDE DEF P
  <2> QED
    BY <1>1, <1>2, <1>3, TreeInduction
<1> QED
  BY <1>4

\* What is printed next has not been printed as often as the whole order has it, ...
LEMMA OneMoreToCome ==
  ASSUME NEW s \in Seq(Int), NEW t \in Seq(Int), NEW k \in Int,
         NEW all, all = s \o (<<k>> \o t)
  PROVE  Cardinality(Occurrences(s, {k})) < Cardinality(Occurrences(all, {k}))
<1> DEFINE C(u) == Cardinality(Occurrences(u, {k}))
           a == C(s)
           b == C(t)
<1>1. <<k>> \in Seq(Int)
  BY SMT
<1>2. <<k>> \o t \in Seq(Int)
  BY <1>1, ConcatProperties
<1>3. C(s \o (<<k>> \o t)) = C(s) + C(<<k>> \o t)
  BY <1>2, OccurrencesConcat
<1>4. C(<<k>> \o t) = C(<<k>>) + C(t)
  BY <1>1, OccurrencesConcat
<1>5. C(<<k>>) = 1
  BY OccurrencesOfOne
<1>6. a \in Nat /\ b \in Nat
  BY OccurrencesFinite
<1>7. C(all) = a + (1 + b)
  BY <1>3, <1>4, <1>5, Zenon
<1> HIDE DEF a, b
<1>8. a < a + (1 + b)
  BY <1>6, SMT
<1>9. a < C(all)
  BY <1>7, <1>8, Zenon
<1> QED
  BY <1>9 DEF a

\* Every key below k is in s as often as in all.
HasSmaller(all, s, k) ==
  \A j \in Int :
    j < k => Cardinality(Occurrences(all, {j})) = Cardinality(Occurrences(s, {j}))

\* ... and if the order is ascending, all smaller keys have.
LEMMA SmallerKeysArePrinted ==
  ASSUME NEW s \in Seq(Int), NEW t \in Seq(Int), NEW k \in Int,
         NEW all, all = s \o (<<k>> \o t), Ascending(all)
  PROVE  HasSmaller(all, s, k)
<1> SUFFICES ASSUME NEW j \in Int, j < k
             PROVE  Cardinality(Occurrences(all, {j})) = Cardinality(Occurrences(s, {j}))
  BY Zenon DEF HasSmaller
<1> DEFINE C(u) == Cardinality(Occurrences(u, {j}))
           tail == <<k>> \o t
           a == Len(s)
<1>1. <<k>> \in Seq(Int) /\ Len(<<k>>) = 1 /\ <<k>>[1] = k /\ a \in Nat /\ Len(t) \in Nat
  <2>1. <<k>> \in Seq(Int) /\ Len(<<k>>) = 1 /\ <<k>>[1] = k
    BY SMT
  <2> QED
    BY <2>1, LenProperties
<1>2. /\ tail \in Seq(Int) /\ Len(tail) = 1 + Len(t) /\ tail[1] = k
      /\ \A i \in 1 .. Len(t) : tail[i + 1] = t[i]
  <2>1. /\ <<k>> \o t \in Seq(Int) /\ Len(<<k>> \o t) = Len(<<k>>) + Len(t)
        /\ \A i \in 1 .. Len(<<k>>) : (<<k>> \o t)[i] = <<k>>[i]
        /\ \A i \in 1 .. Len(t) : (<<k>> \o t)[i + Len(<<k>>)] = t[i]
    BY <1>1, PushedWords
  <2>2. 1 \in 1 .. 1
    BY SMT
  <2> QED
    BY <1>1, <2>1, <2>2, Zenon
<1> HIDE DEF tail
<1>3. /\ all \in Seq(Int) /\ Len(all) = a + Len(tail)
      /\ \A i \in 1 .. Len(tail) : all[i + a] = tail[i]
  <2>1. all = s \o tail
    BY DEF tail
  <2>2. /\ s \o tail \in Seq(Int) /\ Len(s \o tail) = Len(s) + Len(tail)
        /\ \A i \in 1 .. Len(tail) : (s \o tail)[i + Len(s)] = tail[i]
    BY <1>2, PushedWords
  <2> QED
    BY <2>1, <2>2, Zenon
<1> HIDE DEF a
<1>4. ASSUME NEW i \in 1 .. Len(t) PROVE t[i] # j
  <2>1. i + 1 \in 1 .. Len(tail) /\ 1 \in 1 .. Len(tail)
    BY <1>1, <1>2, SMT
  <2>2. all[1 + a] = k /\ all[(i + 1) + a] = t[i]
    BY <1>2, <1>3, <2>1
  <2>3. 1 + a \in 1 .. Len(all) /\ (i + 1) + a \in 1 .. Len(all) /\ 1 + a < (i + 1) + a
    <3> DEFINE m == Len(tail)
               n == Len(all)
    <3>1. a \in Nat /\ m \in Nat /\ n = a + m /\ i + 1 \in 1 .. m /\ i \in Nat
      BY <1>1, <1>2, <1>3, <2>1
    <3> HIDE DEF m, n
    <3>2. 1 + a \in 1 .. n /\ (i + 1) + a \in 1 .. n /\ 1 + a < (i + 1) + a
      BY <3>1, SMT
    <3> QED
      BY <3>2 DEF n
  <2>4. all[1 + a] <= all[(i + 1) + a]
    BY <2>3 DEF Ascending
  <2>5. t[i] \in Int
    BY ElementOfSeq
  <2>6. k <= t[i]
    BY <2>2, <2>4, Zenon
  <2> QED
    BY <2>5, <2>6, SMT
<1>5. C(t) = 0 /\ C(<<k>>) = 0
  <2>1. Occurrences(t, {j}) = {}
    BY <1>4, OccurrencesFinite DEF Occurrences
  <2>2. k \notin {j}
    BY SMT
  <2> QED
    BY <2>1, <2>2, FS_EmptySet, OccurrencesOfOne
<1>6. C(s \o tail) = C(s) + C(tail)
  BY <1>2, OccurrencesConcat
<1>7. C(tail) = C(<<k>>) + C(t)
  BY <1>1, OccurrencesConcat DEF tail
<1>8. C(tail) = 0
  <2>1. C(tail) = 0 + 0
    BY <1>5, <1>7, Zenon
  <2>2. 0 + 0 = 0
    BY SMT
  <2> QED
    BY <2>1, <2>2, Zenon
<1>9. C(all) = C(s)
  <2>1. C(all) = C(s) + 0
    BY <1>6, <1>8, Zenon DEF tail
  <2>2. C(s) \in Nat
    BY OccurrencesFinite
  <2>3. C(s) + 0 = C(s)
    <3> HIDE DEF C
    <3> QED
      BY <2>2, SMT
  <2> QED
    BY <2>1, <2>3, Zenon
<1> QED
  BY <1>9, Zenon

LEMMA NodesWithAnyKey ==
  ASSUME NEW heap \in [Node -> BSTNode], NEW size \in 0 .. Nodes, Shape(heap, size),
         NEW n \in 0 .. size
  PROVE  NodesWith(heap, n, Int) = Below(heap, n)
<1>1. n = NULL \/ n \in 1 .. size
  BY NodesAssumption, SMT DEF NULL
<1>2. \A m \in Below(heap, n) : m \in 1 .. size
  BY <1>1, BelowNull, BelowApart
<1>3. \A m \in Below(heap, n) : heap[m].key \in Int
  BY <1>2, NodeTypes
<1> QED
  BY <1>3 DEF NodesWith

\* The order of a tree has as many keys as the tree nodes.
LEMMA OrderLength ==
  ASSUME NEW heap \in [Node -> BSTNode], NEW size \in 0 .. Nodes, Shape(heap, size),
         NEW inOrder, NEW order, IsOrder(order, heap, size, inOrder), NEW n \in 0 .. size
  PROVE  Len(order[n]) = Cardinality(Below(heap, n))
<1>1. order[n] \in Seq(Int) /\ DOMAIN order[n] = 1 .. Len(order[n]) /\ Len(order[n]) \in Nat
  BY LenProperties DEF IsOrder
<1>2. Occurrences(order[n], Int) = 1 .. Len(order[n])
  <2>1. \A i \in 1 .. Len(order[n]) : order[n][i] \in Int
    BY <1>1, ElementOfSeq
  <2> QED
    BY <1>1, <2>1 DEF Occurrences
<1>3. Cardinality(1 .. Len(order[n])) = Len(order[n])
  BY <1>1, FS_Interval, SMT
<1>4. NodesWith(heap, n, Int) = Below(heap, n)
  BY NodesWithAnyKey
<1> QED
  <2>1. \A m \in 0 .. size :
          Cardinality(Occurrences(order[m], Int)) = Cardinality(NodesWith(heap, m, Int))
    BY OrderCounts
  <2> QED
    BY <1>2, <1>3, <1>4, <2>1, Zenon

\* The number of nodes below a node.
LEMMA BelowCounts ==
  ASSUME NEW heap \in [Node -> BSTNode], NEW size \in 0 .. Nodes, Shape(heap, size)
  PROVE  /\ Cardinality(Below(heap, NULL)) = 0
         /\ \A n \in 0 .. size : Cardinality(Below(heap, n)) \in Nat
         /\ \A n \in 1 .. size :
              Cardinality(Below(heap, n)) = Cardinality(Below(heap, heap[n].left)) + 1
                                              + Cardinality(Below(heap, heap[n].right))
<1>1. Cardinality(Below(heap, NULL)) = 0
  BY BelowNull, FS_EmptySet
<1>2. \A n \in 0 .. size : NodesWith(heap, n, Int) = Below(heap, n)
  BY NodesWithAnyKey
<1>3. \A n \in 0 .. size : Cardinality(NodesWith(heap, n, Int)) \in Nat
  BY NodesWithFinite
<1>4. ASSUME NEW n \in 1 .. size
      PROVE  Cardinality(Below(heap, n)) = Cardinality(Below(heap, heap[n].left)) + 1
                                             + Cardinality(Below(heap, heap[n].right))
  <2>1. n \in 0 .. size /\ heap[n].left \in 0 .. size /\ heap[n].right \in 0 .. size
    <3>1. size \in Nat /\ 0 \in 0 .. size /\ 1 .. size \subseteq 0 .. size
      BY NodesAssumption, SMT
    <3> QED
      BY <3>1, ChildTypes DEF Shape, NULL
  <2>2. Cardinality(NodesWith(heap, n, Int)) =
          Cardinality(NodesWith(heap, heap[n].left, Int))
            + (IF heap[n].key \in Int THEN 1 ELSE 0)
            + Cardinality(NodesWith(heap, heap[n].right, Int))
    BY NodesWithChildren
  <2>3. heap[n].key \in Int
    BY NodeTypes
  <2> QED
    BY <1>2, <2>1, <2>2, <2>3, Zenon
<1> QED
  BY <1>1, <1>2, <1>3, <1>4, Zenon

-----------------------------------------------------------------------------
(* What the active calls of a recursion have still to do, by their frames.  *)

\* t is s with a frame on top.
OnTop(t, s, words) ==
  /\ t \in Seq(Int) /\ s \in Seq(Int) /\ Len(t) = Len(s) + words
  /\ \A i \in 1 .. Len(s) : t[i + words] = s[i]

\* Where the recursion returns that was made for the k-th frame from the top.
LineOf(s, words, line, k) == IF k = 1 THEN line ELSE s[words * (k - 1)]

\* The first and the last but one word of a frame, and what the calls do from it
\* and from the next one on.
FrameOf(s, words, line, k, r) ==
  [line |-> LineOf(s, words, line, k), first |-> s[words * k - words + 1],
   third |-> s[words * k - 1], all |-> r[k], rest |-> r[k + 1]]

\* The frame on top, in this form.
TopFrame(t, words, line, all, rest) ==
  [line |-> line, first |-> t[1], third |-> t[words - 1], all |-> all, rest |-> rest]

Chain(s, words, line, R, none, r) ==
  /\ DOMAIN r = Nat
  /\ \A k \in Nat \ {0} :
       IF words * k <= Len(s) THEN FrameOf(s, words, line, k, r) \in R ELSE r[k] = none

\* The frames promise v.
Owes(s, words, line, R, none, v) == \E r : Chain(s, words, line, R, none, r) /\ r[1] = v

\* The k-th frame of s is the next one of t.
Shifted(s, t, words, line, k) ==
  /\ words * (k + 1) <= Len(t) <=> words * k <= Len(s)
  /\ words * k <= Len(s) =>
       /\ LineOf(t, words, line, k + 1) = LineOf(s, words, t[words], k)
       /\ t[words * (k + 1) - words + 1] = s[words * k - words + 1]
       /\ t[words * (k + 1) - 1] = s[words * k - 1]

LEMMA WordsOnTop ==
  ASSUME NEW words \in Nat, NEW s \in Seq(Int), words <= Len(s),
         NEW t, t = SubSeq(s, words + 1, Len(s))
  PROVE  t \in Seq(Int) /\ OnTop(s, t, words)
<1>1. Len(s) \in Nat
  BY LenProperties
<1>2. words \in 0 .. Len(s)
  BY <1>1, SMT
<1>3. /\ t \in Seq(Int) /\ Len(t) = Len(s) - words
      /\ \A i \in 1 .. Len(s) - words : t[i] = s[i + words]
  BY <1>2, PoppedWords, Zenon
<1>4. Len(s) = Len(t) + words
  BY <1>1, <1>3, SMT
<1>5. \A i \in 1 .. Len(t) : s[i + words] = t[i]
  BY <1>3, Zenon
<1> QED
  BY <1>3, <1>4, <1>5, Zenon DEF OnTop

LEMMA FrameShift ==
  ASSUME NEW words \in {3, 4}, NEW s, NEW t, OnTop(t, s, words), NEW line,
         NEW k \in Nat \ {0}
  PROVE  Shifted(s, t, words, line, k)
<1> DEFINE n == Len(s)
<1>1. n \in Nat /\ Len(t) = n + words /\ \A i \in 1 .. n : t[i + words] = s[i]
  BY LenProperties DEF OnTop
<1> HIDE DEF n
<1>2. words * (k + 1) <= Len(t) <=> words * k <= n
  <2>1. CASE words = 3
    BY <1>1, <2>1, SMT
  <2>2. CASE words = 4
    BY <1>1, <2>2, SMT
  <2> QED
    BY <2>1, <2>2
<1>3. ASSUME words * k <= n
      PROVE  /\ words * k - words + 1 \in 1 .. n
             /\ (words * k - words + 1) + words = words * (k + 1) - words + 1
             /\ words * k - 1 \in 1 .. n /\ (words * k - 1) + words = words * (k + 1) - 1
             /\ k # 1 => /\ words * (k - 1) \in 1 .. n
                         /\ words * (k - 1) + words = words * ((k + 1) - 1)
             /\ words * ((1 + 1) - 1) = words /\ k + 1 # 1
  <2>1. CASE words = 3
    <3>1. 3 * k <= n
      BY <1>3, <2>1
    <3>2. /\ 3 * k - 3 + 1 \in 1 .. n /\ (3 * k - 3 + 1) + 3 = 3 * (k + 1) - 3 + 1
          /\ 3 * k - 1 \in 1 .. n /\ (3 * k - 1) + 3 = 3 * (k + 1) - 1
      BY <1>1, <3>1, SMT
    <3>3. k # 1 => 3 * (k - 1) \in 1 .. n /\ 3 * (k - 1) + 3 = 3 * ((k + 1) - 1)
      BY <1>1, <3>1, SMT
    <3>4. 3 * ((1 + 1) - 1) = 3 /\ k + 1 # 1
      BY SMT
    <3> QED
      BY <2>1, <3>2, <3>3, <3>4, Zenon
  <2>2. CASE words = 4
    <3>1. 4 * k <= n
      BY <1>3, <2>2
    <3>2. /\ 4 * k - 4 + 1 \in 1 .. n /\ (4 * k - 4 + 1) + 4 = 4 * (k + 1) - 4 + 1
          /\ 4 * k - 1 \in 1 .. n /\ (4 * k - 1) + 4 = 4 * (k + 1) - 1
      BY <1>1, <3>1, SMT
    <3>3. k # 1 => 4 * (k - 1) \in 1 .. n /\ 4 * (k - 1) + 4 = 4 * ((k + 1) - 1)
      BY <1>1, <3>1, SMT
    <3>4. 4 * ((1 + 1) - 1) = 4 /\ k + 1 # 1
      BY SMT
    <3> QED
      BY <2>2, <3>2, <3>3, <3>4, Zenon
  <2> QED
    BY <2>1, <2>2
<1>4. ASSUME words * k <= n
      PROVE  /\ t[words * (k + 1) - words + 1] = s[words * k - words + 1]
             /\ t[words * (k + 1) - 1] = s[words * k - 1]
             /\ k # 1 => t[words * ((k + 1) - 1)] = s[words * (k - 1)]
  BY <1>1, <1>3, <1>4, Zenon
<1>5. ASSUME words * k <= n
      PROVE  LineOf(t, words, line, k + 1) = LineOf(s, words, t[words], k)
  BY <1>3, <1>4, <1>5, Zenon DEF LineOf
<1> QED
  BY <1>2, <1>4, <1>5, Zenon DEF n, Shifted

\* A call is made: one more frame.
LEMMA ChainPushed ==
  ASSUME NEW words \in {3, 4}, NEW s, NEW t, OnTop(t, s, words), NEW line,
         NEW R, NEW none, NEW rest, Owes(s, words, t[words], R, none, rest),
         NEW v, TopFrame(t, words, line, v, rest) \in R
  PROVE  Owes(t, words, line, R, none, v)
<1>0. PICK r : Chain(s, words, t[words], R, none, r) /\ r[1] = rest
  BY DEF Owes
<1> DEFINE q == [k \in Nat |-> IF k = 1 THEN v ELSE r[k - 1]]
<1>1. DOMAIN q = Nat /\ q[1] = v /\ \A k \in Nat \ {0} : q[k + 1] = r[k]
  <2>1. \A k \in Nat \ {0} : k + 1 \in Nat /\ k + 1 # 1 /\ (k + 1) - 1 = k
    BY SMT
  <2>2. 1 \in Nat
    BY SMT
  <2> QED
    BY <2>1, <2>2
<1> HIDE DEF q
<1>2. ASSUME NEW k \in Nat \ {0}
      PROVE  IF words * k <= Len(t) THEN FrameOf(t, words, line, k, q) \in R ELSE q[k] = none
  <2>1. CASE k = 1
    <3>1. words * 1 - words + 1 = 1 /\ words * 1 - 1 = words - 1 /\ 1 + 1 = 2 /\ 1 \in Nat \ {0}
      BY SMT
    <3>2. FrameOf(t, words, line, k, q) =
            TopFrame(t, words, line, v, rest)
      BY <1>0, <1>1, <2>1, <3>1, Zenon DEF FrameOf, LineOf, TopFrame
    <3>3. words * 1 <= Len(t)
      <4>1. Len(s) \in Nat /\ Len(t) = Len(s) + words
        BY LenProperties DEF OnTop
      <4> QED
        BY <4>1, SMT
    <3> QED
      BY <2>1, <3>2, <3>3
  <2>2. CASE k # 1
    <3> DEFINE j == k - 1
    <3>1. j \in Nat \ {0} /\ k = j + 1
      BY <2>2, SMT
    <3> HIDE DEF j
    <3>2. j + 1 \in Nat \ {0}
      BY <3>1, SMT
    <3>3. q[k] = r[j] /\ q[k + 1] = r[j + 1]
      BY <1>1, <3>1, <3>2
    <3>4. IF words * j <= Len(s) THEN FrameOf(s, words, t[words], j, r) \in R ELSE r[j] = none
      BY <1>0, <3>1 DEF Chain
    <3>5. /\ words * k <= Len(t) <=> words * j <= Len(s)
          /\ words * j <= Len(s) =>
               /\ LineOf(t, words, line, k) = LineOf(s, words, t[words], j)
               /\ t[words * k - words + 1] = s[words * j - words + 1]
               /\ t[words * k - 1] = s[words * j - 1]
      <4>1. Shifted(s, t, words, line, j)
        BY <3>1, FrameShift
      <4> QED
        BY <3>1, <4>1, Zenon DEF Shifted
    <3>6. words * j <= Len(s) =>
            FrameOf(t, words, line, k, q) = FrameOf(s, words, t[words], j, r)
      BY <3>3, <3>5, Zenon DEF FrameOf
    <3> QED
      BY <3>3, <3>4, <3>5, <3>6, Zenon
  <2> QED
    BY <2>1, <2>2
<1> QED
  BY <1>1, <1>2, Zenon DEF Chain, Owes

\* A call returns: one frame less.
LEMMA ChainPopped ==
  ASSUME NEW words \in {3, 4}, NEW s, NEW t, OnTop(t, s, words), NEW line,
         NEW R, NEW none, NEW v, Owes(t, words, line, R, none, v)
  PROVE  \E rest : /\ TopFrame(t, words, line, v, rest) \in R
                   /\ Owes(s, words, t[words], R, none, rest)
<1>0. PICK r : Chain(t, words, line, R, none, r) /\ r[1] = v
  BY DEF Owes
<1> DEFINE q == [k \in Nat |-> r[k + 1]]
<1>1. DOMAIN q = Nat /\ \A k \in Nat \ {0} : q[k] = r[k + 1] /\ q[k + 1] = r[(k + 1) + 1]
  BY SMT
<1> HIDE DEF q
<1>2. q[1] = r[2]
  <2>1. 1 \in Nat \ {0} /\ 1 + 1 = 2
    BY SMT
  <2> QED
    BY <1>1, <2>1, Zenon
<1>3. ASSUME NEW k \in Nat \ {0}
      PROVE  IF words * k <= Len(s) THEN FrameOf(s, words, t[words], k, q) \in R
             ELSE q[k] = none
  <2>1. k + 1 \in Nat \ {0}
    BY SMT
  <2>2. IF words * (k + 1) <= Len(t) THEN FrameOf(t, words, line, k + 1, r) \in R
        ELSE r[k + 1] = none
    BY <1>0, <2>1 DEF Chain
  <2>3. Shifted(s, t, words, line, k)
    BY FrameShift
  <2>4. words * k <= Len(s) =>
          FrameOf(t, words, line, k + 1, r) = FrameOf(s, words, t[words], k, q)
    BY <1>1, <2>3, Zenon DEF FrameOf, Shifted
  <2> QED
    BY <1>1, <2>2, <2>3, <2>4, Zenon DEF Shifted
<1>4. TopFrame(t, words, line, v, r[2]) \in R
  <2>1. words * 1 - words + 1 = 1 /\ words * 1 - 1 = words - 1 /\ 1 + 1 = 2 /\ 1 \in Nat \ {0}
    BY SMT
  <2>2. words * 1 <= Len(t)
    <3>1. Len(s) \in Nat /\ Len(t) = Len(s) + words
      BY LenProperties DEF OnTop
    <3> QED
      BY <3>1, SMT
  <2>3. FrameOf(t, words, line, 1, r) \in R
    BY <1>0, <2>1, <2>2 DEF Chain
  <2>4. FrameOf(t, words, line, 1, r) = TopFrame(t, words, line, v, r[2])
    BY <1>0, <2>1, Zenon DEF FrameOf, LineOf, TopFrame
  <2> QED
    BY <2>3, <2>4
<1>5. Owes(s, words, t[words], R, none, r[2])
  BY <1>1, <1>2, <1>3, Zenon DEF Chain, Owes
<1> QED
  BY <1>4, <1>5

\* There is no frame.
LEMMA ChainEmpty ==
  ASSUME NEW words \in {3, 4}, NEW line, NEW R, NEW none, NEW v
  PROVE  Owes(<< >>, words, line, R, none, v) <=> v = none
<1>1. Len(<< >>) = 0 /\ 1 \in Nat \ {0}
  BY EmptySeq, SMT
<1>2. \A k \in Nat \ {0} : ~(words * k <= 0)
  <2>1. \A k \in Nat \ {0} : ~(3 * k <= 0) /\ ~(4 * k <= 0)
    BY SMT
  <2> QED
    BY <2>1
<1>3. ASSUME NEW r, Chain(<< >>, words, line, R, none, r) PROVE r[1] = none
  BY <1>1, <1>2, <1>3, Zenon DEF Chain
<1> DEFINE r == [k \in Nat |-> none]
<1>4. Chain(<< >>, words, line, R, none, r)
  BY <1>1, <1>2, Zenon DEF Chain
<1>5. r[1] = none
  BY <1>1
<1> QED
  BY <1>3, <1>4, <1>5, Zenon DEF Owes

-----------------------------------------------------------------------------
(* The traversals. *)

\* The frame <<right child, left child, key, return address>> says what is still
\* printed after the recursion that it was made for has returned.
Promises(order, size) ==
  {f \in [line : Int, first : 0 .. size, third : Int, all : Seq(Int), rest : Seq(Int)] :
     /\ f.line = AfterInOrderLeft => f.all = (<<f.third>> \o order[f.first]) \o f.rest
     /\ f.line = AfterPreOrderLeft => f.all = order[f.first] \o f.rest
     /\ f.line \in {AfterInOrderRight, AfterPreOrderRight} => f.all = f.rest}

\* With what was printed and what the innermost call prints, this is the order.
Promised(order, size, s, line, out, todo, top) ==
  \E v \in Seq(Int) : /\ Owes(s, 4, line, Promises(order, size), << >>, v)
                      /\ out \o (todo \o v) = order[top]

LEMMA FrameIsPromise ==
  ASSUME NEW order, NEW size, NEW t, NEW line \in Int, t[1] \in 0 .. size, t[3] \in Int,
         NEW all \in Seq(Int), NEW rest \in Seq(Int),
         line = AfterInOrderLeft => all = (<<t[3]>> \o order[t[1]]) \o rest,
         line = AfterPreOrderLeft => all = order[t[1]] \o rest,
         line \in {AfterInOrderRight, AfterPreOrderRight} => all = rest
  PROVE  TopFrame(t, 4, line, all, rest) \in Promises(order, size)
<1> DEFINE f == TopFrame(t, 4, line, all, rest)
<1>1. t[4 - 1] = t[3]
  <2>1. 4 - 1 = 3
    BY SMT
  <2> QED
    BY <2>1, Zenon
<1>2. f = [line |-> line, first |-> t[1], third |-> t[3], all |-> all, rest |-> rest]
  BY <1>1, Zenon DEF TopFrame
<1>3. /\ f.line = line /\ f.first = t[1] /\ f.third = t[3] /\ f.all = all /\ f.rest = rest
      /\ f \in [line : Int, first : 0 .. size, third : Int, all : Seq(Int), rest : Seq(Int)]
  BY <1>2
<1> HIDE DEF f
<1>4. f \in Promises(order, size)
  BY <1>3, Zenon DEF Promises
<1> QED
  BY <1>4 DEF f

LEMMA Associate ==
  ASSUME NEW a \in Seq(Int), NEW b \in Seq(Int), NEW c \in Seq(Int)
  PROVE  (a \o b) \o c = a \o (b \o c)
BY ConcatAssociative

LEMMA PromiseMade ==
  ASSUME NEW order, NEW size, NEW top, NEW s \in Seq(Int), NEW t, OnTop(t, s, 4),
         NEW line, NEW out \in Seq(Int), NEW now \in Seq(Int), NEW later \in Seq(Int),
         Promised(order, size, s, t[4], out, now \o later, top),
         \A rest \in Seq(Int) :
           TopFrame(t, 4, line, later \o rest, rest) \in Promises(order, size)
  PROVE  Promised(order, size, t, line, out, now, top)
<1>1. PICK rest \in Seq(Int) : /\ Owes(s, 4, t[4], Promises(order, size), << >>, rest)
                               /\ out \o ((now \o later) \o rest) = order[top]
  BY DEF Promised
<1> DEFINE v == later \o rest
<1>2. v \in Seq(Int)
  BY <1>1, ConcatProperties
<1>3. (now \o later) \o rest = now \o v
  BY <1>1, Associate, Zenon DEF v
<1>4. TopFrame(t, 4, line, v, rest) \in Promises(order, size)
  BY <1>1
<1> HIDE DEF v
<1>5. Owes(t, 4, line, Promises(order, size), << >>, v)
  <2>1. 4 \in {3, 4}
    OBVIOUS
  <2> QED
    BY <1>1, <1>4, <2>1, ChainPushed
<1> QED
  BY <1>1, <1>2, <1>3, <1>5, Zenon DEF Promised

LEMMA PromiseKept ==
  ASSUME NEW order, NEW size, NEW top, NEW s \in Seq(Int), NEW t, OnTop(t, s, 4),
         NEW line, NEW out \in Seq(Int), NEW later \in Seq(Int),
         Promised(order, size, t, line, out, << >>, top),
         \A v, rest : TopFrame(t, 4, line, v, rest) \in Promises(order, size) =>
                        rest \in Seq(Int) /\ v = later \o rest
  PROVE  Promised(order, size, s, t[4], out, later, top)
<1>1. PICK v \in Seq(Int) : /\ Owes(t, 4, line, Promises(order, size), << >>, v)
                            /\ out \o (<< >> \o v) = order[top]
  BY DEF Promised
<1>2. PICK rest : /\ TopFrame(t, 4, line, v, rest) \in Promises(order, size)
                  /\ Owes(s, 4, t[4], Promises(order, size), << >>, rest)
  <2>1. 4 \in {3, 4}
    OBVIOUS
  <2> QED
    BY <1>1, <2>1, ChainPopped
<1>3. << >> \o v = v
  BY ConcatEmptySeq
<1>4. rest \in Seq(Int) /\ v = later \o rest
  BY <1>2
<1>5. out \o (later \o rest) = order[top]
  BY <1>1, <1>3, <1>4, Zenon
<1> QED
  BY <1>2, <1>4, <1>5, Zenon DEF Promised

LEMMA WordMovesOver ==
  ASSUME NEW out \in Seq(Int), NEW w \in Seq(Int), NEW now \in Seq(Int), NEW v \in Seq(Int)
  PROVE  (out \o w) \o (now \o v) = out \o ((w \o now) \o v)
<1>1. (w \o now) \o v = w \o (now \o v)
  BY Associate, Zenon
<1>2. now \o v \in Seq(Int)
  BY ConcatProperties
<1>3. \A u \in Seq(Int) : (out \o w) \o u = out \o (w \o u)
  BY Associate, Zenon
<1>4. (out \o w) \o (now \o v) = out \o (w \o (now \o v))
  BY <1>2, <1>3
<1> QED
  BY <1>1, <1>4, Zenon

LEMMA PrintedFirst ==
  ASSUME NEW out \in Seq(Int), NEW k \in Int, NEW now \in Seq(Int), NEW v \in Seq(Int)
  PROVE  Append(out, k) \o (now \o v) = out \o ((<<k>> \o now) \o v)
<1>1. <<k>> \in Seq(Int)
  BY SMT
<1>2. Append(out, k) = out \o <<k>>
  BY AppendIsConcat
<1>3. (out \o <<k>>) \o (now \o v) = out \o ((<<k>> \o now) \o v)
  BY <1>1, WordMovesOver
<1> QED
  BY <1>2, <1>3, Zenon

LEMMA PromisedKeyPrinted ==
  ASSUME NEW order, NEW size, NEW top, NEW s, NEW line, NEW out \in Seq(Int), NEW k \in Int,
         NEW now \in Seq(Int), Promised(order, size, s, line, out, <<k>> \o now, top)
  PROVE  Promised(order, size, s, line, Append(out, k), now, top)
<1>1. PICK v \in Seq(Int) : /\ Owes(s, 4, line, Promises(order, size), << >>, v)
                            /\ out \o ((<<k>> \o now) \o v) = order[top]
  BY DEF Promised
<1>2. Append(out, k) \o (now \o v) = order[top]
  BY <1>1, PrintedFirst, Zenon
<1> QED
  BY <1>1, <1>2, Zenon DEF Promised

-----------------------------------------------------------------------------
(* The traversals: each action in turn. *)

Traversals == {bst_in_order_traversal, bst_pre_order_traversal}

\* No recursion returns to the first instruction.
LEMMA EntryOfTraversal ==
  ASSUME Control, pc \in Traversals
  PROVE  regs.ra \notin Traversals
<1>1. \A entry \in Traversals : entry \notin {Caller(4)} \cup AfterInOrder \cup AfterPreOrder
  BY Labels DEF Traversals, AfterInOrder, AfterPreOrder
<1>2. regs.ra \in {Caller(4)} \cup AfterInOrder \cup AfterPreOrder
  BY DEF Traversals, Control, ControlFlow, Recursive
<1> QED
  BY <1>1, <1>2

\* The frame on top, and what is under it.
LEMMA FrameOfTraversal ==
  ASSUME Control, pc \in AfterInOrder \cup AfterPreOrder
  PROVE  /\ pc \notin Traversals /\ stack[4] \notin Traversals
         /\ Popped(16) \in Seq(Int) /\ OnTop(stack, Popped(16), 4)
         /\ stack[1] \in Int /\ stack[3] \in Int /\ stack[4] \in Int
<1>1. \A entry \in Traversals : entry \notin {Caller(4)} \cup AfterInOrder \cup AfterPreOrder
  BY Labels DEF Traversals, AfterInOrder, AfterPreOrder
<1>2. PICK lines : /\ lines \in {AfterInOrder, AfterPreOrder}
                   /\ stack # << >> /\ Frames(stack, 4, lines)
  BY Zenon DEF Control, ControlFlow, Recursive
<1>3. stack \in Seq(Int) /\ Len(stack) \in Nat
  BY Types, LenProperties DEF Control
<1>4. /\ 4 <= Len(stack)
      /\ IF Popped(16) = << >> THEN stack[4] = Caller(4) ELSE stack[4] \in lines
  BY <1>2, <1>3, FramePopped, Offsets
<1>5. 4 \in Nat /\ Popped(16) = SubSeq(stack, 4 + 1, Len(stack))
  BY Offsets, SMT
<1>7. Popped(16) \in Seq(Int) /\ OnTop(stack, Popped(16), 4)
  BY <1>3, <1>4, <1>5, WordsOnTop, Zenon
<1>8. stack[1] \in Int /\ stack[3] \in Int /\ stack[4] \in Int
  <2>1. 1 \in 1 .. Len(stack) /\ 3 \in 1 .. Len(stack) /\ 4 \in 1 .. Len(stack)
    BY <1>3, <1>4, SMT
  <2> QED
    BY <1>3, <2>1, ElementOfSeq
<1>9. pc \notin Traversals /\ stack[4] \notin Traversals
  BY <1>1, <1>2, <1>4
<1> QED
  BY <1>7, <1>8, <1>9

\* What is still to be printed, by the order.
Traverses(order) ==
  /\ pc \in Traversals => regs.a0 \in 0 .. Size
  /\ Promised(order, Size, stack, IF pc \in Traversals THEN regs.ra ELSE pc, console,
              IF pc \in Traversals THEN order[regs.a0] ELSE << >>, root)

LEMMA TraversalNothing ==
  ASSUME TreeInv, TraverseNothing, NEW inOrder, NEW order,
         IsOrder(order, memory, Size, inOrder), Traverses(order), Size' = Size
  PROVE  Traverses(order)'
<1>1. /\ pc \in Traversals /\ regs.a0 = NULL /\ pc' = regs.ra
      /\ UNCHANGED <<stack, console, root>>
  BY DEF TraverseNothing, Traversals
<1>2. pc' \notin Traversals
  BY <1>1, EntryOfTraversal DEF TreeInv
<1>3. Promised(order, Size, stack, pc', console, << >>, root)
  BY <1>1 DEF Traverses, IsOrder
<1>4. Promised(order, Size', stack', pc', console', << >>, root')
  BY <1>1, <1>3
<1>5. Traversals' = Traversals
  BY DEF Traversals, bst_in_order_traversal, bst_pre_order_traversal, Line
<1> QED
  BY <1>2, <1>4, <1>5, Zenon DEF Traverses

LEMMA TraversalReturn ==
  ASSUME TreeInv, TraversalReturns, NEW inOrder, NEW order,
         IsOrder(order, memory, Size, inOrder), Traverses(order), Size' = Size
  PROVE  Traverses(order)'
<1>1. /\ pc \in {AfterInOrderRight, AfterPreOrderRight}
      /\ regs' = [regs EXCEPT !.ra = stack[4]] /\ stack' = Popped(16) /\ pc' = regs'.ra
      /\ UNCHANGED <<console, root>>
  BY Offsets DEF TraversalReturns, FrameBytes, JrRa
<1>2. /\ pc \notin Traversals /\ stack[4] \notin Traversals
      /\ Popped(16) \in Seq(Int) /\ OnTop(stack, Popped(16), 4)
  BY <1>1, FrameOfTraversal DEF TreeInv, AfterInOrder, AfterPreOrder
<1>3. console \in Seq(Int) /\ regs \in Registers
  BY Types DEF TreeInv, Control
<1>4. pc' = stack[4]
  BY <1>1, <1>3 DEF Registers
<1>5. Promised(order, Size, stack, pc, console, << >>, root)
  BY <1>2 DEF Traverses
<1>6. << >> \in Seq(Int)
  BY SMT
<1>7. ASSUME NEW v, NEW rest, TopFrame(stack, 4, pc, v, rest) \in Promises(order, Size)
      PROVE  rest \in Seq(Int) /\ v = << >> \o rest
  <2>1. TopFrame(stack, 4, pc, v, rest) =
          [line |-> pc, first |-> stack[1], third |-> stack[4 - 1], all |-> v, rest |-> rest]
    BY DEF TopFrame
  <2> DEFINE f == [line |-> pc, first |-> stack[1], third |-> stack[4 - 1], all |-> v,
                   rest |-> rest]
  <2>2. f \in Promises(order, Size) /\ f.line = pc /\ f.all = v /\ f.rest = rest
    BY <1>7, <2>1
  <2> HIDE DEF f
  <2>3. rest \in Seq(Int) /\ v = rest
    BY <1>1, <2>2 DEF Promises
  <2> QED
    BY <2>3, ConcatEmptySeq
<1>8. Promised(order, Size, stack', pc', console, << >>, root)
  BY <1>1, <1>2, <1>3, <1>4, <1>5, <1>6, <1>7, PromiseKept
<1>9. Promised(order, Size', stack', pc', console', << >>, root')
  BY <1>1, <1>8
<1>10. Traversals' = Traversals
  BY DEF Traversals, bst_in_order_traversal, bst_pre_order_traversal, Line
<1> QED
  BY <1>2, <1>4, <1>9, <1>10, Zenon DEF Traverses

\* The frame that is pushed for the recursion on the left child.
LEMMA TraversalFramePushed ==
  ASSUME TreeInv, pc \in Traversals, regs.a0 # NULL, NEW inOrder, NEW order,
         IsOrder(order, memory, Size, inOrder), Traverses(order),
         stack' = Pushed(TraversalFrame(memory[regs.a0]))
  PROVE  LET node == memory[regs.a0]
         IN  /\ node.left \in 0 .. Size /\ node.right \in 0 .. Size /\ node.key \in Int
             /\ node.left \in Int /\ node.right \in Int
             /\ order[node.left] \in Seq(Int) /\ order[node.right] \in Seq(Int)
             /\ order[regs.a0] = Visit(inOrder, order[node.left], node.key, order[node.right])
             /\ OnTop(stack', stack, 4)
             /\ stack'[1] = node.right /\ stack'[3] = node.key /\ stack'[4] = regs.ra
<1> DEFINE n == regs.a0
           node == memory[n]
<1>1. /\ memory \in [Node -> BSTNode] /\ Size \in 0 .. Nodes /\ Links(memory, Size)
      /\ stack \in Seq(Int) /\ regs.ra \in Int
  BY SizeType, Types DEF TreeInv, Control, IsTree, Shape
<1>2. n \in 0 .. Size /\ n # 0
  BY DEF Traverses, NULL
<1>3. n \in 1 .. Size
  BY <1>1, <1>2, NodesAssumption, SMT
<1> HIDE DEF n
<1>4. node.left \in Link /\ node.right \in Link /\ node.key \in Int
  BY <1>1, <1>3, NodeTypes
<1>5. node.left \in 0 .. Size /\ node.right \in 0 .. Size
  <2>1. 0 \in 0 .. Size /\ 1 .. Size \subseteq 0 .. Size
    BY <1>1, NodesAssumption, SMT
  <2> QED
    BY <1>1, <1>3, <2>1, ChildTypes DEF NULL
<1>6. /\ order[node.left] \in Seq(Int) /\ order[node.right] \in Seq(Int)
      /\ order[n] = Visit(inOrder, order[node.left], node.key, order[node.right])
  BY <1>3, <1>5 DEF IsOrder
<1>7. node.left \in Int /\ node.right \in Int
  BY <1>4, LinkType
<1>8. stack' = <<node.right, node.left, node.key, regs.ra>> \o stack
  BY DEF Pushed, TraversalFrame, n
<1> HIDE DEF node
<1>9. /\ stack' \in Seq(Int) /\ Len(stack') = Len(stack) + 4
      /\ stack'[1] = node.right /\ stack'[3] = node.key /\ stack'[4] = regs.ra
      /\ \A i \in 1 .. Len(stack) : stack'[i + 4] = stack[i]
  BY <1>1, <1>4, <1>7, <1>8, FrameOfFour
<1>10. OnTop(stack', stack, 4)
  BY <1>1, <1>9, Zenon DEF OnTop
<1> QED
  BY <1>4, <1>5, <1>6, <1>7, <1>9, <1>10, Zenon DEF n, node

\* The registers of a recursive call.
LEMMA TraversalArguments ==
  ASSUME regs \in Registers, NEW entry, NEW line \in Int, NEW child \in Int, NEW key \in Int,
         NEW right \in Int,
         Jal(entry, line, [regs EXCEPT !.a0 = child, !.t1 = key, !.t3 = right])
  PROVE  pc' = entry /\ regs'.ra = line /\ regs'.a0 = child
<1>1. /\ pc' = entry
      /\ regs' = [[regs EXCEPT !.a0 = child, !.t1 = key, !.t3 = right] EXCEPT !.ra = line]
  BY DEF Jal
<1>2. regs'.ra = line /\ regs'.a0 = child
  BY <1>1 DEF Registers
<1> QED
  BY <1>1, <1>2

LEMMA TraversalLeftInOrder ==
  ASSUME TreeInv, InOrderLeft, NEW inOrder, NEW order,
         IsOrder(order, memory, Size, inOrder), Traverses(order), Size' = Size,
         \A left, key, right : Visit(inOrder, left, key, right) = left \o <<key>> \o right
  PROVE  Traverses(order)'
<1> DEFINE node == memory[regs.a0]
           line == AfterInOrderLeft
<1>1. /\ pc \in Traversals /\ regs.a0 # NULL
      /\ stack' = Pushed(TraversalFrame(node))
      /\ Jal(bst_in_order_traversal, line,
             [regs EXCEPT !.a0 = node.left, !.t1 = node.key, !.t3 = node.right])
      /\ UNCHANGED <<console, root>>
  BY Zenon DEF InOrderLeft, Traversals
<1>2. /\ node.left \in 0 .. Size /\ node.right \in 0 .. Size /\ node.key \in Int
      /\ node.left \in Int /\ node.right \in Int
      /\ order[node.left] \in Seq(Int) /\ order[node.right] \in Seq(Int)
      /\ order[regs.a0] = Visit(inOrder, order[node.left], node.key, order[node.right])
      /\ OnTop(stack', stack, 4)
      /\ stack'[1] = node.right /\ stack'[3] = node.key /\ stack'[4] = regs.ra
  BY <1>1, TraversalFramePushed
<1>3. /\ console \in Seq(Int) /\ stack \in Seq(Int) /\ regs \in Registers /\ line \in Int
      /\ line # AfterPreOrderLeft /\ line \notin {AfterInOrderRight, AfterPreOrderRight}
  BY Types, Labels DEF TreeInv, Control
<1> HIDE DEF node, line
<1>4. pc' = bst_in_order_traversal /\ regs'.ra = line /\ regs'.a0 = node.left
  <2>1. Jal(bst_in_order_traversal, line,
            [regs EXCEPT !.a0 = node.left, !.t1 = node.key, !.t3 = node.right])
    BY <1>1
  <2>2. regs \in Registers /\ line \in Int
    BY <1>3
  <2>3. node.left \in Int /\ node.key \in Int /\ node.right \in Int
    BY <1>2
  <2> QED
    BY <2>1, <2>2, <2>3, TraversalArguments, Zenon
<1> DEFINE now == order[node.left]
           after == order[node.right]
           later == <<node.key>> \o after
<1>5. <<node.key>> \in Seq(Int)
  BY <1>2, SMT
<1>6. now \in Seq(Int) /\ after \in Seq(Int) /\ later \in Seq(Int)
  BY <1>2, <1>5, ConcatProperties
<1>7. order[regs.a0] = now \o later
  <2>1. order[regs.a0] = (now \o <<node.key>>) \o after
    <3>1. Visit(inOrder, now, node.key, after) = (now \o <<node.key>>) \o after
      OBVIOUS
    <3> QED
      BY <1>2, <3>1, Zenon
  <2> QED
    BY <1>5, <1>6, <2>1, Associate, Zenon
<1>8. Promised(order, Size, stack, stack'[4], console, now \o later, root)
  BY <1>1, <1>2, <1>7 DEF Traverses
<1>9. ASSUME NEW rest \in Seq(Int)
      PROVE  TopFrame(stack', 4, line, later \o rest, rest) \in Promises(order, Size)
  <2>1. later \o rest \in Seq(Int)
    BY <1>6, ConcatProperties
  <2> HIDE DEF later
  <2>2. line = AfterInOrderLeft => later \o rest = (<<stack'[3]>> \o order[stack'[1]]) \o rest
    BY <1>2, Zenon DEF later
  <2> QED
    BY <1>2, <1>3, <2>1, <2>2, FrameIsPromise, Zenon
<1> HIDE DEF later, now
<1>10. Promised(order, Size, stack', line, console, now, root)
  BY <1>2, <1>3, <1>6, <1>8, <1>9, PromiseMade
<1>11. Traversals' = Traversals /\ bst_in_order_traversal \in Traversals
  BY DEF Traversals, bst_in_order_traversal, bst_pre_order_traversal, Line
<1>12. Promised(order, Size', stack', regs'.ra, console', order[regs'.a0], root')
  BY <1>1, <1>4, <1>10 DEF now
<1> QED
  BY <1>2, <1>4, <1>11, <1>12, Zenon DEF Traverses

LEMMA TraversalLeftPreOrder ==
  ASSUME TreeInv, PreOrderLeft, NEW inOrder, NEW order,
         IsOrder(order, memory, Size, inOrder), Traverses(order), Size' = Size,
         \A left, key, right : Visit(inOrder, left, key, right) = <<key>> \o left \o right
  PROVE  Traverses(order)'
<1> DEFINE node == memory[regs.a0]
           line == AfterPreOrderLeft
<1>1. /\ pc \in Traversals /\ regs.a0 # NULL
      /\ stack' = Pushed(TraversalFrame(node))
      /\ Jal(bst_pre_order_traversal, line,
             [regs EXCEPT !.a0 = node.left, !.t1 = node.key, !.t3 = node.right])
      /\ console' = Append(console, node.key) /\ UNCHANGED root
  BY Zenon DEF PreOrderLeft, Traversals
<1>2. /\ node.left \in 0 .. Size /\ node.right \in 0 .. Size /\ node.key \in Int
      /\ node.left \in Int /\ node.right \in Int
      /\ order[node.left] \in Seq(Int) /\ order[node.right] \in Seq(Int)
      /\ order[regs.a0] = Visit(inOrder, order[node.left], node.key, order[node.right])
      /\ OnTop(stack', stack, 4)
      /\ stack'[1] = node.right /\ stack'[3] = node.key /\ stack'[4] = regs.ra
  BY <1>1, TraversalFramePushed
<1>3. /\ console \in Seq(Int) /\ stack \in Seq(Int) /\ regs \in Registers /\ line \in Int
      /\ line # AfterInOrderLeft /\ line \notin {AfterInOrderRight, AfterPreOrderRight}
  BY Types, Labels DEF TreeInv, Control
<1> HIDE DEF node, line
<1>4. pc' = bst_pre_order_traversal /\ regs'.ra = line /\ regs'.a0 = node.left
  <2>1. Jal(bst_pre_order_traversal, line,
            [regs EXCEPT !.a0 = node.left, !.t1 = node.key, !.t3 = node.right])
    BY <1>1
  <2>2. regs \in Registers /\ line \in Int
    BY <1>3
  <2>3. node.left \in Int /\ node.key \in Int /\ node.right \in Int
    BY <1>2
  <2> QED
    BY <2>1, <2>2, <2>3, TraversalArguments, Zenon
<1> DEFINE after == order[node.right]
           key == <<node.key>>
           now == key \o order[node.left]
<1>5. key \in Seq(Int)
  BY <1>2, SMT
<1>6. now \in Seq(Int) /\ after \in Seq(Int) /\ order[node.left] \in Seq(Int)
  BY <1>2, <1>5, ConcatProperties
<1>7. order[regs.a0] = now \o after
  <2>1. Visit(inOrder, order[node.left], node.key, after) = (key \o order[node.left]) \o after
    OBVIOUS
  <2> QED
    BY <1>2, <2>1, Zenon
<1>8. Promised(order, Size, stack, stack'[4], console, now \o after, root)
  BY <1>1, <1>2, <1>7 DEF Traverses
<1>9. ASSUME NEW rest \in Seq(Int)
      PROVE  TopFrame(stack', 4, line, after \o rest, rest) \in Promises(order, Size)
  <2>1. after \o rest \in Seq(Int)
    BY <1>6, ConcatProperties
  <2> HIDE DEF after
  <2>2. line = AfterPreOrderLeft => after \o rest = order[stack'[1]] \o rest
    BY <1>2, Zenon DEF after
  <2> QED
    BY <1>2, <1>3, <2>1, <2>2, FrameIsPromise, Zenon
<1> HIDE DEF after, now
<1>10. Promised(order, Size, stack', line, console, now, root)
  BY <1>2, <1>3, <1>6, <1>8, <1>9, PromiseMade
<1>11. Promised(order, Size, stack', line, console', order[node.left], root)
  <2>1. Promised(order, Size, stack', line, console, <<node.key>> \o order[node.left], root)
    BY <1>10 DEF now
  <2>2. Promised(order, Size, stack', line, Append(console, node.key), order[node.left], root)
    BY <1>2, <1>3, <2>1, PromisedKeyPrinted, Zenon
  <2> QED
    BY <1>1, <2>2
<1>12. Traversals' = Traversals /\ bst_pre_order_traversal \in Traversals
  BY DEF Traversals, bst_in_order_traversal, bst_pre_order_traversal, Line
<1>13. Promised(order, Size', stack', regs'.ra, console', order[regs'.a0], root')
  BY <1>1, <1>4, <1>11
<1> QED
  BY <1>2, <1>4, <1>12, <1>13, Zenon DEF Traverses

\* The words of the frame are those of a promise.
LEMMA PromiseRead ==
  ASSUME NEW order, NEW size, NEW top, NEW s, NEW t, OnTop(t, s, 4),
         NEW line, NEW out, NEW todo, Promised(order, size, t, line, out, todo, top)
  PROVE  t[1] \in 0 .. size /\ t[3] \in Int
<1>1. PICK v \in Seq(Int) : Owes(t, 4, line, Promises(order, size), << >>, v)
  BY DEF Promised
<1>2. PICK rest : TopFrame(t, 4, line, v, rest) \in Promises(order, size)
  <2>1. 4 \in {3, 4}
    OBVIOUS
  <2> QED
    BY <1>1, <2>1, ChainPopped
<1> DEFINE f == TopFrame(t, 4, line, v, rest)
<1>3. f.first = t[1] /\ f.third = t[3]
  <2>1. 4 - 1 = 3
    BY SMT
  <2> QED
    BY <2>1 DEF TopFrame
<1> HIDE DEF f
<1>4. f \in Promises(order, size)
  BY <1>2 DEF f
<1>5. f.first \in 0 .. size /\ f.third \in Int
  BY <1>4, SMT DEF Promises
<1> QED
  BY <1>3, <1>5

\* The frame stays for the recursion on the right child: nothing else is promised.
LEMMA PromiseRenewed ==
  ASSUME NEW order, NEW size, NEW top, NEW s \in Seq(Int), NEW t, OnTop(t, s, 4),
         NEW line, NEW out \in Seq(Int), NEW later \in Seq(Int),
         Promised(order, size, t, line, out, << >>, top),
         \A v, rest : TopFrame(t, 4, line, v, rest) \in Promises(order, size) =>
                        rest \in Seq(Int) /\ v = later \o rest,
         NEW right \in {AfterInOrderRight, AfterPreOrderRight}
  PROVE  Promised(order, size, t, right, out, later, top)
<1>1. Promised(order, size, s, t[4], out, later, top)
  BY PromiseKept
<1>2. t[1] \in 0 .. size /\ t[3] \in Int
  BY PromiseRead
<1>3. << >> \in Seq(Int)
  BY SMT
<1>4. later \o << >> = later
  BY ConcatEmptySeq
<1>5. /\ right \in Int /\ right # AfterInOrderLeft /\ right # AfterPreOrderLeft
  BY Labels
<1>6. ASSUME NEW rest \in Seq(Int)
      PROVE  TopFrame(t, 4, right, << >> \o rest, rest) \in Promises(order, size)
  <2>1. << >> \o rest = rest
    BY ConcatEmptySeq
  <2>2. TopFrame(t, 4, right, rest, rest) \in Promises(order, size)
    BY <1>2, <1>5, FrameIsPromise, Zenon
  <2> QED
    BY <2>1, <2>2, Zenon
<1>7. Promised(order, size, s, t[4], out, later \o << >>, top)
  BY <1>1, <1>4
<1>8. Promised(order, size, t, right, out, later, top)
  BY <1>3, <1>6, <1>7, PromiseMade
<1> QED
  BY <1>8

LEMMA TraversalRightInOrder ==
  ASSUME TreeInv, InOrderRight, NEW inOrder, NEW order,
         IsOrder(order, memory, Size, inOrder), Traverses(order), Size' = Size
  PROVE  Traverses(order)'
<1>1. /\ pc = AfterInOrderLeft
      /\ console' = Append(console, stack[3])
      /\ Jal(bst_in_order_traversal, AfterInOrderRight,
             [regs EXCEPT !.a0 = stack[1], !.t1 = stack[3], !.t3 = stack[1]])
      /\ UNCHANGED <<stack, root>>
  BY Offsets, Zenon DEF InOrderRight
<1>2. /\ pc \notin Traversals /\ Popped(16) \in Seq(Int) /\ OnTop(stack, Popped(16), 4)
      /\ stack[1] \in Int /\ stack[3] \in Int
  BY <1>1, FrameOfTraversal DEF TreeInv, AfterInOrder
<1>3. /\ console \in Seq(Int) /\ regs \in Registers /\ AfterInOrderRight \in Int
  BY Types, Labels DEF TreeInv, Control
<1>4. /\ pc' = bst_in_order_traversal /\ regs'.ra = AfterInOrderRight /\ regs'.a0 = stack[1]
  BY <1>1, <1>2, <1>3, TraversalArguments
<1>5. Promised(order, Size, stack, pc, console, << >>, root)
  BY <1>2 DEF Traverses
<1>6. stack[1] \in 0 .. Size
  BY <1>2, <1>5, PromiseRead
<1> DEFINE now == order[stack[1]]
           later == <<stack[3]>> \o now
<1>7. now \in Seq(Int) /\ later \in Seq(Int)
  <2>1. now \in Seq(Int) /\ <<stack[3]>> \in Seq(Int)
    BY <1>2, <1>6 DEF IsOrder
  <2> QED
    BY <2>1, ConcatProperties
<1>8. ASSUME NEW v, NEW rest, TopFrame(stack, 4, pc, v, rest) \in Promises(order, Size)
      PROVE  rest \in Seq(Int) /\ v = later \o rest
  <2> DEFINE f == TopFrame(stack, 4, pc, v, rest)
  <2>1. f.line = pc /\ f.first = stack[1] /\ f.third = stack[3] /\ f.all = v /\ f.rest = rest
    <3>1. 4 - 1 = 3
      BY SMT
    <3> QED
      BY <3>1 DEF TopFrame
  <2> HIDE DEF f
  <2>2. f \in Promises(order, Size)
    BY <1>8 DEF f
  <2>3. f.rest \in Seq(Int) /\ f.all = (<<f.third>> \o order[f.first]) \o f.rest
    BY <1>1, <2>1, <2>2 DEF Promises
  <2> QED
    BY <2>1, <2>3
<1> HIDE DEF later, now
<1>9. Promised(order, Size, stack, AfterInOrderRight, console, later, root)
  BY <1>2, <1>3, <1>5, <1>7, <1>8, PromiseRenewed
<1>10. Promised(order, Size, stack, AfterInOrderRight, console', now, root)
  <2>1. Promised(order, Size, stack, AfterInOrderRight, console, <<stack[3]>> \o now, root)
    BY <1>9 DEF later
  <2>2. Promised(order, Size, stack, AfterInOrderRight, Append(console, stack[3]), now, root)
    BY <1>2, <1>3, <1>7, <2>1, PromisedKeyPrinted, Zenon
  <2> QED
    BY <1>1, <2>2
<1>11. Traversals' = Traversals /\ bst_in_order_traversal \in Traversals
  BY DEF Traversals, bst_in_order_traversal, bst_pre_order_traversal, Line
<1>12. Promised(order, Size', stack', regs'.ra, console', order[regs'.a0], root')
  BY <1>1, <1>4, <1>10 DEF now
<1> QED
  BY <1>4, <1>6, <1>11, <1>12, Zenon DEF Traverses

LEMMA TraversalRightPreOrder ==
  ASSUME TreeInv, PreOrderRight, NEW inOrder, NEW order,
         IsOrder(order, memory, Size, inOrder), Traverses(order), Size' = Size
  PROVE  Traverses(order)'
<1>1. /\ pc = AfterPreOrderLeft
      /\ Jal(bst_pre_order_traversal, AfterPreOrderRight,
             [regs EXCEPT !.a0 = stack[1], !.t1 = stack[3], !.t3 = stack[1]])
      /\ UNCHANGED <<stack, console, root>>
  BY Offsets, Zenon DEF PreOrderRight, RightFromStack
<1>2. /\ pc \notin Traversals /\ Popped(16) \in Seq(Int) /\ OnTop(stack, Popped(16), 4)
      /\ stack[1] \in Int /\ stack[3] \in Int
  BY <1>1, FrameOfTraversal DEF TreeInv, AfterPreOrder
<1>3. /\ console \in Seq(Int) /\ regs \in Registers /\ AfterPreOrderRight \in Int
      /\ AfterPreOrderLeft # AfterInOrderLeft
  BY Types, Labels DEF TreeInv, Control
<1>4. /\ pc' = bst_pre_order_traversal /\ regs'.ra = AfterPreOrderRight /\ regs'.a0 = stack[1]
  BY <1>1, <1>2, <1>3, TraversalArguments
<1>5. Promised(order, Size, stack, pc, console, << >>, root)
  BY <1>2 DEF Traverses
<1>6. stack[1] \in 0 .. Size
  BY <1>2, <1>5, PromiseRead
<1> DEFINE now == order[stack[1]]
<1>7. now \in Seq(Int)
  BY <1>6 DEF IsOrder
<1>8. ASSUME NEW v, NEW rest, TopFrame(stack, 4, pc, v, rest) \in Promises(order, Size)
      PROVE  rest \in Seq(Int) /\ v = now \o rest
  <2> DEFINE f == TopFrame(stack, 4, pc, v, rest)
  <2>1. f.line = pc /\ f.first = stack[1] /\ f.all = v /\ f.rest = rest
    BY DEF TopFrame
  <2> HIDE DEF f
  <2>2. f \in Promises(order, Size)
    BY <1>8 DEF f
  <2>3. f.rest \in Seq(Int) /\ f.all = order[f.first] \o f.rest
    BY <1>1, <2>1, <2>2 DEF Promises
  <2> QED
    BY <2>1, <2>3
<1> HIDE DEF now
<1>9. Promised(order, Size, stack, AfterPreOrderRight, console, now, root)
  BY <1>2, <1>3, <1>5, <1>7, <1>8, PromiseRenewed
<1>10. Traversals' = Traversals /\ bst_pre_order_traversal \in Traversals
  BY DEF Traversals, bst_in_order_traversal, bst_pre_order_traversal, Line
<1>11. Promised(order, Size', stack', regs'.ra, console', order[regs'.a0], root')
  BY <1>1, <1>4, <1>9 DEF now
<1> QED
  BY <1>4, <1>6, <1>10, <1>11, Zenon DEF Traverses

-----------------------------------------------------------------------------
(* The traversals: the invariant. *)

InOrderRuns == call.fn = "in order"
PreOrderRuns == call.fn = "pre order"

TraversalInv ==
  /\ InOrderRuns => \E order : IsOrder(order, memory, Size, TRUE) /\ Traverses(order)
  /\ PreOrderRuns => \E order : IsOrder(order, memory, Size, FALSE) /\ Traverses(order)

\* Where they run.
LEMMA TraversalRuns ==
  ASSUME InFunction
  PROVE  /\ InOrderRuns => pc \in {Caller(4), bst_in_order_traversal} \cup AfterInOrder
         /\ PreOrderRuns => pc \in {Caller(4), bst_pre_order_traversal} \cup AfterPreOrder
         /\ ~(InOrderRuns /\ PreOrderRuns)
BY DEF InFunction, InOrderRuns, PreOrderRuns

\* The code that does not concern the tree does not change its size.
LEMMA SameSize ==
  ASSUME TreeInv, Control',
         \/ Search \/ SearchReturns \/ SearchDescends
         \/ CountNothing \/ CountLeft \/ CountRight \/ CountReturns
         \/ TraverseNothing \/ InOrderLeft \/ InOrderRight \/ PreOrderLeft \/ PreOrderRight
         \/ TraversalReturns
  PROVE  /\ UNCHANGED <<memory, root, keys, call>> /\ Root' = Root /\ Root = root
         /\ Size' = Size /\ Inner' = Inner
<1> DEFINE Where == {bst_search, LOOP_BSTSEARCH, bst_count, bst_in_order_traversal,
                     bst_pre_order_traversal} \cup AfterCount \cup AfterInOrder \cup AfterPreOrder
<1>1. pc \in Where /\ UNCHANGED <<memory, root, keys, call>>
  BY Zenon DEF Search, SearchReturns, SearchDescends, CountNothing, CountLeft, CountRight,
         CountReturns, TraverseNothing, InOrderLeft, InOrderRight, PreOrderLeft, PreOrderRight,
         TraversalReturns, AfterCount, AfterInOrder, AfterPreOrder
<1>2. \A p \in Where : p \notin {Caller(4), bst_init_node, bst_insert} \cup AfterInsert
  BY Labels DEF AfterCount, AfterInOrder, AfterPreOrder, AfterInsert
<1> HIDE DEF Where
<1>3. call.fn # "insert"
  BY <1>1, <1>2, RunsInFunction, RunsWhere DEF TreeInv, Control
<1>4. Root = root /\ Root' = root'
  BY <1>1, <1>2, <1>3, RootOfCaller
<1>5. Root' = Root
  BY <1>1, <1>4
<1> QED
  BY <1>1, <1>4, <1>5, SameTree DEF TreeInv

\* A call of a function.
LEMMA Invoked ==
  ASSUME TreeInv, NEW fn, NEW a0, NEW a1, NEW node, NEW key, Invoke(fn, a0, a1, node, key)
  PROVE  /\ pc = Caller(4) /\ pc' = Function(fn) /\ call = NoCall
         /\ call' = [fn |-> fn, node |-> node, key |-> key]
         /\ UNCHANGED <<stack, memory, root>> /\ console' = << >> /\ Root = root
         /\ stack = << >> /\ regs'.a0 = a0 /\ regs'.a1 = a1 /\ regs'.ra = Caller(4)
<1>1. /\ pc = Caller(4) /\ call' = [fn |-> fn, node |-> node, key |-> key] /\ call = NoCall
      /\ pc' = Function(fn) /\ console' = << >>
      /\ regs' = [[NoRegs EXCEPT !.a0 = a0, !.a1 = a1] EXCEPT !.ra = Caller(4)]
      /\ UNCHANGED <<stack, memory, root>>
  BY DEF Invoke, Jal
<1>2. regs'.a0 = a0 /\ regs'.a1 = a1 /\ regs'.ra = Caller(4)
  BY <1>1 DEF NoRegs
<1>3. Root = root
  BY <1>1, RootOfCaller
<1>4. stack = << >>
  BY <1>1 DEF TreeInv, Control, ControlFlow
<1> QED
  BY <1>1, <1>2, <1>3, <1>4

\* A traversal starts.
LEMMA TraversalStarts ==
  ASSUME TreeInv, Size' = Size, pc' \in Traversals, root = First(Size), stack' = << >>,
         console' = << >>,
         UNCHANGED <<memory, root>>, regs'.a0 = root, NEW inOrder
  PROVE  \E order : IsOrder(order, memory', Size', inOrder) /\ Traverses(order)'
<1>1. memory \in [Node -> BSTNode] /\ Size \in 0 .. Nodes /\ Links(memory, Size)
  BY SizeType, Types DEF TreeInv, Control, IsTree, Shape
<1>2. PICK order : IsOrder(order, memory, Size, inOrder)
  BY <1>1, OrderExists
<1>3. root \in 0 .. Size
  BY <1>1, NodesAssumption, SMT DEF First, NULL
<1>4. order[root] \in Seq(Int) /\ << >> \in Seq(Int)
  BY <1>2, <1>3 DEF IsOrder
<1>5. order[root] \o << >> = order[root] /\ << >> \o order[root] = order[root]
  BY <1>4, ConcatEmptySeq
<1>6. Owes(<< >>, 4, regs'.ra, Promises(order, Size), << >>, << >>)
  <2>1. 4 \in {3, 4}
    OBVIOUS
  <2> QED
    BY <2>1, ChainEmpty
<1>7. Promised(order, Size, << >>, regs'.ra, << >>, order[root], root)
  BY <1>4, <1>5, <1>6, Zenon DEF Promised
<1>8. Traversals' = Traversals
  BY DEF Traversals, bst_in_order_traversal, bst_pre_order_traversal, Line
<1>9. Traverses(order)'
  BY <1>3, <1>7, <1>8, Zenon DEF Traverses
<1> QED
  BY <1>2, <1>9

\* Which code runs where.
LEMMA CodePlaces ==
  ASSUME Code
  PROVE  /\ pc # Caller(4) /\ UNCHANGED <<root, keys, call>>
         /\ pc \in {bst_in_order_traversal} \cup AfterInOrder =>
              TraverseNothing \/ InOrderLeft \/ InOrderRight \/ TraversalReturns
         /\ pc \in {bst_pre_order_traversal} \cup AfterPreOrder =>
              TraverseNothing \/ PreOrderLeft \/ PreOrderRight \/ TraversalReturns
         /\ pc \in {bst_count} \cup AfterCount =>
              CountNothing \/ CountLeft \/ CountRight \/ CountReturns
         /\ pc \in {bst_insert} \cup AfterInsert => InsertHere \/ InsertBelow \/ InsertReturns
         /\ pc \in {bst_search, LOOP_BSTSEARCH} => Search \/ SearchReturns \/ SearchDescends
         /\ pc = bst_init_node => InitNode
<1>1. UNCHANGED <<root, keys, call>>
  BY Zenon DEF Code, InitNode, Search, SearchReturns, SearchDescends, CountNothing, CountLeft,
         CountRight, CountReturns, TraverseNothing, InOrderLeft, InOrderRight, PreOrderLeft,
         PreOrderRight, TraversalReturns, InsertHere, InsertBelow, InsertReturns
<1> DEFINE in == InitNode
           se == Search \/ SearchReturns \/ SearchDescends
           co == CountNothing \/ CountLeft \/ CountRight \/ CountReturns
           io == InOrderLeft \/ InOrderRight
           po == PreOrderLeft \/ PreOrderRight
           tn == TraverseNothing
           tr == TraversalReturns
           ins == InsertHere \/ InsertBelow \/ InsertReturns
           At(P) == pc \in P
           AtIn == At({bst_in_order_traversal} \cup AfterInOrder)
           AtPre == At({bst_pre_order_traversal} \cup AfterPreOrder)
           AtCount == At({bst_count} \cup AfterCount)
           AtInsert == At({bst_insert} \cup AfterInsert)
           AtSearch == At({bst_search, LOOP_BSTSEARCH})
           AtInit == At({bst_init_node})
           AtCaller == At({Caller(4)})
<1>2. in \/ se \/ co \/ io \/ po \/ tn \/ tr \/ ins
  BY Zenon DEF Code
<1>3. in => AtInit
  BY Zenon DEF InitNode
<1>4. se => AtSearch
  BY Zenon DEF Search, SearchReturns, SearchDescends
<1>5. co => AtCount
  BY Zenon DEF CountNothing, CountLeft, CountRight, CountReturns, AfterCount
<1>6. (io => AtIn) /\ (po => AtPre) /\ (tn => AtIn \/ AtPre) /\ (tr => AtIn \/ AtPre)
  BY Zenon DEF InOrderLeft, InOrderRight, PreOrderLeft, PreOrderRight, TraverseNothing,
               TraversalReturns, AfterInOrder, AfterPreOrder
<1>7. ins => AtInsert
  BY Zenon DEF InsertHere, InsertBelow, InsertReturns, AfterInsert
<1> HIDE DEF in, se, co, io, po, tn, tr, ins
<1>8. AtIn => ~AtPre /\ ~AtCount /\ ~AtInsert /\ ~AtSearch /\ ~AtInit /\ ~AtCaller
  BY Labels DEF AfterInOrder, AfterPreOrder, AfterCount, AfterInsert
<1>9. AtPre => ~AtCount /\ ~AtInsert /\ ~AtSearch /\ ~AtInit /\ ~AtCaller
  BY Labels DEF AfterInOrder, AfterPreOrder, AfterCount, AfterInsert
<1>10. AtCount => ~AtInsert /\ ~AtSearch /\ ~AtInit /\ ~AtCaller
  BY Labels DEF AfterInOrder, AfterPreOrder, AfterCount, AfterInsert
<1>11. AtInsert => ~AtSearch /\ ~AtInit /\ ~AtCaller
  BY Labels DEF AfterInOrder, AfterPreOrder, AfterCount, AfterInsert
<1>12. (AtSearch => ~AtInit /\ ~AtCaller) /\ (AtInit => ~AtCaller)
  BY Labels
<1> HIDE DEF AtIn, AtPre, AtCount, AtInsert, AtSearch, AtInit, AtCaller
<1>13. /\ ~AtCaller
       /\ AtIn => tn \/ io \/ tr
       /\ AtPre => tn \/ po \/ tr
       /\ AtCount => co
       /\ AtInsert => ins
       /\ AtSearch => se
       /\ AtInit => in
  BY <1>2, <1>3, <1>4, <1>5, <1>6, <1>7, <1>8, <1>9, <1>10, <1>11, <1>12, Zenon
<1> QED
  BY <1>1, <1>13, Zenon DEF in, se, co, io, po, tn, tr, ins,
                            AtIn, AtPre, AtCount, AtInsert, AtSearch, AtInit, AtCaller

LEMMA InOrderStep ==
  ASSUME TreeInv, Control', Code, InOrderRuns, TraversalInv
  PROVE  TraversalInv'
<1>1. pc \in {bst_in_order_traversal} \cup AfterInOrder
  BY CodePlaces, TraversalRuns DEF TreeInv, Control
<1>2. TraverseNothing \/ InOrderLeft \/ InOrderRight \/ TraversalReturns
  BY <1>1, CodePlaces
<1>3. UNCHANGED <<memory, root, keys, call>> /\ Size' = Size
  BY <1>2, SameSize
<1>4. PICK order : IsOrder(order, memory, Size, TRUE) /\ Traverses(order)
  BY DEF TraversalInv
<1>5. \A left, key, right : Visit(TRUE, left, key, right) = left \o <<key>> \o right
  BY Zenon DEF Visit
<1>6. Traverses(order)'
  BY <1>2, <1>3, <1>4, <1>5, TraversalNothing, TraversalLeftInOrder, TraversalRightInOrder,
     TraversalReturn
<1>7. InOrderRuns' /\ ~PreOrderRuns'
  BY <1>3, TraversalRuns DEF TreeInv, Control, InOrderRuns, PreOrderRuns
<1>8. IsOrder(order, memory, Size, TRUE)'
  BY <1>3, <1>4
<1> QED
  BY <1>6, <1>7, <1>8 DEF TraversalInv

LEMMA PreOrderStep ==
  ASSUME TreeInv, Control', Code, PreOrderRuns, TraversalInv
  PROVE  TraversalInv'
<1>1. pc \in {bst_pre_order_traversal} \cup AfterPreOrder
  BY CodePlaces, TraversalRuns DEF TreeInv, Control
<1>2. TraverseNothing \/ PreOrderLeft \/ PreOrderRight \/ TraversalReturns
  BY <1>1, CodePlaces
<1>3. UNCHANGED <<memory, root, keys, call>> /\ Size' = Size
  BY <1>2, SameSize
<1>4. PICK order : IsOrder(order, memory, Size, FALSE) /\ Traverses(order)
  BY DEF TraversalInv
<1>5. \A left, key, right : Visit(FALSE, left, key, right) = <<key>> \o left \o right
  BY Zenon DEF Visit
<1>6. Traverses(order)'
  BY <1>2, <1>3, <1>4, <1>5, TraversalNothing, TraversalLeftPreOrder, TraversalRightPreOrder,
     TraversalReturn
<1>7. PreOrderRuns' /\ ~InOrderRuns'
  BY <1>3, TraversalRuns DEF TreeInv, Control, InOrderRuns, PreOrderRuns
<1>8. IsOrder(order, memory, Size, FALSE)'
  BY <1>3, <1>4
<1> QED
  BY <1>6, <1>7, <1>8 DEF TraversalInv

\* Only a call on the tree starts a traversal.
LEMMA TraversalCall ==
  ASSUME TreeInv, Control', TestStep, InOrderRuns' \/ PreOrderRuns', NEW inOrder
  PROVE  \E order : IsOrder(order, memory', Size', inOrder) /\ Traverses(order)'
<1>0. \A p \in Traversals : p # Caller(4)
  BY Labels DEF Traversals
<1>1. \A key : ~CallInit(key) /\ ~CallSearch(key)
  <2>1. ASSUME NEW key, CallInit(key) PROVE call'.fn = "init"
    BY <2>1, Invoked DEF CallInit
  <2>2. ASSUME NEW key, CallSearch(key) PROVE call'.fn = "search"
    BY <2>2, Invoked DEF CallSearch
  <2> QED
    BY <2>1, <2>2, Zenon DEF InOrderRuns, PreOrderRuns
<1>2. ~CallInsert
  <2>1. CallInsert => call'.fn = "insert"
    BY Invoked DEF CallInsert
  <2> QED
    BY <2>1, Zenon DEF InOrderRuns, PreOrderRuns
<1>3. ~Resume
  <2>1. Resume => call'.fn = "none"
    BY NoCallType DEF Resume
  <2> QED
    BY <2>1, Zenon DEF InOrderRuns, PreOrderRuns
<1>4. PICK fn \in {"count", "in order", "pre order"} : CallOnTree(fn)
  BY <1>1, <1>2, <1>3, Zenon DEF TestStep
<1>5. keys' = keys /\ Invoke(fn, root, Junk, NULL, NoCall.key)
  BY <1>4 DEF CallOnTree
<1>6. /\ pc = Caller(4) /\ pc' = Function(fn)
      /\ call' = [fn |-> fn, node |-> NULL, key |-> NoCall.key]
      /\ UNCHANGED <<stack, memory, root>> /\ console' = << >> /\ Root = root
      /\ stack = << >> /\ regs'.a0 = root
  BY <1>5, Invoked, Zenon
<1>7. call'.fn = fn
  BY <1>6
<1>8. fn = "in order" \/ fn = "pre order"
  BY <1>7, Zenon DEF InOrderRuns, PreOrderRuns
<1>9. pc' \in Traversals
  <2>1. fn = "in order" => Function(fn) = bst_in_order_traversal
    BY DEF Function
  <2>2. fn = "pre order" => Function(fn) = bst_pre_order_traversal
    BY DEF Function
  <2> QED
    BY <1>6, <1>8, <2>1, <2>2, Zenon DEF Traversals
<1> HIDE DEF InOrderRuns, PreOrderRuns
<1>10. pc' # Caller(4)
  BY <1>0, <1>9, Zenon
<1>11. Root' = Root
  BY <1>6, <1>10, RootOfCaller, Zenon
<1>12. Size' = Size
  BY <1>5, <1>6, <1>11, SameTree, Zenon DEF TreeInv
<1>13. root = First(Size)
  BY <1>6 DEF TreeInv, IsTree
<1> QED
  BY <1>6, <1>9, <1>12, <1>13, TraversalStarts, Zenon

LEMMA TraversalInvStep ==
  ASSUME TreeInv, TraversalInv, [Next]_vars
  PROVE  TraversalInv'
<1>1. Control'
  BY ControlStep DEF TreeInv
<1>2. CASE Code
  <2>1. CASE InOrderRuns
    BY <1>1, <1>2, <2>1, InOrderStep
  <2>2. CASE PreOrderRuns
    BY <1>1, <1>2, <2>2, PreOrderStep
  <2>3. CASE ~InOrderRuns /\ ~PreOrderRuns
    <3>1. call' = call
      BY <1>2, CodePlaces
    <3> QED
      BY <2>3, <3>1, Zenon DEF TraversalInv, InOrderRuns, PreOrderRuns
  <2> QED
    BY <2>1, <2>2, <2>3
<1>3. CASE TestStep
  BY <1>1, <1>3, TraversalCall, Zenon DEF TraversalInv
<1>4. CASE UNCHANGED vars
  <2>1. /\ pc' = pc /\ regs' = regs /\ stack' = stack /\ console' = console
        /\ memory' = memory /\ root' = root /\ keys' = keys /\ call' = call
    BY <1>4 DEF vars
  <2>2. Size' = Size
    <3>1. Root' = Root
      <4>1. NoCall' = NoCall
        BY DEF NoCall
      <4> QED
        BY <2>1, <4>1, Zenon DEF Root, Returned
    <3> QED
      BY <2>1, <3>1, SameTree DEF TreeInv
  <2>3. Traversals' = Traversals
    BY DEF Traversals, bst_in_order_traversal, bst_pre_order_traversal, Line
  <2>4. \A order : Traverses(order)' <=> Traverses(order)
    BY <2>1, <2>2, <2>3, Zenon DEF Traverses
  <2>5. (InOrderRuns' <=> InOrderRuns) /\ (PreOrderRuns' <=> PreOrderRuns)
    BY <2>1, Zenon DEF InOrderRuns, PreOrderRuns
  <2> QED
    BY <2>1, <2>2, <2>4, <2>5, Zenon DEF TraversalInv
<1> QED
  BY <1>2, <1>3, <1>4, Zenon DEF Next, TestStep

LEMMA TraversalInvariant == Spec => []TraversalInv
<1>1. Init => TraversalInv
  <2>1. Init => call.fn = "none"
    BY NoCallType DEF Init
  <2> QED
    BY <2>1, Zenon DEF TraversalInv, InOrderRuns, PreOrderRuns
<1> QED
  BY <1>1, TraversalInvStep, TreeInvariant, PTL DEF Spec

-----------------------------------------------------------------------------
(* The traversals print what the recursive definitions say. *)

\* A tree has one such order.
LEMMA OrderUnique ==
  ASSUME NEW heap \in [Node -> BSTNode], NEW size \in 0 .. Nodes, Links(heap, size),
         NEW inOrder, NEW order, IsOrder(order, heap, size, inOrder), NEW other,
         other[NULL] = << >>,
         \A n \in 1 .. size :
           other[n] = Visit(inOrder, other[heap[n].left], heap[n].key, other[heap[n].right])
  PROVE  \A n \in 0 .. size : other[n] = order[n]
<1> DEFINE P == {n \in 0 .. size : other[n] = order[n]}
<1>1. 0 \in 0 .. size /\ 1 .. size \subseteq 0 .. size
  BY NodesAssumption, SMT
<1>2. NULL \in P
  BY <1>1 DEF NULL, IsOrder
<1>3. ASSUME NEW n \in 1 .. size, heap[n].left \in P, heap[n].right \in P PROVE n \in P
  <2>1. order[n] = Visit(inOrder, order[heap[n].left], heap[n].key, order[heap[n].right])
    BY DEF IsOrder
  <2>2. other[heap[n].left] = order[heap[n].left] /\ other[heap[n].right] = order[heap[n].right]
    BY <1>3
  <2>3. other[n] = Visit(inOrder, other[heap[n].left], heap[n].key, other[heap[n].right])
    OBVIOUS
  <2> QED
    BY <1>1, <2>1, <2>2, <2>3, Zenon
<1>4. 0 .. size \subseteq P
  <2> HIDE DEF P
  <2> QED
    BY <1>2, <1>3, TreeInduction
<1> QED
  BY <1>4

\* InOrder and PreOrder are the two orders.
LEMMA InOrderIsOrder ==
  ASSUME TreeInv, NEW order, IsOrder(order, memory, Size, TRUE)
  PROVE  \A n \in 0 .. Size : InOrder[n] = order[n]
<1>1. memory \in [Node -> BSTNode] /\ Size \in 0 .. Nodes /\ Links(memory, Size)
  BY SizeType, Types DEF TreeInv, Control, IsTree, Shape
<1>2. Linked \cup {NULL} = 0 .. Size
  <2>1. Linked = 1 .. Size
    BY LinkedNodes DEF TreeInv, Control, Inner
  <2> QED
    BY <1>1, <2>1, NodesAssumption, SMT DEF NULL
<1> DEFINE Body(f) ==
      [n \in Linked \cup {NULL} |->
         IF n = NULL THEN << >>
         ELSE f[memory[n].left] \o <<memory[n].key>> \o f[memory[n].right]]
<1>3. InOrder = CHOOSE f : f = Body(f)
  BY DEF InOrder
<1>4. order = Body(order)
  <2>1. order = [n \in 0 .. Size |-> order[n]]
    BY DEF IsOrder
  <2>2. order[NULL] = << >>
    BY DEF IsOrder
  <2>3. ASSUME NEW n \in 0 .. Size, n # NULL
        PROVE  order[n] = order[memory[n].left] \o <<memory[n].key>> \o order[memory[n].right]
    <3>1. n \in 1 .. Size
      BY <1>1, <2>3, NodesAssumption, SMT DEF NULL
    <3>2. order[n] = Visit(TRUE, order[memory[n].left], memory[n].key, order[memory[n].right])
      BY <3>1, Zenon DEF IsOrder
    <3> QED
      BY <3>2, Zenon DEF Visit
  <2> QED
    BY <1>2, <2>1, <2>2, <2>3
<1>5. InOrder = Body(InOrder)
  <2> HIDE DEF Body
  <2> QED
    BY <1>3, <1>4
<1>6. ASSUME NEW n \in 0 .. Size
      PROVE  InOrder[n] = IF n = NULL THEN << >>
                          ELSE InOrder[memory[n].left] \o <<memory[n].key>>
                                 \o InOrder[memory[n].right]
  <2>1. Body(InOrder)[n] = IF n = NULL THEN << >>
                           ELSE InOrder[memory[n].left] \o <<memory[n].key>>
                                  \o InOrder[memory[n].right]
    BY <1>2
  <2> QED
    BY <1>5, <2>1
<1>7. InOrder[NULL] = << >>
  BY <1>2, <1>6
<1>8. ASSUME NEW n \in 1 .. Size
      PROVE  InOrder[n] = Visit(TRUE, InOrder[memory[n].left], memory[n].key,
                                InOrder[memory[n].right])
  <2>1. n \in 0 .. Size /\ n # NULL
    BY <1>1, NodesAssumption, SMT DEF NULL
  <2>2. InOrder[n] = InOrder[memory[n].left] \o <<memory[n].key>> \o InOrder[memory[n].right]
    BY <1>6, <2>1
  <2> QED
    BY <2>2, Zenon DEF Visit
<1> QED
  <2>1. PICK inOrder : inOrder = TRUE
    OBVIOUS
  <2>2. IsOrder(order, memory, Size, inOrder)
    BY <2>1, Zenon
  <2>3. \A n \in 1 .. Size :
          InOrder[n] = Visit(inOrder, InOrder[memory[n].left], memory[n].key,
                             InOrder[memory[n].right])
    BY <1>8, <2>1, Zenon
  <2> DEFINE f == InOrder
  <2>4. f[NULL] = << >> /\ \A n \in 1 .. Size :
          f[n] = Visit(inOrder, f[memory[n].left], memory[n].key, f[memory[n].right])
    BY <1>7, <2>3
  <2> HIDE DEF f
  <2>5. \A n \in 0 .. Size : f[n] = order[n]
    BY <1>1, <2>2, <2>4, OrderUnique
  <2> QED
    BY <2>5 DEF f

LEMMA PreOrderIsOrder ==
  ASSUME TreeInv, NEW order, IsOrder(order, memory, Size, FALSE)
  PROVE  \A n \in 0 .. Size : PreOrder[n] = order[n]
<1>1. memory \in [Node -> BSTNode] /\ Size \in 0 .. Nodes /\ Links(memory, Size)
  BY SizeType, Types DEF TreeInv, Control, IsTree, Shape
<1>2. Linked \cup {NULL} = 0 .. Size
  <2>1. Linked = 1 .. Size
    BY LinkedNodes DEF TreeInv, Control, Inner
  <2> QED
    BY <1>1, <2>1, NodesAssumption, SMT DEF NULL
<1> DEFINE Body(f) ==
      [n \in Linked \cup {NULL} |->
         IF n = NULL THEN << >>
         ELSE <<memory[n].key>> \o f[memory[n].left] \o f[memory[n].right]]
<1>3. PreOrder = CHOOSE f : f = Body(f)
  BY DEF PreOrder
<1>4. order = Body(order)
  <2>1. order = [n \in 0 .. Size |-> order[n]]
    BY DEF IsOrder
  <2>2. order[NULL] = << >>
    BY DEF IsOrder
  <2>3. ASSUME NEW n \in 0 .. Size, n # NULL
        PROVE  order[n] = <<memory[n].key>> \o order[memory[n].left] \o order[memory[n].right]
    <3>1. n \in 1 .. Size
      BY <1>1, <2>3, NodesAssumption, SMT DEF NULL
    <3>2. order[n] = Visit(FALSE, order[memory[n].left], memory[n].key, order[memory[n].right])
      BY <3>1, Zenon DEF IsOrder
    <3> QED
      BY <3>2, Zenon DEF Visit
  <2> QED
    BY <1>2, <2>1, <2>2, <2>3
<1>5. PreOrder = Body(PreOrder)
  <2> HIDE DEF Body
  <2> QED
    BY <1>3, <1>4
<1>6. ASSUME NEW n \in 0 .. Size
      PROVE  PreOrder[n] = IF n = NULL THEN << >>
                           ELSE <<memory[n].key>> \o PreOrder[memory[n].left]
                                  \o PreOrder[memory[n].right]
  <2>1. Body(PreOrder)[n] = IF n = NULL THEN << >>
                            ELSE <<memory[n].key>> \o PreOrder[memory[n].left]
                                   \o PreOrder[memory[n].right]
    BY <1>2
  <2> QED
    BY <1>5, <2>1
<1>7. PreOrder[NULL] = << >>
  BY <1>2, <1>6
<1>8. ASSUME NEW n \in 1 .. Size
      PROVE  PreOrder[n] = Visit(FALSE, PreOrder[memory[n].left], memory[n].key,
                                 PreOrder[memory[n].right])
  <2>1. n \in 0 .. Size /\ n # NULL
    BY <1>1, NodesAssumption, SMT DEF NULL
  <2>2. PreOrder[n] = <<memory[n].key>> \o PreOrder[memory[n].left] \o PreOrder[memory[n].right]
    BY <1>6, <2>1
  <2> QED
    BY <2>2, Zenon DEF Visit
<1> QED
  <2>1. PICK inOrder : inOrder = FALSE
    OBVIOUS
  <2>2. IsOrder(order, memory, Size, inOrder)
    BY <2>1, Zenon
  <2>3. \A n \in 1 .. Size :
          PreOrder[n] = Visit(inOrder, PreOrder[memory[n].left], memory[n].key,
                             PreOrder[memory[n].right])
    BY <1>8, <2>1, Zenon
  <2> DEFINE f == PreOrder
  <2>4. f[NULL] = << >> /\ \A n \in 1 .. Size :
          f[n] = Visit(inOrder, f[memory[n].left], memory[n].key, f[memory[n].right])
    BY <1>7, <2>3
  <2> HIDE DEF f
  <2>5. \A n \in 0 .. Size : f[n] = order[n]
    BY <1>1, <2>2, <2>4, OrderUnique
  <2> QED
    BY <2>5 DEF f

LEMMA PrefixOf ==
  ASSUME NEW out \in Seq(Int), NEW tail \in Seq(Int), NEW all, all = out \o tail
  PROVE  Len(out) <= Len(all) /\ out = SubSeq(all, 1, Len(out))
<1>1. Len(out) \in Nat /\ Len(tail) \in Nat
  BY LenProperties
<1>2. /\ out \o tail \in Seq(Int) /\ Len(out \o tail) = Len(out) + Len(tail)
      /\ \A i \in 1 .. Len(out) : (out \o tail)[i] = out[i]
  BY PushedWords
<1>3. /\ all \in Seq(Int) /\ Len(all) = Len(out) + Len(tail)
      /\ \A i \in 1 .. Len(out) : all[i] = out[i]
  BY <1>2
<1> DEFINE m == Len(out)
           t == SubSeq(all, 1, m)
<1>4. m \in Int /\ m \in Nat /\ \A i \in 1 .. m : all[i] \in Int
  <2>1. \A i \in 1 .. m : out[i] \in Int
    BY ElementOfSeq
  <2> QED
    BY <1>1, <1>3, <2>1
<1>5. t \in Seq(Int)
  BY <1>4, SubSeqProperties, SMT
<1>6. Len(t) = m /\ \A i \in 1 .. m : t[i] = out[i]
  <2>1. \A i \in 1 .. m : all[i] = out[i]
    BY <1>3
  <2> QED
    BY <1>4, <1>5, <2>1, SubSeqProperties, SMT
<1> HIDE DEF t, m
<1>7. out = t
  BY <1>5, <1>6, SeqEqual DEF m
<1>8. Len(out) <= Len(all)
  BY <1>1, <1>3, SMT
<1> QED
  BY <1>7, <1>8 DEF t, m

\* What is printed is the beginning of the order, and all of it at the end.
LEMMA TraversalPrints ==
  ASSUME TreeInv, NEW inOrder, NEW order, IsOrder(order, memory, Size, inOrder),
         Traverses(order), NEW all, all = order[root]
  PROVE  /\ Len(console) <= Len(all) /\ console = SubSeq(all, 1, Len(console))
         /\ pc = Caller(4) => console = all
<1>1. console \in Seq(Int) /\ stack \in Seq(Int)
  BY Types DEF TreeInv, Control
<1> DEFINE todo == IF pc \in Traversals THEN order[regs.a0] ELSE << >>
           line == IF pc \in Traversals THEN regs.ra ELSE pc
<1>2. todo \in Seq(Int)
  <2>1. << >> \in Seq(Int)
    BY SMT
  <2>2. pc \in Traversals => order[regs.a0] \in Seq(Int)
    BY DEF Traverses, IsOrder
  <2> QED
    BY <2>1, <2>2
<1>3. PICK v \in Seq(Int) : /\ Owes(stack, 4, line, Promises(order, Size), << >>, v)
                            /\ console \o (todo \o v) = order[root]
  BY DEF Traverses, Promised
<1> HIDE DEF todo
<1>4. todo \o v \in Seq(Int)
  BY <1>2, ConcatProperties
<1>5. Len(console) <= Len(all) /\ console = SubSeq(all, 1, Len(console))
  BY <1>1, <1>3, <1>4, PrefixOf
<1>6. ASSUME pc = Caller(4) PROVE console = all
  <2>1. pc \notin Traversals
    BY <1>6, Labels DEF Traversals
  <2>2. todo = << >>
    BY <2>1 DEF todo
  <2>3. stack = << >>
    BY <1>6 DEF TreeInv, Control, ControlFlow
  <2>4. v = << >>
    <3>1. 4 \in {3, 4}
      OBVIOUS
    <3>2. Owes(<< >>, 4, line, Promises(order, Size), << >>, v)
      BY <1>3, <2>3
    <3> HIDE DEF line
    <3> QED
      BY <3>1, <3>2, ChainEmpty
  <2>5. console \o << >> = all
    <3>1. << >> \o << >> = << >>
      BY ConcatEmptySeq, EmptySeq
    <3> QED
      BY <1>3, <2>2, <2>4, <3>1, Zenon
  <2> QED
    BY <1>1, <2>5, ConcatEmptySeq
<1> QED
  BY <1>5, <1>6

LEMMA RootIsThere ==
  ASSUME TreeInv, InOrderRuns \/ PreOrderRuns
  PROVE  root \in 0 .. Size /\ root = First(Size)
<1>1. Size \in 0 .. Nodes
  BY SizeType DEF TreeInv, Control
<1>2. Root = root
  <2>1. call.fn # "insert"
    BY Zenon DEF InOrderRuns, PreOrderRuns
  <2> QED
    BY <2>1, RootOfCaller
<1>3. Root = First(Size)
  BY DEF TreeInv, IsTree
<1>4. First(Size) \in 0 .. Size
  BY <1>1, NodesAssumption, SMT DEF First, NULL
<1> QED
  BY <1>2, <1>3, <1>4, Zenon

\* The traversals follow the shape of the tree, whatever it is: at any time what
\* was printed is the beginning of the keys in the order of the recursive definition,
\* and when the function returns it is all of them.  The saved right child, key and
\* return address of every active call are those of its node.
THEOREM TraversalsFollowTheTree == Spec => []TraversalOrder
<1>1. ASSUME TreeInv, TraversalInv, InOrderRuns
      PROVE  /\ Len(console) <= Len(InOrder[root])
             /\ console = SubSeq(InOrder[root], 1, Len(console))
             /\ pc = Caller(4) => console = InOrder[root]
  <2>1. PICK order : IsOrder(order, memory, Size, TRUE) /\ Traverses(order)
    BY <1>1 DEF TraversalInv
  <2>2. InOrder[root] = order[root]
    BY <1>1, <2>1, RootIsThere, InOrderIsOrder, Zenon
  <2> HIDE DEF InOrder
  <2> QED
    BY <1>1, <2>1, <2>2, TraversalPrints, Zenon
<1>2. ASSUME TreeInv, TraversalInv, PreOrderRuns
      PROVE  /\ Len(console) <= Len(PreOrder[root])
             /\ console = SubSeq(PreOrder[root], 1, Len(console))
             /\ pc = Caller(4) => console = PreOrder[root]
  <2>1. PICK order : IsOrder(order, memory, Size, FALSE) /\ Traverses(order)
    BY <1>2 DEF TraversalInv
  <2>2. PreOrder[root] = order[root]
    BY <1>2, <2>1, RootIsThere, PreOrderIsOrder, Zenon
  <2> QED
    BY <1>2, <2>1, <2>2, TraversalPrints, Zenon
<1>3. ASSUME TreeInv, TraversalInv PROVE TraversalOrder
  BY <1>1, <1>2, <1>3, Zenon DEF TraversalOrder, Traversal, InOrderRuns, PreOrderRuns, Returned
<1> QED
  BY <1>3, TreeInvariant, TraversalInvariant, PTL

-----------------------------------------------------------------------------
(* bst_count. *)

NodesBelow(heap, n) == Cardinality(Below(heap, n))

\* The frame <<right child, node, return address>> says what is still to be counted
\* after the recursion on the left child; after the one on the right child its first
\* word is the count so far.
CountPromises(heap, size) ==
  {f \in [line : Int, first : Int, third : Int, all : Int, rest : Int] :
     /\ f.line = AfterCountLeft =>
          f.first \in 0 .. size /\ f.all = (NodesBelow(heap, f.first) + 1) + f.rest
     /\ f.line = AfterCountRight => f.all = f.first + f.rest}

\* Together with what is counted in the innermost call, these are all nodes.
Counted(heap, size, s, line, now, top) ==
  \E v \in Int : /\ Owes(s, 3, line, CountPromises(heap, size), 0, v)
                 /\ now + v = NodesBelow(heap, top)

LEMMA FrameIsCount ==
  ASSUME NEW heap, NEW size, NEW t, NEW line \in Int, t[1] \in Int, t[2] \in Int,
         NEW all \in Int, NEW rest \in Int,
         line = AfterCountLeft =>
           t[1] \in 0 .. size /\ all = (NodesBelow(heap, t[1]) + 1) + rest,
         line = AfterCountRight => all = t[1] + rest
  PROVE  TopFrame(t, 3, line, all, rest) \in CountPromises(heap, size)
<1> DEFINE f == TopFrame(t, 3, line, all, rest)
<1>1. t[3 - 1] = t[2]
  <2>1. 3 - 1 = 2
    BY SMT
  <2> QED
    BY <2>1, Zenon
<1>2. f = [line |-> line, first |-> t[1], third |-> t[2], all |-> all, rest |-> rest]
  BY <1>1, Zenon DEF TopFrame
<1>3. /\ f.line = line /\ f.first = t[1] /\ f.third = t[2] /\ f.all = all /\ f.rest = rest
      /\ f \in [line : Int, first : Int, third : Int, all : Int, rest : Int]
  BY <1>2
<1> HIDE DEF f
<1>4. f \in CountPromises(heap, size)
  BY <1>3, Zenon DEF CountPromises
<1> QED
  BY <1>4 DEF f

LEMMA CountMade ==
  ASSUME NEW heap, NEW size, NEW s, NEW t, OnTop(t, s, 3), NEW line, NEW all,
         NEW rest, Owes(s, 3, t[3], CountPromises(heap, size), 0, rest),
         TopFrame(t, 3, line, all, rest) \in CountPromises(heap, size)
  PROVE  Owes(t, 3, line, CountPromises(heap, size), 0, all)
<1>1. 3 \in {3, 4}
  OBVIOUS
<1> QED
  BY <1>1, ChainPushed

LEMMA CountKept ==
  ASSUME NEW heap, NEW size, NEW s, NEW t, OnTop(t, s, 3), NEW line,
         NEW all, Owes(t, 3, line, CountPromises(heap, size), 0, all)
  PROVE  \E rest \in Int :
           /\ Owes(s, 3, t[3], CountPromises(heap, size), 0, rest)
           /\ t[1] \in Int /\ t[2] \in Int
           /\ line = AfterCountLeft =>
                t[1] \in 0 .. size /\ all = (NodesBelow(heap, t[1]) + 1) + rest
           /\ line = AfterCountRight => all = t[1] + rest
<1>1. 3 \in {3, 4}
  OBVIOUS
<1>2. PICK rest : /\ TopFrame(t, 3, line, all, rest) \in CountPromises(heap, size)
                  /\ Owes(s, 3, t[3], CountPromises(heap, size), 0, rest)
  BY <1>1, ChainPopped
<1> DEFINE f == TopFrame(t, 3, line, all, rest)
<1>3. f.line = line /\ f.first = t[1] /\ f.third = t[2] /\ f.all = all /\ f.rest = rest
  <2>1. 3 - 1 = 2
    BY SMT
  <2> QED
    BY <2>1 DEF TopFrame
<1> HIDE DEF f
<1>4. f \in CountPromises(heap, size)
  BY <1>2 DEF f
<1>5. /\ f.first \in Int /\ f.third \in Int /\ f.rest \in Int
      /\ f.line = AfterCountLeft =>
           f.first \in 0 .. size /\ f.all = (NodesBelow(heap, f.first) + 1) + f.rest
      /\ f.line = AfterCountRight => f.all = f.first + f.rest
  <2>1. /\ f \in [line : Int, first : Int, third : Int, all : Int, rest : Int]
        /\ f.line = AfterCountLeft =>
             f.first \in 0 .. size /\ f.all = (NodesBelow(heap, f.first) + 1) + f.rest
        /\ f.line = AfterCountRight => f.all = f.first + f.rest
    BY <1>4, Zenon DEF CountPromises
  <2>2. f.first \in Int /\ f.third \in Int /\ f.rest \in Int
    BY <2>1, SMT
  <2> QED
    BY <2>1, <2>2, Zenon
<1> QED
  BY <1>2, <1>3, <1>5, Zenon

-----------------------------------------------------------------------------
(* bst_count: each action in turn. *)

LEMMA EntryOfCount == ASSUME Control, pc = bst_count PROVE regs.ra # bst_count
<1>1. regs.ra \in {Caller(4)} \cup AfterCount
  BY DEF Control, ControlFlow, Recursive
<1> QED
  BY <1>1, Labels DEF AfterCount

LEMMA FrameOfCount ==
  ASSUME Control, pc \in AfterCount
  PROVE  /\ pc # bst_count /\ stack[3] # bst_count
         /\ Popped(12) \in Seq(Int) /\ OnTop(stack, Popped(12), 3)
         /\ stack[1] \in Int /\ stack[2] \in Int /\ stack[3] \in Int
<1>1. bst_count \notin {Caller(4)} \cup AfterCount
  BY Labels DEF AfterCount
<1>2. stack # << >> /\ Frames(stack, 3, AfterCount)
  BY Zenon DEF Control, ControlFlow, Recursive
<1>3. stack \in Seq(Int) /\ Len(stack) \in Nat
  BY Types, LenProperties DEF Control
<1>4. /\ 3 <= Len(stack)
      /\ IF Popped(12) = << >> THEN stack[3] = Caller(4) ELSE stack[3] \in AfterCount
  BY <1>2, <1>3, FramePopped, Offsets
<1>5. 3 \in Nat /\ Popped(12) = SubSeq(stack, 3 + 1, Len(stack))
  BY Offsets, SMT
<1>6. Popped(12) \in Seq(Int) /\ OnTop(stack, Popped(12), 3)
  BY <1>3, <1>4, <1>5, WordsOnTop, Zenon
<1>7. stack[1] \in Int /\ stack[2] \in Int /\ stack[3] \in Int
  <2>1. 1 \in 1 .. Len(stack) /\ 2 \in 1 .. Len(stack) /\ 3 \in 1 .. Len(stack)
    BY <1>3, <1>4, SMT
  <2> QED
    BY <1>3, <2>1, ElementOfSeq
<1>8. pc # bst_count /\ stack[3] # bst_count
  BY <1>1, <1>4
<1> QED
  BY <1>6, <1>7, <1>8

\* What is still to be counted.
Counts ==
  /\ pc = bst_count => regs.a0 \in 0 .. Size
  /\ Counted(memory, Size, stack, IF pc = bst_count THEN regs.ra ELSE pc,
             IF pc = bst_count THEN NodesBelow(memory, regs.a0) ELSE regs.v0, root)

\* The number of nodes below a node of the tree.
LEMMA TreeCounts ==
  ASSUME TreeInv
  PROVE  /\ NodesBelow(memory, NULL) = 0
         /\ \A n \in 0 .. Size : NodesBelow(memory, n) \in Nat
         /\ \A n \in 1 .. Size :
              /\ NodesBelow(memory, n) = NodesBelow(memory, memory[n].left) + 1
                                           + NodesBelow(memory, memory[n].right)
              /\ memory[n].left \in 0 .. Size /\ memory[n].right \in 0 .. Size
              /\ memory[n].left \in Int /\ memory[n].right \in Int /\ n \in Int
<1>1. memory \in [Node -> BSTNode] /\ Size \in 0 .. Nodes /\ Shape(memory, Size)
  BY SizeType, Types DEF TreeInv, Control, IsTree
<1>2. ASSUME NEW n \in 1 .. Size
      PROVE  /\ memory[n].left \in 0 .. Size /\ memory[n].right \in 0 .. Size
             /\ memory[n].left \in Int /\ memory[n].right \in Int /\ n \in Int
  <2>1. 0 \in 0 .. Size /\ 1 .. Size \subseteq 0 .. Size /\ 0 .. Size \subseteq Int
    BY <1>1, NodesAssumption, SMT
  <2>2. memory[n].left \in 0 .. Size /\ memory[n].right \in 0 .. Size
    BY <1>1, <2>1, ChildTypes DEF NULL, Shape
  <2> QED
    BY <2>1, <2>2
<1> QED
  BY <1>1, <1>2, BelowCounts, Zenon DEF NodesBelow

LEMMA CountsNothing ==
  ASSUME TreeInv, CountNothing, Counts, Size' = Size
  PROVE  Counts'
<1>1. /\ pc = bst_count /\ regs.a0 = NULL /\ pc' = regs'.ra
      /\ regs' = [regs EXCEPT !.v0 = 0]
      /\ UNCHANGED <<stack, memory, root>>
  BY DEF CountNothing, JrRa
<1>2. regs \in Registers
  BY Types DEF TreeInv, Control
<1>3. regs'.v0 = 0 /\ regs'.ra = regs.ra
  BY <1>1, <1>2 DEF Registers
<1>4. pc' = regs.ra /\ pc' # bst_count
  BY <1>1, <1>3, EntryOfCount DEF TreeInv
<1>5. NodesBelow(memory, regs.a0) = 0
  BY <1>1, TreeCounts
<1>6. Counted(memory, Size, stack, regs.ra, 0, root)
  BY <1>1, <1>5 DEF Counts
<1>7. Counted(memory', Size', stack', pc', regs'.v0, root')
  BY <1>1, <1>3, <1>4, <1>6
<1>8. bst_count' = bst_count
  BY DEF bst_count, Line
<1> QED
  BY <1>4, <1>7, <1>8, Zenon DEF Counts

LEMMA CountsReturn ==
  ASSUME TreeInv, CountReturns, Counts, Size' = Size
  PROVE  Counts'
<1>1. /\ pc = AfterCountRight /\ pc' = regs'.ra /\ stack' = Popped(12)
      /\ regs' = [regs EXCEPT !.v0 = stack[1] + regs.v0, !.a0 = stack[2], !.ra = stack[3]]
      /\ UNCHANGED <<memory, root>>
  BY Offsets, Zenon DEF CountReturns, JrRa
<1>2. /\ pc # bst_count /\ stack[3] # bst_count
      /\ Popped(12) \in Seq(Int) /\ OnTop(stack, Popped(12), 3)
  BY <1>1, FrameOfCount DEF TreeInv, AfterCount
<1>3. regs \in Registers /\ regs.v0 \in Int
  BY Types DEF TreeInv, Control
<1>4. regs'.v0 = stack[1] + regs.v0 /\ regs'.ra = stack[3]
  BY <1>1, <1>3 DEF Registers
<1>5. PICK v \in Int : /\ Owes(stack, 3, pc, CountPromises(memory, Size), 0, v)
                       /\ regs.v0 + v = NodesBelow(memory, root)
  BY <1>2 DEF Counts, Counted
<1>6. PICK rest \in Int : /\ Owes(stack', 3, stack[3], CountPromises(memory, Size), 0, rest)
                          /\ stack[1] \in Int
                          /\ v = stack[1] + rest
  BY <1>1, <1>2, <1>5, CountKept
<1>7. (stack[1] + regs.v0) + rest = regs.v0 + v
  <2>1. PICK a \in Int : a = stack[1]
    BY <1>6
  <2>2. PICK b \in Int : b = regs.v0
    BY <1>3
  <2>3. (a + b) + rest = b + (a + rest)
    BY SMT
  <2> QED
    BY <1>6, <2>1, <2>2, <2>3, Zenon
<1>8. Counted(memory, Size, stack', stack[3], stack[1] + regs.v0, root)
  BY <1>5, <1>6, <1>7, Zenon DEF Counted
<1>9. Counted(memory', Size', stack', pc', regs'.v0, root')
  BY <1>1, <1>4, <1>8
<1>10. bst_count' = bst_count
  BY DEF bst_count, Line
<1> QED
  BY <1>1, <1>2, <1>4, <1>9, <1>10, Zenon DEF Counts

LEMMA CountsLeft ==
  ASSUME TreeInv, CountLeft, Counts, Size' = Size
  PROVE  Counts'
<1> DEFINE n == regs.a0
           node == memory[n]
           line == AfterCountLeft
<1>1. /\ pc = bst_count /\ n # NULL
      /\ stack' = Pushed(<<node.right, n, regs.ra>>)
      /\ Jal(bst_count, line, [regs EXCEPT !.a0 = node.left])
      /\ UNCHANGED <<memory, root>>
  BY Zenon DEF CountLeft
<1>2. /\ Size \in 0 .. Nodes /\ stack \in Seq(Int) /\ regs.ra \in Int /\ regs \in Registers
      /\ line \in Int /\ line # AfterCountRight
  BY SizeType, Types, Labels DEF TreeInv, Control
<1>3. n \in 1 .. Size
  <2>1. n \in 0 .. Size /\ n # 0
    BY <1>1 DEF Counts, NULL
  <2> QED
    BY <1>2, <2>1, NodesAssumption, SMT
<1>4. Counted(memory, Size, stack, regs.ra, NodesBelow(memory, n), root)
  BY <1>1 DEF Counts
<1> HIDE DEF n
<1>5. /\ NodesBelow(memory, n) = NodesBelow(memory, node.left) + 1
                                   + NodesBelow(memory, node.right)
      /\ node.left \in 0 .. Size /\ node.right \in 0 .. Size
      /\ node.left \in Int /\ node.right \in Int /\ n \in Int
      /\ NodesBelow(memory, node.left) \in Nat /\ NodesBelow(memory, node.right) \in Nat
  BY <1>3, TreeCounts, Zenon
<1>6. stack' = <<node.right, n, regs.ra>> \o stack
  BY <1>1 DEF Pushed
<1> HIDE DEF node, line
<1>7. pc' = bst_count /\ regs'.ra = line /\ regs'.a0 = node.left
  <2>1. pc' = bst_count /\ regs' = [[regs EXCEPT !.a0 = node.left] EXCEPT !.ra = line]
    BY <1>1 DEF Jal
  <2> QED
    BY <1>2, <2>1 DEF Registers
<1>8. /\ stack' \in Seq(Int) /\ Len(stack') = Len(stack) + 3
      /\ stack'[1] = node.right /\ stack'[2] = n /\ stack'[3] = regs.ra
      /\ \A i \in 1 .. Len(stack) : stack'[i + 3] = stack[i]
  BY <1>2, <1>5, <1>6, FrameOfThree
<1>9. OnTop(stack', stack, 3)
  BY <1>2, <1>8, Zenon DEF OnTop
<1>10. PICK rest \in Int : /\ Owes(stack, 3, regs.ra, CountPromises(memory, Size), 0, rest)
                           /\ NodesBelow(memory, n) + rest = NodesBelow(memory, root)
  BY <1>4 DEF Counted
<1> DEFINE all == (NodesBelow(memory, node.right) + 1) + rest
<1>11. all \in Int /\ NodesBelow(memory, node.left) + all = NodesBelow(memory, n) + rest
  <2>1. PICK l \in Int : l = NodesBelow(memory, node.left)
    BY <1>5
  <2>2. PICK r \in Int : r = NodesBelow(memory, node.right)
    BY <1>5
  <2>3. (r + 1) + rest \in Int /\ l + ((r + 1) + rest) = (l + 1 + r) + rest
    BY SMT
  <2> QED
    BY <1>5, <2>1, <2>2, <2>3, Zenon
<1>12. TopFrame(stack', 3, line, all, rest) \in CountPromises(memory, Size)
  <2>1. stack'[1] \in 0 .. Size /\ stack'[1] \in Int /\ stack'[2] \in Int
    BY <1>5, <1>8
  <2>2. line = AfterCountLeft => /\ stack'[1] \in 0 .. Size
                                /\ all = (NodesBelow(memory, stack'[1]) + 1) + rest
    BY <1>8, <2>1, Zenon
  <2> HIDE DEF all
  <2>3. all \in Int /\ (line = AfterCountRight => all = stack'[1] + rest)
    BY <1>2, <1>11
  <2> QED
    BY <1>2, <1>10, <2>1, <2>2, <2>3, FrameIsCount, Zenon
<1> HIDE DEF all
<1>13. Owes(stack', 3, line, CountPromises(memory, Size), 0, all)
  BY <1>8, <1>9, <1>10, <1>12, CountMade
<1>14. Counted(memory, Size, stack', line, NodesBelow(memory, node.left), root)
  BY <1>10, <1>11, <1>13, Zenon DEF Counted
<1>15. Counted(memory', Size', stack', regs'.ra, NodesBelow(memory', regs'.a0), root')
  BY <1>1, <1>7, <1>14
<1>16. bst_count' = bst_count
  BY DEF bst_count, Line
<1> QED
  BY <1>5, <1>7, <1>15, <1>16, Zenon DEF Counts

LEMMA CountsRight ==
  ASSUME TreeInv, CountRight, Counts, Size' = Size
  PROVE  Counts'
<1> DEFINE line == AfterCountRight
           s == Popped(12)
           n == stack[1]
<1>1. /\ pc = AfterCountLeft /\ stack' = <<regs.v0 + 1, stack[2], stack[3]>> \o s
      /\ Jal(bst_count, line, [regs EXCEPT !.a0 = n])
      /\ UNCHANGED <<memory, root>>
  BY Offsets, Zenon DEF CountRight
<1>2. /\ pc # bst_count /\ stack[3] # bst_count
      /\ s \in Seq(Int) /\ OnTop(stack, s, 3)
      /\ n \in Int /\ stack[2] \in Int /\ stack[3] \in Int
  BY <1>1, FrameOfCount DEF TreeInv, AfterCount
<1>3. /\ regs.v0 \in Int /\ regs \in Registers
      /\ line \in Int /\ line # AfterCountLeft
  BY Types, Labels DEF TreeInv, Control
<1>4. PICK v \in Int : /\ Owes(stack, 3, pc, CountPromises(memory, Size), 0, v)
                       /\ regs.v0 + v = NodesBelow(memory, root)
  BY <1>2 DEF Counts, Counted
<1> HIDE DEF s, n, line
<1>5. PICK rest \in Int : /\ Owes(s, 3, stack[3], CountPromises(memory, Size), 0, rest)
                          /\ n \in 0 .. Size /\ v = (NodesBelow(memory, n) + 1) + rest
  BY <1>1, <1>2, <1>4, CountKept DEF n
<1>6. NodesBelow(memory, n) \in Nat
  BY <1>5, TreeCounts
<1>7. regs.v0 + 1 \in Int
  BY <1>3, SMT
<1>8. pc' = bst_count /\ regs'.ra = line /\ regs'.a0 = n
  <2>1. pc' = bst_count /\ regs' = [[regs EXCEPT !.a0 = n] EXCEPT !.ra = line]
    BY <1>1 DEF Jal
  <2> QED
    BY <1>3, <2>1 DEF Registers
<1>9. /\ stack' \in Seq(Int) /\ Len(stack') = Len(s) + 3
      /\ stack'[1] = regs.v0 + 1 /\ stack'[2] = stack[2] /\ stack'[3] = stack[3]
      /\ \A i \in 1 .. Len(s) : stack'[i + 3] = s[i]
  <2>1. PICK c \in Int : c = regs.v0 + 1
    BY <1>7
  <2>2. stack' = <<c, stack[2], stack[3]>> \o s
    BY <1>1, <2>1, Zenon
  <2>3. /\ stack' \in Seq(Int) /\ Len(stack') = Len(s) + 3
        /\ stack'[1] = c /\ stack'[2] = stack[2] /\ stack'[3] = stack[3]
        /\ \A i \in 1 .. Len(s) : stack'[i + 3] = s[i]
    BY <1>2, <2>2, FrameOfThree
  <2> QED
    BY <2>1, <2>3, Zenon
<1>10. OnTop(stack', s, 3)
  BY <1>2, <1>9, Zenon DEF OnTop
<1> DEFINE all == (regs.v0 + 1) + rest
<1>11. all \in Int /\ NodesBelow(memory, n) + all = regs.v0 + v
  <2>1. PICK c \in Int : c = NodesBelow(memory, n)
    BY <1>6
  <2>2. PICK d \in Int : d = regs.v0
    BY <1>3
  <2>3. (d + 1) + rest \in Int /\ c + ((d + 1) + rest) = d + ((c + 1) + rest)
    BY SMT
  <2> QED
    BY <1>5, <2>1, <2>2, <2>3, Zenon
<1>12. TopFrame(stack', 3, line, all, rest) \in CountPromises(memory, Size)
  <2>1. line = AfterCountRight => all = stack'[1] + rest
    BY <1>9, Zenon
  <2> HIDE DEF all
  <2>2. stack'[1] \in Int /\ stack'[2] \in Int /\ all \in Int
    BY <1>2, <1>7, <1>9, <1>11
  <2>3. line = AfterCountLeft => /\ stack'[1] \in 0 .. Size
                                /\ all = (NodesBelow(memory, stack'[1]) + 1) + rest
    BY <1>3, Zenon
  <2> QED
    BY <1>3, <1>5, <2>1, <2>2, <2>3, FrameIsCount, Zenon
<1> HIDE DEF all
<1>13. Owes(stack', 3, line, CountPromises(memory, Size), 0, all)
  BY <1>5, <1>9, <1>10, <1>12, CountMade
<1>14. Counted(memory, Size, stack', line, NodesBelow(memory, n), root)
  BY <1>4, <1>11, <1>13, Zenon DEF Counted
<1>15. Counted(memory', Size', stack', regs'.ra, NodesBelow(memory', regs'.a0), root')
  BY <1>1, <1>8, <1>14
<1>16. bst_count' = bst_count
  BY DEF bst_count, Line
<1> QED
  BY <1>5, <1>8, <1>15, <1>16, Zenon DEF Counts

CountRuns == call.fn = "count"
SearchRuns == call.fn = "search"
InsertRuns == call.fn = "insert"
InitRuns == call.fn = "init"

CountInv == CountRuns => Counts

\* Which call the test has made.
LEMMA CallMade ==
  ASSUME TreeInv, TestStep
  PROVE  /\ pc = Caller(4)
         /\ CountRuns' => CallOnTree("count")
         /\ SearchRuns' => \E key \in Keys : CallSearch(key)
         /\ InsertRuns' => CallInsert
         /\ InitRuns' => \E key \in Keys : CallInit(key)
<1>1. ASSUME NEW key, CallInit(key) PROVE call'.fn = "init" /\ pc = Caller(4)
  BY <1>1, Invoked DEF CallInit
<1>2. ASSUME NEW key, CallSearch(key) PROVE call'.fn = "search" /\ pc = Caller(4)
  BY <1>2, Invoked DEF CallSearch
<1>3. CallInsert => call'.fn = "insert" /\ pc = Caller(4)
  BY Invoked DEF CallInsert
<1>4. Resume => call'.fn = "none" /\ pc = Caller(4)
  BY NoCallType DEF Resume
<1>5. ASSUME NEW fn, CallOnTree(fn) PROVE call'.fn = fn /\ pc = Caller(4)
  <2>1. Invoke(fn, root, Junk, NULL, NoCall.key)
    BY <1>5 DEF CallOnTree
  <2>2. pc = Caller(4) /\ call' = [fn |-> fn, node |-> NULL, key |-> NoCall.key]
    BY <2>1, Invoked, Zenon
  <2> QED
    BY <2>2
<1>6. pc = Caller(4)
  BY <1>1, <1>2, <1>3, <1>4, <1>5, Zenon DEF TestStep
<1>7. CountRuns' => CallOnTree("count")
  BY <1>1, <1>2, <1>3, <1>4, <1>5, Zenon DEF TestStep, CountRuns
<1>8. SearchRuns' => \E key \in Keys : CallSearch(key)
  BY <1>1, <1>2, <1>3, <1>4, <1>5, Zenon DEF TestStep, SearchRuns
<1>9. InsertRuns' => CallInsert
  BY <1>1, <1>2, <1>3, <1>4, <1>5, Zenon DEF TestStep, InsertRuns
<1>10. InitRuns' => \E key \in Keys : CallInit(key)
  BY <1>1, <1>2, <1>3, <1>4, <1>5, Zenon DEF TestStep, InitRuns
<1> QED
  BY <1>6, <1>7, <1>8, <1>9, <1>10, Zenon

LEMMA CountCall ==
  ASSUME TreeInv, Control', TestStep, CountRuns'
  PROVE  Counts'
<1>1. Invoke("count", root, Junk, NULL, NoCall.key) /\ keys' = keys
  BY CallMade, Zenon DEF CallOnTree
<1>2. /\ pc' = bst_count /\ UNCHANGED <<memory, root>> /\ stack' = << >>
      /\ Root = root /\ regs'.a0 = root
  <2>1. Function("count") = bst_count
    BY DEF Function
  <2>2. /\ pc' = Function("count") /\ UNCHANGED <<stack, memory, root>>
        /\ Root = root /\ stack = << >> /\ regs'.a0 = root
    BY <1>1, Invoked
  <2> QED
    BY <2>1, <2>2
<1>3. Size' = Size
  <2>1. pc' # Caller(4)
    BY <1>2, Labels
  <2>2. Root' = Root
    BY <1>2, <2>1, RootOfCaller, Zenon
  <2> QED
    BY <1>1, <1>2, <2>2, SameTree, Zenon DEF TreeInv
<1>4. Size \in 0 .. Nodes /\ root \in 0 .. Size
  <2>1. Size \in 0 .. Nodes /\ root = First(Size)
    BY <1>2, SizeType DEF TreeInv, Control, IsTree
  <2> QED
    BY <2>1, NodesAssumption, SMT DEF First, NULL
<1>5. NodesBelow(memory, root) \in Nat
  BY <1>4, TreeCounts
<1>6. NodesBelow(memory, root) + 0 = NodesBelow(memory, root) /\ 0 \in Int
  BY <1>5, SMT
<1>7. Owes(<< >>, 3, regs'.ra, CountPromises(memory, Size), 0, 0)
  <2>1. 3 \in {3, 4}
    OBVIOUS
  <2> QED
    BY <2>1, ChainEmpty
<1>8. Counted(memory, Size, << >>, regs'.ra, NodesBelow(memory, root), root)
  BY <1>6, <1>7, Zenon DEF Counted
<1>9. bst_count' = bst_count
  BY DEF bst_count, Line
<1> QED
  BY <1>2, <1>3, <1>4, <1>8, <1>9, Zenon DEF Counts

\* Nothing of the program changes.
LEMMA Stutter ==
  ASSUME TreeInv, UNCHANGED vars
  PROVE  /\ pc' = pc /\ regs' = regs /\ stack' = stack /\ console' = console
         /\ memory' = memory /\ root' = root /\ keys' = keys /\ call' = call
         /\ Root' = Root /\ Size' = Size /\ Inner' = Inner /\ (Returned' <=> Returned)
<1>1. /\ pc' = pc /\ regs' = regs /\ stack' = stack /\ console' = console
      /\ memory' = memory /\ root' = root /\ keys' = keys /\ call' = call
  BY DEF vars
<1>2. NoCall' = NoCall
  BY DEF NoCall
<1>3. Returned' <=> Returned
  BY <1>1, <1>2, Zenon DEF Returned
<1>4. Root' = Root
  BY <1>1, <1>3, Zenon DEF Root
<1> QED
  BY <1>1, <1>3, <1>4, SameTree DEF TreeInv

LEMMA CountInvStep ==
  ASSUME TreeInv, CountInv, [Next]_vars
  PROVE  CountInv'
<1>1. Control'
  BY ControlStep DEF TreeInv
<1> SUFFICES ASSUME CountRuns' PROVE Counts'
  BY DEF CountInv
<1>2. CASE Code
  <2>1. call' = call /\ pc # Caller(4)
    BY <1>2, CodePlaces
  <2>2. CountRuns
    BY <2>1, Zenon DEF CountRuns
  <2>3. pc \in {bst_count} \cup AfterCount
    BY <2>1, <2>2 DEF TreeInv, Control, InFunction, CountRuns
  <2>4. CountNothing \/ CountLeft \/ CountRight \/ CountReturns
    BY <1>2, <2>3, CodePlaces
  <2>5. Size' = Size
    BY <1>1, <2>4, SameSize
  <2>6. Counts
    BY <2>2 DEF CountInv
  <2> QED
    BY <2>4, <2>5, <2>6, CountsNothing, CountsLeft, CountsRight, CountsReturn
<1>3. CASE TestStep
  BY <1>1, <1>3, CountCall
<1>4. CASE UNCHANGED vars
  <2>1. CountRuns /\ Counts
    BY <1>4, Stutter, Zenon DEF CountInv, CountRuns
  <2>2. bst_count' = bst_count
    BY DEF bst_count, Line
  <2> QED
    BY <1>4, <2>1, <2>2, Stutter, Zenon DEF Counts
<1> QED
  BY <1>2, <1>3, <1>4, Zenon DEF Next, TestStep

LEMMA CountReturned ==
  ASSUME TreeInv, CountInv, CountRuns, pc = Caller(4)
  PROVE  regs.v0 = Cardinality(Linked) /\ regs.v0 \in 0 .. Nodes
<1>1. stack = << >> /\ pc # bst_count
  BY Labels DEF TreeInv, Control, ControlFlow
<1>2. PICK v \in Int : /\ Owes(<< >>, 3, pc, CountPromises(memory, Size), 0, v)
                       /\ regs.v0 + v = NodesBelow(memory, root)
  BY <1>1 DEF CountInv, Counts, Counted
<1>3. v = 0
  <2>1. 3 \in {3, 4}
    OBVIOUS
  <2> QED
    BY <1>2, <2>1, ChainEmpty
<1>4. regs.v0 = NodesBelow(memory, root)
  <2>1. regs.v0 \in Int
    BY Types DEF TreeInv, Control
  <2> QED
    BY <1>2, <1>3, <2>1, SMT
<1>5. Linked = Inner /\ Inner = Below(memory, root)
  <2>1. Root = root
    BY RootOfCaller DEF CountRuns
  <2>2. /\ Linked = Inner /\ memory \in [Node -> BSTNode] /\ Size \in 0 .. Nodes
        /\ Shape(memory, Size) /\ root = First(Size)
    BY <2>1, LinkedNodes, SizeType, Types DEF TreeInv, Control, IsTree
  <2> QED
    BY <2>2, TreeBelow DEF Inner
<1>6. Cardinality(Inner) = Size /\ Size \in 0 .. Nodes
  <2>1. Size \in 0 .. Nodes
    BY SizeType DEF TreeInv, Control
  <2>2. Size \in Nat
    BY <2>1, NodesAssumption, SMT
  <2>3. Cardinality(1 .. Size) = Size
    BY <2>2, FS_Interval, SMT
  <2> QED
    BY <2>1, <2>3 DEF Inner
<1> QED
  BY <1>4, <1>5, <1>6, Zenon DEF NodesBelow

-----------------------------------------------------------------------------
(* The memory of the nodes has the keys that the test gave them.            *)

Recorded ==
  /\ pc = bst_init_node => regs.a1 = keys[Len(keys)]
  /\ \A n \in 1 .. Len(keys) :
       memory[n].key = keys[n] \/ (pc = bst_init_node /\ n = Len(keys))

LEMMA RecordedStep ==
  ASSUME TreeInv, Recorded, [Next]_vars
  PROVE  Recorded'
<1>1. Control'
  BY ControlStep DEF TreeInv
<1>2. bst_init_node' = bst_init_node
  BY DEF bst_init_node, Line
<1>3. /\ Len(keys) \in 0 .. Nodes /\ keys \in Seq(Keys) /\ regs \in Registers
      /\ memory \in [Node -> BSTNode]
      /\ \A n \in 1 .. Len(keys) : n \in Node
  <2>1. Len(keys) \in 0 .. Nodes
    BY CountType DEF TreeInv, Control
  <2>2. \A n \in 1 .. Len(keys) : n \in Node
    BY <2>1, NodesAssumption, SMT DEF Node
  <2> QED
    BY <2>1, <2>2, Types DEF TreeInv, Control, TypeOK
<1>4. CASE InitNode
  <2>1. /\ pc = bst_init_node /\ pc' = bst_search /\ keys' = keys
        /\ memory' = [memory EXCEPT ![regs.a0] = [key |-> regs.a1, left |-> NULL, right |-> NULL]]
    BY <1>4 DEF InitNode
  <2>2. regs.a0 = Len(keys) /\ regs.a0 \in Node
    BY <2>1 DEF TreeInv, Fresh, Control, Operands
  <2>3. /\ memory'[Len(keys)].key = regs.a1
        /\ \A n \in 1 .. Len(keys) : n # Len(keys) => memory'[n] = memory[n]
    BY <1>3, <2>1, <2>2
  <2>4. pc' # bst_init_node
    BY <2>1, Labels
  <2>5. \A n \in 1 .. Len(keys) : memory'[n].key = keys[n]
    BY <2>1, <2>3, Zenon DEF Recorded
  <2> QED
    BY <1>2, <2>1, <2>4, <2>5, Zenon DEF Recorded
<1>5. CASE InsertReturns
  <2>1. /\ pc \in AfterInsert /\ keys' = keys /\ pc' = regs'.ra
        /\ memory' = [memory EXCEPT ![ParentFromStack][ChildField(pc)] = regs.v0]
    BY <1>5 DEF InsertReturns, JrRa, AfterInsert
  <2>2. pc # bst_init_node
    BY <2>1, Labels DEF AfterInsert
  <2>3. ChildField(pc) # "key" /\ ChildField(pc) \in {"key", "left", "right"}
    BY DEF ChildField
  <2>4. \A n \in 1 .. Len(keys) : memory'[n].key = memory[n].key
    <3> DEFINE p == ParentFromStack
               f == ChildField(pc)
    <3> HIDE DEF p, f
    <3>1. memory' = [memory EXCEPT ![p][f] = regs.v0] /\ f # "key" /\ f \in {"key", "left", "right"}
      BY <2>1, <2>3 DEF p, f
    <3>2. TAKE n \in 1 .. Len(keys)
    <3>3. n \in Node /\ memory[n] \in BSTNode
      BY <1>3
    <3>4. memory'[n] = IF n = p THEN [memory[n] EXCEPT ![f] = regs.v0] ELSE memory[n]
      BY <1>3, <3>1, <3>3
    <3>5. [memory[n] EXCEPT ![f] = regs.v0].key = memory[n].key
      BY <3>1, <3>3 DEF BSTNode
    <3> QED
      BY <3>4, <3>5
  <2>5. pc' # bst_init_node
    <3>1. call.fn = "insert" /\ call' = call
      BY <1>5, <2>1, InsertState DEF InsertReturns
    <3>2. InFunction'
      BY <1>1 DEF Control
    <3>3. Runs(pc', call'.fn)
      BY <3>2, RunsInFunction
    <3> QED
      BY <3>1, <3>3, RunsWhere, Labels DEF AfterInsert
  <2> QED
    BY <1>2, <2>1, <2>2, <2>4, <2>5, Zenon DEF Recorded
<1>6. CASE Code /\ ~InitNode /\ ~InsertReturns
  <2>1. keys' = keys /\ pc # bst_init_node
    BY <1>6, CodePlaces
  <2>2. memory' = memory
    BY <1>1, <1>6, OtherCodeTree, InsertHereTree, InsertBelowTree DEF Code
  <2>3. pc' # bst_init_node
    <3>1. (call' = call /\ InFunction' /\ call.fn # "init") \/ (pc \in {bst_search, LOOP_BSTSEARCH})
      <4>1. pc # Caller(4) /\ call' = call
        BY <1>6, CodePlaces
      <4>2. InFunction /\ InFunction'
        BY <1>1 DEF TreeInv, Control
      <4>3. Runs(pc, call.fn)
        BY <4>2, RunsInFunction
      <4> QED
        BY <2>1, <4>1, <4>2, <4>3, RunsWhere
    <3>2. CASE pc \in {bst_search, LOOP_BSTSEARCH}
      <4>1. Search \/ SearchReturns \/ SearchDescends
        BY <1>6, <3>2, CodePlaces
      <4>2. regs.ra = Caller(4)
        BY <3>2 DEF TreeInv, Control, ControlFlow
      <4>3. SearchReturns => pc' = regs.ra
        BY <1>3 DEF SearchReturns, JrRa, Registers
      <4>4. pc' \in {LOOP_BSTSEARCH, Caller(4)}
        BY <4>1, <4>2, <4>3 DEF Search, SearchDescends
      <4> QED
        BY <4>4, Labels
    <3>3. CASE call' = call /\ InFunction' /\ call.fn # "init"
      <4>1. Runs(pc', call'.fn)
        BY <3>3, RunsInFunction
      <4> QED
        BY <3>3, <4>1, RunsWhere
    <3> QED
      BY <3>1, <3>2, <3>3
  <2> QED
    BY <1>2, <2>1, <2>2, <2>3, Zenon DEF Recorded
<1>7. CASE TestStep
  <2>1. pc = Caller(4) /\ memory' = memory /\ pc # bst_init_node
    BY <1>1, <1>7, CallMade, CallerTree, Labels
  <2>2. CASE InitRuns'
    <3>1. PICK key \in Keys : CallInit(key)
      BY <1>7, <2>2, CallMade
    <3>2. keys' = Append(keys, key) /\ regs'.a1 = key
      BY <3>1, Invoked DEF CallInit
    <3>3. Len(keys') = Len(keys) + 1 /\ keys'[Len(keys) + 1] = key
          /\ \A n \in 1 .. Len(keys) : keys'[n] = keys[n]
      BY <1>3, <3>2
    <3>4. \A n \in 1 .. Len(keys') : n \in 1 .. Len(keys) \/ n = Len(keys')
      BY <1>3, <3>3, NodesAssumption, SMT
    <3>5. pc' = bst_init_node
      <4>1. Function("init") = bst_init_node
        BY DEF Function
      <4> QED
        BY <3>1, <4>1, Invoked DEF CallInit
    <3>6. \A n \in 1 .. Len(keys) : memory[n].key = keys[n]
      BY <2>1 DEF Recorded
    <3> QED
      BY <1>2, <2>1, <3>2, <3>3, <3>4, <3>5, <3>6, Zenon DEF Recorded
  <2>3. CASE ~InitRuns'
    <3>1. keys' = keys
      <4>1. ASSUME NEW key \in Keys, CallInit(key) PROVE InitRuns'
        BY <4>1, Invoked DEF CallInit, InitRuns
      <4> QED
        BY <1>7, <2>3, <4>1 DEF TestStep, CallSearch, CallInsert, CallOnTree, Resume
    <3>2. pc' # bst_init_node
      <4>1. Runs(pc', call'.fn)
        BY <1>1, RunsInFunction DEF Control
      <4> QED
        BY <2>3, <4>1, RunsWhere DEF InitRuns
    <3> QED
      BY <1>2, <2>1, <3>1, <3>2, Zenon DEF Recorded
  <2> QED
    BY <2>2, <2>3
<1>8. CASE UNCHANGED vars
  BY <1>2, <1>8, Stutter, Zenon DEF Recorded
<1> QED
  BY <1>4, <1>5, <1>6, <1>7, <1>8, Zenon DEF Next, TestStep

-----------------------------------------------------------------------------
(* bst_search. *)

\* A node with the key that no younger node precedes, or none if there is none.
Found(value, key) ==
  IF value = NULL THEN \A n \in Inner : memory[n].key # key
  ELSE /\ value \in Inner /\ memory[value].key = key
       /\ \A n \in Inner : memory[n].key = key => value <= n

\* All nodes with the key are below the current one.
Searches ==
  /\ pc = bst_search => regs.a0 = root /\ regs.a1 = call.key
  /\ pc = LOOP_BSTSEARCH =>
       /\ regs.t0 \in 0 .. Size /\ regs.a1 = call.key
       /\ \A n \in Inner : memory[n].key = call.key => n \in Below(memory, regs.t0)
  /\ pc = Caller(4) => Found(regs.v0, call.key)

SearchInv == SearchRuns => Searches

LEMMA SearchFacts ==
  ASSUME TreeInv
  PROVE  /\ memory \in [Node -> BSTNode] /\ Size \in 0 .. Nodes /\ Size \in Nat
         /\ Shape(memory, Size) /\ Links(memory, Size) /\ Sorted(memory, Size)
         /\ regs \in Registers /\ Inner = 1 .. Size
         /\ 0 \in 0 .. Size /\ 1 .. Size \subseteq 0 .. Size
         /\ \A n \in 0 .. Size : n = NULL \/ n \in 1 .. Size
<1>1. /\ memory \in [Node -> BSTNode] /\ Size \in 0 .. Nodes
      /\ Shape(memory, Size) /\ Links(memory, Size) /\ Sorted(memory, Size)
      /\ regs \in Registers /\ Inner = 1 .. Size
  BY SizeType, Types DEF TreeInv, Control, IsTree, Shape, Inner
<1>2. Size \in Nat /\ 0 \in 0 .. Size /\ 1 .. Size \subseteq 0 .. Size
      /\ \A n \in 0 .. Size : n = NULL \/ n \in 1 .. Size
  BY <1>1, NodesAssumption, SMT DEF NULL
<1> QED
  BY <1>1, <1>2

LEMMA SearchStarts ==
  ASSUME TreeInv, Search, Searches, root = First(Size), Size' = Size, Inner' = Inner
  PROVE  Searches'
<1>1. /\ pc = bst_search /\ pc' = LOOP_BSTSEARCH
      /\ regs' = [regs EXCEPT !.t0 = regs.a0]
      /\ UNCHANGED <<memory, call>>
  BY DEF Search
<1>2. regs.a0 = root /\ regs.a1 = call.key
  BY <1>1 DEF Searches
<1>3. regs'.t0 = root /\ regs'.a1 = call.key
  BY <1>1, <1>2, SearchFacts DEF Registers
<1>4. root \in 0 .. Size /\ Below(memory, root) = Inner
  <2>1. Below(memory, root) = Inner
    BY SearchFacts, TreeBelow
  <2> QED
    BY <2>1, SearchFacts, SMT DEF First, NULL
<1>5. LOOP_BSTSEARCH' = LOOP_BSTSEARCH /\ bst_search' = bst_search /\ Caller(4)' = Caller(4)
  BY DEF LOOP_BSTSEARCH, bst_search, Caller, Line
<1>6. pc' # bst_search /\ pc' # Caller(4)
  BY <1>1, Labels
<1> QED
  BY <1>1, <1>3, <1>4, <1>5, <1>6, Zenon DEF Searches

LEMMA SearchEnds ==
  ASSUME TreeInv, SearchReturns, Searches, Size' = Size, Inner' = Inner
  PROVE  Searches'
<1> DEFINE cur == regs.t0
<1>1. /\ pc = LOOP_BSTSEARCH /\ pc' = regs'.ra
      /\ cur # NULL => memory[cur].key = regs.a1
      /\ regs' = [regs EXCEPT !.v0 = cur]
      /\ UNCHANGED <<memory, call>>
  BY DEF SearchReturns, JrRa
<1>2. /\ cur \in 0 .. Size /\ regs.a1 = call.key
      /\ \A n \in Inner : memory[n].key = call.key => n \in Below(memory, cur)
  BY <1>1 DEF Searches
<1>3. regs'.v0 = cur /\ regs'.ra = regs.ra
  BY <1>1, SearchFacts DEF Registers
<1>4. pc' = Caller(4)
  BY <1>1, <1>3 DEF TreeInv, Control, ControlFlow
<1> HIDE DEF cur
<1>5. Found(cur, call.key)
  <2>1. CASE cur = NULL
    <3>1. Below(memory, cur) = {}
      BY <2>1, SearchFacts, BelowNull
    <3> QED
      BY <1>2, <2>1, <3>1, Zenon DEF Found
  <2>2. CASE cur # NULL
    <3>1. cur \in 1 .. Size
      BY <1>2, <2>2, SearchFacts
    <3>2. Below(memory, cur) \subseteq cur .. Size
      BY <3>1, SearchFacts, BelowLeast
    <3>3. ASSUME NEW n \in Below(memory, cur) PROVE cur <= n
      <4>1. n \in cur .. Size
        BY <3>2, <3>3
      <4> QED
        BY <3>1, <4>1, SearchFacts, SMT
    <3> QED
      BY <1>1, <1>2, <2>2, <3>1, <3>3, SearchFacts, Zenon DEF Found, cur
  <2> QED
    BY <2>1, <2>2
<1>6. Found(regs.v0, call.key)'
  <2>1. memory' = memory /\ call'.key = call.key /\ NULL' = NULL
    BY <1>1 DEF NULL
  <2> QED
    BY <1>3, <1>5, <2>1, SMT DEF Found
<1>7. LOOP_BSTSEARCH' = LOOP_BSTSEARCH /\ bst_search' = bst_search /\ Caller(4)' = Caller(4)
  BY DEF LOOP_BSTSEARCH, bst_search, Caller, Line
<1>8. pc' # bst_search /\ pc' # LOOP_BSTSEARCH
  BY <1>4, Labels
<1> QED
  BY <1>4, <1>6, <1>7, <1>8, Zenon DEF Searches

LEMMA SearchGoesOn ==
  ASSUME TreeInv, SearchDescends, Searches, Size' = Size, Inner' = Inner, call.key \in Int
  PROVE  Searches'
<1> DEFINE cur == regs.t0
           next == ChildTowards(cur, call.key)
<1>1. /\ pc = LOOP_BSTSEARCH /\ pc' = pc
      /\ cur # NULL /\ memory[cur].key # regs.a1
      /\ regs' = [regs EXCEPT !.t0 = ChildTowards(cur, regs.a1)]
      /\ UNCHANGED <<memory, call>>
  BY DEF SearchDescends
<1>2. /\ cur \in 0 .. Size /\ regs.a1 = call.key
      /\ \A n \in Inner : memory[n].key = call.key => n \in Below(memory, cur)
  BY <1>1 DEF Searches
<1>3. regs'.t0 = next /\ regs'.a1 = call.key
  BY <1>1, <1>2, SearchFacts DEF Registers
<1>4. next = IF call.key < memory[cur].key THEN memory[cur].left ELSE memory[cur].right
  BY Zenon DEF ChildTowards
<1> HIDE DEF cur, next
<1>5. cur \in 1 .. Size
  BY <1>1, <1>2, SearchFacts
<1>6. memory[cur].key \in Int /\ next \in 0 .. Size
  <2>1. /\ memory[cur].key \in Int
        /\ memory[cur].left \in 0 .. Size /\ memory[cur].right \in 0 .. Size
    BY <1>5, TreeCounts, SearchFacts, NodeTypes
  <2> QED
    BY <1>4, <2>1, Zenon
<1>7. ASSUME NEW n \in Inner, memory[n].key = call.key
      PROVE  n \in Below(memory, next)
  <2>1. n \in {cur} \cup Below(memory, memory[cur].left) \cup Below(memory, memory[cur].right)
    <3>1. n \in Below(memory, cur)
      BY <1>2, <1>7
    <3>2. Below(memory, cur) =
            {cur} \cup Below(memory, memory[cur].left) \cup Below(memory, memory[cur].right)
      BY <1>5, SearchFacts, BelowChildren
    <3> QED
      BY <3>1, <3>2, Zenon
  <2>2. n # cur
    BY <1>1, <1>2, <1>7
  <2>3. n \in Below(memory, memory[cur].left) => call.key < memory[cur].key
    BY <1>5, <1>7, SearchFacts DEF Sorted
  <2>4. n \in Below(memory, memory[cur].right) => call.key >= memory[cur].key
    BY <1>5, <1>7, SearchFacts DEF Sorted
  <2>5. ~(call.key < memory[cur].key /\ call.key >= memory[cur].key)
    BY <1>6, SMT
  <2> QED
    BY <1>4, <2>1, <2>2, <2>3, <2>4, <2>5, Zenon
<1>8. LOOP_BSTSEARCH' = LOOP_BSTSEARCH /\ bst_search' = bst_search /\ Caller(4)' = Caller(4)
  BY DEF LOOP_BSTSEARCH, bst_search, Caller, Line
<1>9. pc' # bst_search /\ pc' # Caller(4)
  BY <1>1, Labels
<1> QED
  BY <1>1, <1>3, <1>6, <1>7, <1>8, <1>9, Zenon DEF Searches

LEMMA SearchCall ==
  ASSUME TreeInv, TestStep, SearchRuns'
  PROVE  Searches'
<1>1. PICK key \in Keys : CallSearch(key)
  BY CallMade
<1>2. Invoke("search", root, key, NULL, key)
  BY <1>1 DEF CallSearch
<1>3. /\ pc' = bst_search /\ UNCHANGED root /\ regs'.a0 = root /\ regs'.a1 = key
      /\ call'.key = key
  <2>1. Function("search") = bst_search
    BY DEF Function
  <2>2. /\ pc' = Function("search") /\ UNCHANGED root /\ regs'.a0 = root /\ regs'.a1 = key
        /\ call' = [fn |-> "search", node |-> NULL, key |-> key]
    BY <1>2, Invoked
  <2> QED
    BY <2>1, <2>2
<1>4. pc' # LOOP_BSTSEARCH /\ pc' # Caller(4)
  BY <1>3, Labels
<1>5. LOOP_BSTSEARCH' = LOOP_BSTSEARCH /\ bst_search' = bst_search /\ Caller(4)' = Caller(4)
  BY DEF LOOP_BSTSEARCH, bst_search, Caller, Line
<1> QED
  BY <1>3, <1>4, <1>5, Zenon DEF Searches

\* The keys that are looked for are numbers.
LEMMA KeyOfCall ==
  ASSUME TypeOK
  PROVE  /\ call.key \in Keys /\ call.key \in Int /\ call.node \in Link
         /\ call = [fn |-> call.fn, node |-> call.node, key |-> call.key]
<1>1. call \in [fn : Functions, node : Link, key : Keys]
  BY DEF TypeOK
<1>2. call.key \in Keys /\ call.node \in Link
      /\ call = [fn |-> call.fn, node |-> call.node, key |-> call.key]
  BY <1>1
<1> QED
  BY <1>2, KeysAssumption

LEMMA SearchInvStep ==
  ASSUME TreeInv, SearchInv, [Next]_vars
  PROVE  SearchInv'
<1>1. Control'
  BY ControlStep DEF TreeInv
<1> SUFFICES ASSUME SearchRuns' PROVE Searches'
  BY DEF SearchInv
<1>2. CASE Code
  <2>1. call' = call /\ pc # Caller(4)
    BY <1>2, CodePlaces
  <2>2. SearchRuns
    BY <2>1, Zenon DEF SearchRuns
  <2>3. pc \in {bst_search, LOOP_BSTSEARCH}
    BY <2>1, <2>2 DEF TreeInv, Control, InFunction, SearchRuns
  <2>4. Search \/ SearchReturns \/ SearchDescends
    BY <1>2, <2>3, CodePlaces
  <2>5. Size' = Size /\ Inner' = Inner /\ Root = root
    BY <1>1, <2>4, SameSize
  <2>6. Searches /\ root = First(Size)
    BY <2>2, <2>5 DEF SearchInv, TreeInv, IsTree
  <2>7. call.key \in Int
    BY KeyOfCall DEF TreeInv, Control
  <2> QED
    BY <2>4, <2>5, <2>6, <2>7, SearchStarts, SearchEnds, SearchGoesOn
<1>3. CASE TestStep
  BY <1>3, SearchCall
<1>4. CASE UNCHANGED vars
  <2>1. SearchRuns /\ Searches
    BY <1>4, Stutter, Zenon DEF SearchInv, SearchRuns
  <2>2. LOOP_BSTSEARCH' = LOOP_BSTSEARCH /\ bst_search' = bst_search /\ Caller(4)' = Caller(4)
        /\ NULL' = NULL
    BY DEF LOOP_BSTSEARCH, bst_search, Caller, Line, NULL
  <2>3. Found(regs.v0, call.key)' <=> Found(regs.v0, call.key)
    BY <1>4, <2>2, Stutter, SMT DEF Found
  <2> QED
    BY <1>4, <2>1, <2>2, <2>3, Stutter, Zenon DEF Searches
<1> QED
  BY <1>2, <1>3, <1>4, Zenon DEF Next, TestStep

\* What holds in every state of every program that uses the tree.
DictionaryInv == TreeInv /\ TraversalInv /\ CountInv /\ SearchInv /\ Recorded

LEMMA DictionaryInvariant == Spec => []DictionaryInv
<1>1. Init => CountInv /\ SearchInv /\ Recorded
  <2>1. Init => call.fn = "none" /\ keys = << >> /\ pc = Caller(4)
    BY NoCallType DEF Init
  <2>2. Caller(4) # bst_init_node
    BY Labels
  <2>3. Init => Recorded
    BY <2>1, <2>2, SMT DEF Recorded
  <2> QED
    BY <2>1, <2>3 DEF CountInv, CountRuns, SearchInv, SearchRuns
<1>2. TreeInv /\ CountInv /\ [Next]_vars => CountInv'
  BY CountInvStep
<1>3. TreeInv /\ SearchInv /\ [Next]_vars => SearchInv'
  BY SearchInvStep
<1>4. TreeInv /\ Recorded /\ [Next]_vars => Recorded'
  BY RecordedStep
<1> QED
  BY <1>1, <1>2, <1>3, <1>4, TreeInvariant, TraversalInvariant, PTL DEF Spec, DictionaryInv

-----------------------------------------------------------------------------
(* The dictionary: its variables, and its actions in terms of them. *)

State == IF call = NoCall THEN "idle" ELSE IF Returned THEN "returned" ELSE "running"
Answer == IF Returned /\ call.fn \in {"search", "count", "insert"} THEN regs.v0 ELSE NULL
With(k) == {n \in Linked : keys[n] = k}
Oldest(set) == IF set = {} THEN NULL ELSE CHOOSE n \in set : \A m \in set : n <= m

StateIs ==
  /\ pc # Caller(4) => ~Returned /\ call # NoCall /\ State = "running" /\ Answer = NULL
  /\ pc = Caller(4) /\ call # NoCall => Returned /\ State = "returned"
  /\ call = NoCall => ~Returned /\ State = "idle" /\ Answer = NULL
  /\ Returned => Answer = IF SearchRuns \/ CountRuns \/ InsertRuns THEN regs.v0 ELSE NULL

LEMMA StateOf == InFunction => StateIs
<1> SUFFICES ASSUME InFunction PROVE StateIs
  OBVIOUS
<1>1. pc # Caller(4) => call # NoCall
  <2>1. ASSUME call.fn = "none", Runs(pc, call.fn) PROVE pc = Caller(4)
    <3>1. call.fn \notin {"init", "search", "count", "in order", "pre order", "insert"}
      BY <2>1, Zenon
    <3> QED
      BY <2>1, <3>1, Zenon DEF Runs
  <2> QED
    BY <2>1, RunsInFunction, Zenon DEF InFunction
<1> QED
  BY <1>1, Zenon DEF StateIs, Returned, State, Answer, SearchRuns, CountRuns, InsertRuns

LEMMA StateOfNext == InFunction' => StateIs'
BY StateOf, PTL

LEMMA SameCardinality == \A S : Tree!Cardinality(S) = Cardinality(S)
BY Zenon DEF Tree!Cardinality, Cardinality

\* An insertion takes effect, a key is printed, a call ends.
LEMMA DictionaryInsert ==
  ASSUME State = "running", State' = "running", Answer = NULL, Answer' = NULL, InsertRuns,
         Linked' = Linked \cup {call.node}, UNCHANGED <<keys, call, console>>
  PROVE  Tree!Insert
BY Zenon DEF State, Answer, InsertRuns, Tree!Insert

LEMMA DictionaryPrint ==
  ASSUME State = "running", State' = "running", Answer = NULL, Answer' = NULL,
         Linked' = Linked, UNCHANGED <<keys, call>>, NEW k, console' = Append(console, k),
         InOrderRuns \/ PreOrderRuns,
         Cardinality({i \in DOMAIN console : console[i] = k}) < Cardinality(With(k)),
         InOrderRuns => \A j \in Keys : j < k =>
           Cardinality({i \in DOMAIN console : console[i] = j}) = Cardinality(With(j))
  PROVE  Tree!PrintKey(k)
BY SameCardinality, Zenon
   DEF State, Answer, InOrderRuns, PreOrderRuns, With, Tree!PrintKey, Tree!Printed, Tree!With

LEMMA DictionaryReturn ==
  ASSUME State = "running", State' = "returned", Answer = NULL,
         UNCHANGED <<keys, call, console>>,
         Linked' = IF InsertRuns THEN Linked \cup {call.node} ELSE Linked,
         SearchRuns => Answer' = Oldest(With(call.key)),
         CountRuns => Answer' = Cardinality(Linked),
         InOrderRuns \/ PreOrderRuns => Len(console) = Cardinality(Linked),
         InsertRuns => Answer' = Oldest(Linked')
  PROVE  Tree!Return(Answer')
BY SameCardinality, Zenon
   DEF State, Answer, InOrderRuns, PreOrderRuns, InsertRuns, SearchRuns, CountRuns, With, Oldest,
       Tree!Return, Tree!Oldest, Tree!With, Tree!NULL, NULL

LEMMA DictionaryStart ==
  ASSUME State = "idle", State' = "running", Answer = NULL, Answer' = NULL,
         Linked' = Linked, console' = << >>, call'.fn # "none",
         InitRuns' => call'.node = Len(keys) + 1,
         InsertRuns' => call'.node \in DOMAIN keys \ Linked,
         keys' = IF InitRuns' THEN Append(keys, call'.key) ELSE keys
  PROVE  Tree!Start(call')
BY Zenon DEF State, Answer, InitRuns, InsertRuns, Tree!Start

LEMMA DictionaryResume ==
  ASSUME State = "returned", State' = "idle", Answer' = NULL, call' = NoCall,
         Linked' = Linked, UNCHANGED <<keys, console>>
  PROVE  Tree!Resume
BY Zenon DEF State, Answer, NoCall, Tree!Resume, Tree!Idle, Tree!NULL, NULL

LEMMA DictionaryStutter ==
  ASSUME State' = State, Answer' = Answer, Linked' = Linked, UNCHANGED <<keys, call, console>>
  PROVE  UNCHANGED Tree!vars
BY Zenon DEF State, Answer, Tree!vars

-----------------------------------------------------------------------------
(* What the functions return. *)

LEMMA OldestIs ==
  ASSUME NEW S, S \subseteq Int, NEW v \in S, \A m \in S : v <= m
  PROVE  Oldest(S) = v
<1>1. S # {}
  OBVIOUS
<1>2. ASSUME NEW w \in S, \A m \in S : w <= m PROVE w = v
  BY <1>2, SMT
<1> DEFINE oldest == CHOOSE n \in S : \A m \in S : n <= m
<1>3. oldest \in S /\ \A m \in S : oldest <= m
  BY Zenon
<1> HIDE DEF oldest
<1>4. oldest = v
  BY <1>2, <1>3, Zenon
<1> QED
  BY <1>1, <1>4, Zenon DEF Oldest, oldest

LEMMA LinkedIs ==
  ASSUME TreeInv
  PROVE  /\ Linked = 1 .. Size /\ Size \in 0 .. Nodes /\ Size \in Nat
         /\ Linked \subseteq Int
         /\ \A n \in Linked : n \in 0 .. Nodes /\ n \in 1 .. Len(keys) /\ 1 <= n /\ n # NULL
<1>1. /\ Linked = 1 .. Size /\ Size \in 0 .. Nodes
      /\ Len(keys) \in 0 .. Nodes /\ Size \in {Len(keys) - 1, Len(keys)}
  BY LinkedNodes, SizeType DEF TreeInv, Control, Inner
<1> QED
  BY <1>1, NodesAssumption, SMT DEF NULL

LEMMA SearchReturned ==
  ASSUME DictionaryInv, Returned, SearchRuns
  PROVE  regs.v0 = Oldest(With(call.key)) /\ regs.v0 \in 0 .. Nodes
<1>1. /\ Linked = Inner /\ Linked \subseteq Int /\ NULL \in 0 .. Nodes
      /\ \A n \in Linked : n \in 0 .. Nodes /\ n \in 1 .. Len(keys) /\ n # NULL
  <2>1. NULL \in 0 .. Nodes
    BY NodesAssumption, SMT DEF NULL
  <2> QED
    BY <2>1, LinkedIs DEF DictionaryInv, Inner
<1>2. Found(regs.v0, call.key)
  BY DEF DictionaryInv, SearchInv, Searches, Returned
<1>3. \A n \in Linked : memory[n].key = keys[n]
  <2>1. pc # bst_init_node
    BY Labels DEF Returned
  <2> QED
    BY <1>1, <2>1 DEF DictionaryInv, Recorded
<1>4. CASE regs.v0 = NULL
  <2>1. With(call.key) = {}
    BY <1>1, <1>2, <1>3, <1>4 DEF Found, With
  <2> QED
    BY <1>1, <1>4, <2>1 DEF Oldest
<1>5. CASE regs.v0 # NULL
  <2>1. /\ regs.v0 \in With(call.key) /\ With(call.key) \subseteq Int
        /\ \A m \in With(call.key) : regs.v0 <= m
        /\ regs.v0 \in Linked
    BY <1>1, <1>2, <1>3, <1>5 DEF Found, With
  <2> QED
    BY <1>1, <2>1, OldestIs
<1> QED
  BY <1>4, <1>5

LEMMA InsertReturned ==
  ASSUME TreeInv, Returned, InsertRuns
  PROVE  regs.v0 = Oldest(Linked) /\ regs.v0 \in 0 .. Nodes
<1>1. regs.v0 = First(Size)
  BY DEF TreeInv, IsTree, Root, InsertRuns
<1>2. Linked = 1 .. Size /\ Size \in 0 .. Nodes /\ Size \in Nat
  BY LinkedIs
<1>3. CASE Size = 0
  <2>1. Linked = {} /\ 0 \in 0 .. Nodes
    BY <1>2, <1>3, NodesAssumption, SMT
  <2> QED
    BY <1>1, <1>3, <2>1 DEF Oldest, First, NULL
<1>4. CASE Size # 0
  <2>1. 1 \in Linked /\ (\A m \in Linked : 1 <= m) /\ Linked \subseteq Int /\ 1 \in 0 .. Nodes
    BY <1>2, <1>4, NodesAssumption, SMT
  <2>2. Oldest(Linked) = 1
    BY <2>1, OldestIs
  <2> QED
    BY <1>1, <1>4, <2>1, <2>2 DEF First
<1> QED
  BY <1>3, <1>4

\* In a traversal the nodes below the root are those of the tree.
LEMMA TraversedTree ==
  ASSUME TreeInv, InOrderRuns \/ PreOrderRuns
  PROVE  /\ root \in 0 .. Size /\ Below(memory, root) = Linked
         /\ memory \in [Node -> BSTNode] /\ Size \in 0 .. Nodes /\ Shape(memory, Size)
<1>1. /\ memory \in [Node -> BSTNode] /\ Size \in 0 .. Nodes /\ Shape(memory, Size)
      /\ Linked = 1 .. Size
  BY SearchFacts, LinkedIs
<1>2. root \in 0 .. Size /\ root = First(Size)
  BY RootIsThere
<1> QED
  BY <1>1, <1>2, TreeBelow

LEMMA TraversalReturned ==
  ASSUME DictionaryInv, Returned, InOrderRuns \/ PreOrderRuns
  PROVE  Len(console) = Cardinality(Linked)
<1>1. TreeInv /\ TraversalInv /\ pc = Caller(4)
  BY DEF DictionaryInv, Returned
<1>2. PICK inOrder, order : IsOrder(order, memory, Size, inOrder) /\ Traverses(order)
  BY <1>1, Zenon DEF TraversalInv
<1>3. console = order[root]
  BY <1>1, <1>2, TraversalPrints
<1>4. Len(order[root]) = Cardinality(Below(memory, root))
  BY <1>1, <1>2, TraversedTree, OrderLength
<1> QED
  BY <1>1, <1>3, <1>4, TraversedTree, Zenon

\* All that is returned together.
RightAnswer ==
  /\ Answer \in 0 .. Nodes
  /\ SearchRuns => Answer = Oldest(With(call.key))
  /\ CountRuns => Answer = Cardinality(Linked)
  /\ InOrderRuns \/ PreOrderRuns => Len(console) = Cardinality(Linked)
  /\ InsertRuns => Answer = Oldest(Linked)

LEMMA ReturnedRight ==
  ASSUME DictionaryInv, Returned
  PROVE  RightAnswer
<1>1. TreeInv /\ CountInv /\ pc = Caller(4) /\ InFunction
  BY DEF DictionaryInv, Returned, TreeInv, Control
<1>2. Answer = IF SearchRuns \/ CountRuns \/ InsertRuns THEN regs.v0 ELSE NULL
  BY <1>1, StateOf DEF StateIs
<1>3. NULL \in 0 .. Nodes
  BY NodesAssumption, SMT DEF NULL
<1>4. SearchRuns => Answer = Oldest(With(call.key)) /\ Answer \in 0 .. Nodes
  BY <1>2, SearchReturned, Zenon
<1>5. CountRuns => Answer = Cardinality(Linked) /\ Answer \in 0 .. Nodes
  BY <1>1, <1>2, CountReturned, Zenon
<1>6. InsertRuns => Answer = Oldest(Linked) /\ Answer \in 0 .. Nodes
  BY <1>1, <1>2, InsertReturned, Zenon
<1>7. InOrderRuns \/ PreOrderRuns => Len(console) = Cardinality(Linked)
  BY TraversalReturned
<1> QED
  BY <1>2, <1>3, <1>4, <1>5, <1>6, <1>7, Zenon DEF RightAnswer

-----------------------------------------------------------------------------
(* The keys that are printed. *)

PrintedOf(k) == {i \in DOMAIN console : console[i] = k}

\* The keys as the dictionary counts them.
LEMMA KeysCounted ==
  ASSUME TreeInv, Recorded, pc # bst_init_node, InOrderRuns \/ PreOrderRuns, NEW k
  PROVE  /\ PrintedOf(k) = Occurrences(console, {k})
         /\ With(k) = NodesWith(memory, root, {k})
<1>1. Below(memory, root) = Linked
  BY TraversedTree
<1>2. \A n \in Linked : memory[n].key = keys[n]
  BY LinkedIs DEF Recorded
<1>3. With(k) = NodesWith(memory, root, {k})
  BY <1>1, <1>2, Zenon DEF With, NodesWith
<1> QED
  BY <1>3, Zenon DEF PrintedOf, Occurrences

\* The keys of the order are those of the tree.
KeysOf(order) ==
  \A n \in 0 .. Size : \A j \in 1 .. Len(order[n]) :
    \E m \in Below(memory, n) : order[n][j] = memory[m].key

LEMMA OrderKeysHere ==
  ASSUME TreeInv, NEW inOrder, NEW order, IsOrder(order, memory, Size, inOrder)
  PROVE  KeysOf(order)
<1>1. memory \in [Node -> BSTNode] /\ Size \in 0 .. Nodes /\ Shape(memory, Size)
  BY SearchFacts
<1> QED
  BY <1>1, OrderKeys DEF KeysOf

LEMMA OrderCountsHere ==
  ASSUME TreeInv, NEW inOrder, NEW order, IsOrder(order, memory, Size, inOrder), NEW K
  PROVE  \A n \in 0 .. Size :
           Cardinality(Occurrences(order[n], K)) = Cardinality(NodesWith(memory, n, K))
<1>1. memory \in [Node -> BSTNode] /\ Size \in 0 .. Nodes /\ Shape(memory, Size)
  BY SearchFacts
<1> QED
  BY <1>1, OrderCounts

\* A key that comes next in the order may be printed.
LeftFirst(inOrder) ==
  \A left, key, right : Visit(inOrder, left, key, right) = left \o <<key>> \o right

NextKey(order, k) == \E t \in Seq(Int) : order[root] = console \o (<<k>> \o t)

MayPrint(inOrder, k) ==
  /\ k \in Keys
  /\ Cardinality(PrintedOf(k)) < Cardinality(With(k))
  /\ LeftFirst(inOrder) =>
       \A j \in Keys : j < k => Cardinality(PrintedOf(j)) = Cardinality(With(j))

LEMMA KeyMayBePrinted ==
  ASSUME TreeInv, Recorded, pc # bst_init_node, InOrderRuns \/ PreOrderRuns,
         NEW inOrder, NEW order, IsOrder(order, memory, Size, inOrder),
         NEW k \in Int, NextKey(order, k)
  PROVE  MayPrint(inOrder, k)
<1>0. PICK t \in Seq(Int) : order[root] = console \o (<<k>> \o t)
  BY DEF NextKey
<1>1. /\ root \in 0 .. Size /\ Below(memory, root) = Linked /\ console \in Seq(Int)
      /\ memory \in [Node -> BSTNode] /\ Size \in 0 .. Nodes /\ Shape(memory, Size)
  BY TraversedTree, Types DEF TreeInv, Control
<1>6. \A K : \A n \in 0 .. Size :
        Cardinality(Occurrences(order[n], K)) = Cardinality(NodesWith(memory, n, K))
  BY OrderCountsHere, Zenon
<1>2. Cardinality(Occurrences(console, {k})) < Cardinality(NodesWith(memory, root, {k}))
  <2>1. Cardinality(Occurrences(console, {k})) < Cardinality(Occurrences(order[root], {k}))
    BY <1>0, <1>1, OneMoreToCome
  <2>2. Cardinality(Occurrences(order[root], {k})) = Cardinality(NodesWith(memory, root, {k}))
    BY <1>1, <1>6, Zenon
  <2> QED
    BY <2>1, <2>2, Zenon
<1>3. Cardinality(PrintedOf(k)) < Cardinality(With(k))
  BY <1>2, KeysCounted, Zenon
<1>4. k \in Keys
  <2>1. <<k>> \o t \in Seq(Int) /\ (<<k>> \o t)[1] = k /\ Len(<<k>> \o t) \in Nat \ {0}
    <3>1. <<k>> \in Seq(Int) /\ Len(<<k>>) = 1 /\ <<k>>[1] = k
      BY SMT
    <3> DEFINE u == <<k>>
    <3> HIDE DEF u
    <3>2. u \in Seq(Int) /\ Len(u) = 1 /\ u[1] = k
      BY <3>1 DEF u
    <3>3. u \o t \in Seq(Int) /\ Len(u \o t) = Len(u) + Len(t) /\ (u \o t)[1] = u[1]
      <4>1. 1 \in 1 .. Len(u)
        BY <3>2, SMT
      <4> QED
        BY <3>2, <4>1, PushedWords
    <3>4. Len(t) \in Nat
      BY LenProperties
    <3>5. u \o t \in Seq(Int) /\ (u \o t)[1] = k /\ Len(u \o t) \in Nat \ {0}
      BY <3>2, <3>3, <3>4, SMT
    <3> QED
      BY <3>5 DEF u
  <2> DEFINE u == <<k>> \o t
  <2> HIDE DEF u
  <2>2. u \in Seq(Int) /\ u[1] = k /\ Len(u) \in Nat \ {0} /\ order[root] = console \o u
    BY <1>0, <2>1 DEF u
  <2>3. Len(order[root]) = Len(console) + Len(u) /\ order[root][1 + Len(console)] = k
    <3>1. 1 \in 1 .. Len(u)
      BY <2>2, SMT
    <3>2. /\ Len(console \o u) = Len(console) + Len(u)
          /\ (console \o u)[1 + Len(console)] = u[1]
      BY <1>1, <2>2, <3>1, PushedWords
    <3> QED
      BY <2>2, <3>2
  <2>4. 1 + Len(console) \in 1 .. Len(order[root])
    <3>1. Len(console) \in Nat
      BY <1>1, LenProperties
    <3> QED
      BY <2>2, <2>3, <3>1, SMT
  <2>5. PICK m \in Below(memory, root) : order[root][1 + Len(console)] = memory[m].key
    <3> DEFINE i == 1 + Len(console)
    <3>1. i \in 1 .. Len(order[root])
      BY <2>4
    <3> HIDE DEF i
    <3>2. \E m \in Below(memory, root) : order[root][i] = memory[m].key
      <4>1. KeysOf(order)
        BY OrderKeysHere
      <4> QED
        BY <1>1, <3>1, <4>1, Zenon DEF KeysOf
    <3> QED
      BY <3>2 DEF i
  <2>6. m \in 1 .. Len(keys) /\ memory[m].key = keys[m]
    BY <1>1, <2>5, LinkedIs DEF Recorded
  <2>7. keys \in Seq(Keys)
    BY DEF TreeInv, Control, TypeOK
  <2>8. keys[m] \in Keys
    BY <2>6, <2>7, ElementOfSeq
  <2> QED
    BY <2>3, <2>5, <2>6, <2>8
<1>5. ASSUME LeftFirst(inOrder), NEW j \in Keys, j < k
      PROVE  Cardinality(PrintedOf(j)) = Cardinality(With(j))
  <2>1. Ascending(order[root])
    BY <1>1, <1>5, InOrderAscends DEF LeftFirst
  <2>2. HasSmaller(order[root], console, k)
    BY <1>0, <1>1, <2>1, SmallerKeysArePrinted
  <2>3. Cardinality(Occurrences(console, {j})) = Cardinality(NodesWith(memory, root, {j}))
    <3>1. Cardinality(Occurrences(order[root], {j})) = Cardinality(Occurrences(console, {j}))
      <4>1. j \in Int /\ j < k
        BY <1>5, KeysAssumption
      <4> QED
        BY <2>2, <4>1, Zenon DEF HasSmaller
    <3>2. Cardinality(Occurrences(order[root], {j})) = Cardinality(NodesWith(memory, root, {j}))
      BY <1>1, <1>6, Zenon
    <3> QED
      BY <3>1, <3>2, Zenon
  <2> QED
    BY <2>3, KeysCounted, Zenon
<1> QED
  BY <1>3, <1>4, <1>5, Zenon DEF MayPrint

\* The key that a step has printed was the next one.
LEMMA PrintedIsNext ==
  ASSUME TreeInv, NEW order, NEW inOrder, IsOrder(order, memory', Size', inOrder),
         Traverses(order)', UNCHANGED <<memory, root>>, Size' = Size, stack' \in Seq(Int),
         root \in 0 .. Size, NEW k \in Int, console' = Append(console, k)
  PROVE  IsOrder(order, memory, Size, inOrder) /\ NextKey(order, k)
<1>1. IsOrder(order, memory, Size, inOrder)
  <2>1. memory' = memory /\ Size' = Size
    OBVIOUS
  <2> QED
    BY <2>1, Zenon
<1>2. console \in Seq(Int)
  BY Types DEF TreeInv, Control
<1> DEFINE todo == IF pc' \in Traversals' THEN order[regs'.a0] ELSE << >>
           line == IF pc' \in Traversals' THEN regs'.ra ELSE pc'
<1>3. todo \in Seq(Int)
  <2>1. << >> \in Seq(Int)
    BY SMT
  <2>2. pc' \in Traversals' => order[regs'.a0] \in Seq(Int)
    BY <1>1 DEF Traverses, IsOrder
  <2> QED
    BY <2>1, <2>2
<1>4. PICK v \in Seq(Int) : console' \o (todo \o v) = order[root]
  <2>1. Promised(order, Size', stack', line, console', todo, root')
    BY Zenon DEF Traverses
  <2> QED
    BY <2>1 DEF Promised
<1> HIDE DEF todo
<1> DEFINE t == todo \o v
<1>5. t \in Seq(Int)
  BY <1>3, ConcatProperties
<1>6. order[root] = (console \o <<k>>) \o t
  <2>1. console' = console \o <<k>>
    BY <1>2, AppendIsConcat
  <2> QED
    BY <1>4, <2>1
<1> HIDE DEF t
<1>7. order[root] = console \o (<<k>> \o t)
  <2>1. <<k>> \in Seq(Int)
    BY SMT
  <2> QED
    BY <1>2, <1>5, <1>6, <2>1, Associate, Zenon
<1> QED
  BY <1>1, <1>5, <1>7, Zenon DEF NextKey

-----------------------------------------------------------------------------
(* Every step is one of the dictionary, or none. *)

LEMMA ReturnedRightNext == DictionaryInv' /\ Returned' => RightAnswer'
BY ReturnedRight, PTL

\* The code between two calls of the test.
LEMMA CodeStates ==
  ASSUME DictionaryInv, DictionaryInv', Code
  PROVE  /\ State = "running" /\ Answer = NULL /\ call # NoCall
         /\ UNCHANGED <<keys, call>>
         /\ InOrderRuns' <=> InOrderRuns
         /\ PreOrderRuns' <=> PreOrderRuns
         /\ SearchRuns' <=> SearchRuns
         /\ CountRuns' <=> CountRuns
         /\ InsertRuns' <=> InsertRuns
         /\ pc' # Caller(4) => State' = "running" /\ Answer' = NULL
         /\ pc' = Caller(4) => State' = "returned" /\ Returned'
<1>1. pc # Caller(4) /\ UNCHANGED <<root, keys, call>>
  BY CodePlaces
<1>2. InFunction /\ InFunction'
  BY DEF DictionaryInv, TreeInv, Control
<1>3. State = "running" /\ Answer = NULL /\ call # NoCall
  BY <1>1, <1>2, StateOf DEF StateIs
<1>4. call' # NoCall'
  <2>1. NoCall' = NoCall
    BY DEF NoCall
  <2> QED
    BY <1>1, <1>3, <2>1
<1>5. /\ pc' # Caller(4) => State' = "running" /\ Answer' = NULL
      /\ pc' = Caller(4) => State' = "returned" /\ Returned'
  <2>1. StateIs'
    BY <1>2, StateOfNext
  <2>2. /\ pc' # Caller(4)' => State' = "running" /\ Answer' = NULL'
        /\ pc' = Caller(4)' /\ call' # NoCall' => State' = "returned" /\ Returned'
    BY <2>1, Zenon DEF StateIs
  <2>3. Caller(4)' = Caller(4) /\ NULL' = NULL
    BY DEF Caller, Line, NULL
  <2> QED
    BY <1>4, <2>2, <2>3, Zenon
<1>6. /\ InOrderRuns' <=> InOrderRuns
      /\ PreOrderRuns' <=> PreOrderRuns
      /\ SearchRuns' <=> SearchRuns
      /\ CountRuns' <=> CountRuns
      /\ InsertRuns' <=> InsertRuns
  BY <1>1, Zenon DEF InOrderRuns, PreOrderRuns, SearchRuns, CountRuns, InsertRuns
<1> QED
  BY <1>1, <1>3, <1>5, <1>6, Zenon

OldNodesLinked == Linked = 1 .. Size /\ Size \in Nat

LEMMA LinkedIsNext == DictionaryInv' => Linked' = 1 .. Size' /\ Size' \in Nat
<1>1. DictionaryInv => OldNodesLinked
  BY LinkedIs DEF DictionaryInv, OldNodesLinked
<1>2. DictionaryInv' => OldNodesLinked'
  BY <1>1, PTL
<1> QED
  BY <1>2 DEF OldNodesLinked

\* Code that prints nothing: it returns, and then what it should, or nothing
\* of it can be seen.
LEMMA CodeReturns ==
  ASSUME DictionaryInv, DictionaryInv', Code, pc' = Caller(4), console' = console,
         Linked' = IF InsertRuns THEN Linked \cup {call.node} ELSE Linked
  PROVE  \E value \in 0 .. Nodes : Tree!Return(value)
<1>1. /\ State = "running" /\ State' = "returned" /\ Answer = NULL
      /\ UNCHANGED <<keys, call, console>>
      /\ RightAnswer'
  <2>1. Returned'
    BY CodeStates
  <2> QED
    BY <2>1, CodeStates, ReturnedRightNext
<1>2. ~InsertRuns => Linked' = Linked
  OBVIOUS
<1>3. SearchRuns => Answer' = Oldest(With(call.key))
  <2>1. ASSUME SearchRuns PROVE ~InsertRuns
    BY <2>1, Zenon DEF SearchRuns, InsertRuns
  <2>2. ASSUME SearchRuns PROVE With(call.key)' = With(call.key)
    BY <1>1, <1>2, <2>1, <2>2, Zenon DEF With
  <2>3. ASSUME SearchRuns PROVE Answer' = Oldest(With(call.key)')
    <3>1. SearchRuns'
      BY <2>3, CodeStates
    <3> QED
      BY <1>1, <3>1, Zenon DEF RightAnswer, Oldest
  <2> QED
    BY <2>2, <2>3, Zenon
<1>4. CountRuns => Answer' = Cardinality(Linked)
  <2>1. ASSUME CountRuns PROVE ~InsertRuns /\ CountRuns'
    BY <2>1, CodeStates, Zenon DEF CountRuns, InsertRuns
  <2> QED
    BY <1>1, <1>2, <2>1, Zenon DEF RightAnswer
<1>5. InOrderRuns \/ PreOrderRuns => Len(console) = Cardinality(Linked)
  <2>1. ASSUME InOrderRuns \/ PreOrderRuns PROVE ~InsertRuns
    BY <2>1, Zenon DEF InOrderRuns, PreOrderRuns, InsertRuns
  <2>2. ASSUME InOrderRuns \/ PreOrderRuns PROVE InOrderRuns' \/ PreOrderRuns'
    BY <2>2, CodeStates
  <2> QED
    BY <1>1, <1>2, <2>1, <2>2, Zenon DEF RightAnswer
<1>6. InsertRuns => Answer' = Oldest(Linked')
  <2>1. ASSUME InsertRuns PROVE InsertRuns'
    BY <2>1, CodeStates
  <2> QED
    BY <1>1, <2>1, Zenon DEF RightAnswer, Oldest
<1>7. Answer' \in 0 .. Nodes
  BY <1>1, Zenon DEF RightAnswer
<1>8. Tree!Return(Answer')
  BY <1>1, <1>3, <1>4, <1>5, <1>6, DictionaryReturn
<1> QED
  BY <1>7, <1>8, Zenon

LEMMA CodeIsSilent ==
  ASSUME DictionaryInv, DictionaryInv', Code, console' = console, Size' = Size,
         pc' = Caller(4) => ~InsertRuns
  PROVE  (\E value \in 0 .. Nodes : Tree!Return(value)) \/ UNCHANGED Tree!vars
<1>1. Linked' = Linked
  <2>1. Linked = 1 .. Size
    BY LinkedIs DEF DictionaryInv
  <2> QED
    BY <2>1, LinkedIsNext
<1>2. CASE pc' = Caller(4)
  BY <1>1, <1>2, CodeReturns
<1>3. CASE pc' # Caller(4)
  <2>1. State' = State /\ Answer' = Answer /\ UNCHANGED <<keys, call>>
    BY <1>3, CodeStates
  <2> QED
    BY <1>1, <2>1, DictionaryStutter
<1> QED
  BY <1>2, <1>3

LEMMA PrintsNothing ==
  ASSUME \/ InitNode \/ Search \/ SearchReturns \/ SearchDescends
         \/ CountNothing \/ CountLeft \/ CountRight \/ CountReturns
         \/ TraverseNothing \/ InOrderLeft \/ PreOrderRight \/ TraversalReturns
         \/ InsertHere \/ InsertBelow \/ InsertReturns
  PROVE  Code /\ console' = console
<1>1. console' = console
  BY DEF InitNode, Search, SearchReturns, SearchDescends, CountNothing, CountLeft, CountRight,
         CountReturns, TraverseNothing, InOrderLeft, PreOrderRight, TraversalReturns,
         InsertHere, InsertBelow, InsertReturns
<1>2. Code
  BY Zenon DEF Code
<1> QED
  BY <1>1, <1>2

\* The search, the count and the traversals, where they do not print.
LEMMA ReadingIsSilent ==
  ASSUME DictionaryInv, DictionaryInv',
         \/ Search \/ SearchReturns \/ SearchDescends
         \/ CountNothing \/ CountLeft \/ CountRight \/ CountReturns
         \/ TraverseNothing \/ InOrderLeft \/ PreOrderRight \/ TraversalReturns
  PROVE  (\E value \in 0 .. Nodes : Tree!Return(value)) \/ UNCHANGED Tree!vars
<1>1. Code /\ console' = console
  BY PrintsNothing
<1>2. Size' = Size
  BY SameSize DEF DictionaryInv, TreeInv
<1>3. ~InsertRuns
  <2>1. InFunction
    BY DEF DictionaryInv, TreeInv, Control
  <2>2. pc \notin {Caller(4), bst_insert} \cup AfterInsert
    BY Labels, SMT
    DEF AfterInsert, Search, SearchReturns, SearchDescends, CountNothing, CountLeft, CountRight,
        CountReturns, TraverseNothing, InOrderLeft, PreOrderRight, TraversalReturns
  <2>3. InsertRuns => pc \in {Caller(4), bst_insert} \cup AfterInsert
    <3>1. Runs(pc, call.fn)
      BY <2>1, RunsInFunction
    <3>2. InsertRuns => call.fn = "insert"
      BY Zenon DEF InsertRuns
    <3> QED
      BY <3>1, <3>2, RunsWhere, Zenon
  <2> QED
    BY <2>2, <2>3
<1> QED
  BY <1>1, <1>2, <1>3, CodeIsSilent

LEMMA InitNodeIsSilent ==
  ASSUME DictionaryInv, DictionaryInv', InitNode
  PROVE  (\E value \in 0 .. Nodes : Tree!Return(value)) \/ UNCHANGED Tree!vars
<1>1. Code /\ console' = console
  BY PrintsNothing
<1>2. Size' = Size
  BY InitNodeTree DEF DictionaryInv, TreeInv
<1>3. pc' # Caller(4)
  BY Labels DEF InitNode
<1> QED
  BY <1>1, <1>2, <1>3, CodeIsSilent

LEMMA RunsTraversal ==
  ASSUME Runs(pc, call.fn),
         pc \in {bst_in_order_traversal, bst_pre_order_traversal} \cup AfterInOrder
  PROVE  InOrderRuns \/ PreOrderRuns
<1>1. /\ pc \notin {bst_init_node, bst_search, LOOP_BSTSEARCH} /\ pc # Caller(4)
      /\ pc \notin {bst_count} \cup AfterCount
      /\ pc \notin {bst_insert} \cup AfterInsert
  BY Labels DEF AfterInOrder, AfterCount, AfterInsert
<1> QED
  BY <1>1, Zenon DEF Runs, InOrderRuns, PreOrderRuns

\* The word that a traversal prints.
LEMMA PrintedWord ==
  ASSUME Control, InOrderRight \/ PreOrderLeft
  PROVE  \E k \in Int : console' = Append(console, k)
<1>1. CASE InOrderRight
  <2>1. pc = AfterInOrderLeft /\ console' = Append(console, stack[3])
    BY <1>1, Offsets, Zenon DEF InOrderRight
  <2>2. stack[3] \in Int
    BY <2>1, FrameOfTraversal DEF AfterInOrder
  <2> QED
    BY <2>1, <2>2
<1>2. CASE PreOrderLeft
  <2>1. /\ pc = bst_pre_order_traversal /\ regs.a0 # NULL
        /\ console' = Append(console, memory[regs.a0].key)
    BY <1>2, Zenon DEF PreOrderLeft
  <2>2. regs.a0 \in Node
    BY <2>1, Labels, NodesAssumption DEF Control, Operands, Link, Node, NULL
  <2> QED
    BY <2>1, <2>2, Types DEF Control
<1> QED
  BY <1>1, <1>2
-----------------------------------------------------------------------------
(* What is printed. *)

LEMMA PrintedInOrder ==
  ASSUME DictionaryInv, DictionaryInv', Code, InOrderRuns \/ PreOrderRuns,
         pc # bst_init_node, pc' # Caller(4), UNCHANGED <<memory, root>>, Size' = Size,
         NEW k \in Int, console' = Append(console, k),
         NEW inOrder, NEW order, IsOrder(order, memory', Size', inOrder), Traverses(order)',
         InOrderRuns => LeftFirst(inOrder)
  PROVE  k \in Keys /\ Tree!PrintKey(k)
<1>1. TreeInv /\ Recorded /\ TypeOK'
  BY DEF DictionaryInv, TreeInv, Control
<1>2. root \in 0 .. Size
  BY <1>1, RootIsThere
<1>3. stack' \in Seq(Int)
  BY <1>1 DEF TypeOK
<1>4. IsOrder(order, memory, Size, inOrder) /\ NextKey(order, k)
  BY <1>1, <1>2, <1>3, PrintedIsNext
<1>6. MayPrint(inOrder, k)
  BY <1>1, <1>4, KeyMayBePrinted
<1>7. Linked' = Linked
  <2>1. Linked = 1 .. Size
    BY <1>1, LinkedIs
  <2> QED
    BY <2>1, LinkedIsNext
<1>8. /\ State = "running" /\ State' = "running" /\ Answer = NULL /\ Answer' = NULL
      /\ UNCHANGED <<keys, call>>
  BY CodeStates
<1>9. /\ Cardinality({i \in DOMAIN console : console[i] = k}) < Cardinality(With(k))
      /\ InOrderRuns => \A j \in Keys : j < k =>
           Cardinality({i \in DOMAIN console : console[i] = j}) = Cardinality(With(j))
  BY <1>6, Zenon DEF MayPrint, PrintedOf
<1> QED
  BY <1>6, <1>7, <1>8, <1>9, DictionaryPrint DEF MayPrint

LEMMA Prints ==
  ASSUME DictionaryInv, DictionaryInv', InOrderRight \/ PreOrderLeft
  PROVE  \E k \in Keys : Tree!PrintKey(k)
<1>1. TreeInv /\ Control /\ Control' /\ TypeOK /\ InFunction /\ TraversalInv' /\ Code
  BY Zenon DEF DictionaryInv, TreeInv, Control, Code
<1>2. UNCHANGED <<memory, root>> /\ Size' = Size
  BY <1>1, SameSize
<1>3. /\ pc # bst_init_node /\ pc' # Caller(4)
      /\ pc \in {bst_in_order_traversal, bst_pre_order_traversal} \cup AfterInOrder
  BY Labels DEF InOrderRight, PreOrderLeft, Jal, AfterInOrder
<1>4. InOrderRuns \/ PreOrderRuns
  <2>1. Runs(pc, call.fn)
    BY <1>1, RunsInFunction
  <2> QED
    BY <1>3, <2>1, RunsTraversal
<1>5. PICK k \in Int : console' = Append(console, k)
  BY <1>1, PrintedWord
<1>6. CASE InOrderRuns
  <2>1. InOrderRuns'
    BY <1>1, <1>6, CodeStates
  <2>2. PICK inOrder, order : /\ IsOrder(order, memory', Size', inOrder) /\ Traverses(order)'
                              /\ LeftFirst(inOrder)
    <3>1. \E order : IsOrder(order, memory', Size', TRUE) /\ Traverses(order)'
      BY <1>1, <2>1, Zenon DEF TraversalInv
    <3> QED
      BY <3>1, Zenon DEF LeftFirst, Visit
  <2> QED
    BY <1>1, <1>2, <1>3, <1>4, <1>5, <2>2, PrintedInOrder
<1>7. CASE PreOrderRuns
  <2>1. PreOrderRuns' /\ ~InOrderRuns
    BY <1>1, <1>7, CodeStates, TraversalRuns
  <2>2. PICK inOrder, order : IsOrder(order, memory', Size', inOrder) /\ Traverses(order)'
    BY <1>1, <2>1, Zenon DEF TraversalInv
  <2> QED
    BY <1>1, <1>2, <1>3, <1>4, <1>5, <2>1, <2>2, PrintedInOrder
<1> QED
  BY <1>4, <1>6, <1>7
-----------------------------------------------------------------------------
(* The insertion. *)

\* Until the last call returns the new node, nothing is linked to it.
LEMMA InsertHereSeen ==
  ASSUME DictionaryInv, DictionaryInv', InsertHere
  PROVE  (\E value \in 0 .. Nodes : Tree!Return(value)) \/ UNCHANGED Tree!vars
<1>1. Code /\ console' = console /\ TreeInv /\ Control'
  BY PrintsNothing DEF DictionaryInv, TreeInv
<1>2. CASE pc' # Caller(4) /\ Size' = Size
  BY <1>1, <1>2, CodeIsSilent
<1>3. CASE pc' = Caller(4) /\ Size = 0 /\ call.node = 1 /\ Size' = 1
  <2>1. Linked = {} /\ Linked' = {1}
    <3>1. Linked = 1 .. 0 /\ Linked' = 1 .. 1
      BY <1>1, <1>3, LinkedIs, LinkedIsNext
    <3> QED
      BY <3>1, SMT
  <2>2. InsertRuns
    BY <1>1, InsertState, Zenon DEF InsertRuns, InsertHere
  <2>3. Linked' = IF InsertRuns THEN Linked \cup {call.node} ELSE Linked
    BY <1>3, <2>1, <2>2, Zenon
  <2> QED
    BY <1>1, <1>3, <2>3, CodeReturns
<1> QED
  BY <1>1, <1>2, <1>3, InsertHereTree

LEMMA InsertBelowSeen ==
  ASSUME DictionaryInv, DictionaryInv', InsertBelow
  PROVE  (\E value \in 0 .. Nodes : Tree!Return(value)) \/ UNCHANGED Tree!vars
<1>1. Code /\ console' = console /\ TreeInv /\ Control'
  BY PrintsNothing DEF DictionaryInv, TreeInv
<1> QED
  BY <1>1, InsertBelowTree, CodeIsSilent

\* The first return links the new node, the others write what is there.
LEMMA InsertReturnsSeen ==
  ASSUME DictionaryInv, DictionaryInv', InsertReturns
  PROVE  (\E value \in 0 .. Nodes : Tree!Return(value)) \/ Tree!Insert
<1>1. Code /\ console' = console /\ TreeInv /\ Control'
  BY PrintsNothing DEF DictionaryInv, TreeInv
<1>2. pc \in {bst_insert} \cup AfterInsert
  BY Zenon DEF InsertReturns, AfterInsert
<1>3. InsertRuns /\ call.node = Len(keys) /\ Len(keys) \in Nat /\ Len(keys) # 0
      /\ Size \in {Len(keys) - 1, Len(keys)} /\ Size \in Nat
  <2>1. call.fn = "insert"
    BY <1>1, <1>2, InsertState
  <2>2. InsertRuns
    BY <2>1, Zenon DEF InsertRuns
  <2>3. /\ call.node = Len(keys) /\ call.node \in Node /\ Size \in Nat
        /\ Size \in {Len(keys) - 1, Len(keys)}
    BY <1>1, <1>2, InsertState
  <2>4. Len(keys) \in Nat /\ Len(keys) # 0
    BY <2>3, NodesAssumption, SMT DEF Node
  <2> QED
    BY <2>2, <2>3, <2>4
<1>4. Linked' = Linked \cup {call.node}
  <2>1. Linked = 1 .. Size /\ Linked' = 1 .. Len(keys)
    BY <1>1, LinkedIs, LinkedIsNext, InsertReturnsTree
  <2> DEFINE m == Len(keys)
             s == Size
  <2>2. Linked = 1 .. s /\ Linked' = 1 .. m /\ m \in Nat /\ m # 0 /\ s \in {m - 1, m}
    BY <1>3, <2>1
  <2> HIDE DEF m, s
  <2>3. Linked' = Linked \cup {m}
    BY <2>2, SMT
  <2> QED
    BY <1>3, <2>3 DEF m
<1>5. CASE pc' = Caller(4)
  BY <1>1, <1>3, <1>4, <1>5, CodeReturns
<1>6. CASE pc' # Caller(4)
  BY <1>1, <1>3, <1>4, <1>6, CodeStates, DictionaryInsert
<1> QED
  BY <1>5, <1>6

-----------------------------------------------------------------------------
(* The calls. *)

LEMMA ResumeSeen ==
  ASSUME DictionaryInv, DictionaryInv', Resume
  PROVE  Tree!Resume
<1>1. InFunction /\ InFunction' /\ TreeInv
  BY DEF DictionaryInv, TreeInv, Control
<1>2. /\ pc = Caller(4) /\ call # NoCall /\ call' = NoCall
      /\ UNCHANGED <<pc, console, memory, keys>>
      /\ root' = IF call.fn = "insert" THEN regs.v0 ELSE root
  BY Zenon DEF Resume
<1>3. State = "returned" /\ Returned
  BY <1>1, <1>2, StateOf, Zenon DEF StateIs
<1>4. State' = "idle" /\ Answer' = NULL
  <2>1. call' = NoCall'
    BY <1>2, Zenon DEF NoCall
  <2>2. State' = "idle" /\ Answer' = NULL'
    BY <1>1, <2>1, StateOfNext, Zenon DEF StateIs
  <2> QED
    BY <2>2, Zenon DEF NULL
<1>5. Root' = Root
  <2>1. Root' = root'
    BY <1>2, RootOfCaller
  <2> QED
    BY <1>2, <1>3, <2>1, Zenon DEF Root
<1>6. Linked' = Linked
  <2>1. IsTree
    BY <1>1 DEF TreeInv
  <2>2. Size' = Size
    BY <1>2, <1>5, <2>1, SameTree
  <2>3. Linked = 1 .. Size
    BY <1>1, LinkedIs
  <2> QED
    BY <2>2, <2>3, LinkedIsNext
<1> QED
  BY <1>2, <1>3, <1>4, <1>6, DictionaryResume

LEMMA StutterSeen ==
  ASSUME DictionaryInv, DictionaryInv', UNCHANGED vars
  PROVE  UNCHANGED Tree!vars
<1>1. TreeInv
  BY DEF DictionaryInv
<1>2. /\ regs' = regs /\ console' = console /\ keys' = keys /\ call' = call
      /\ (Returned' <=> Returned) /\ Size' = Size
  BY <1>1, Stutter
<1>3. Linked' = Linked
  BY <1>1, <1>2, LinkedIs, LinkedIsNext
<1>4. State' = State /\ Answer' = Answer
  BY <1>2, Zenon DEF State, Answer, NoCall, NULL
<1> QED
  BY <1>2, <1>3, <1>4, DictionaryStutter
LEMMA SizeAtCall ==
  ASSUME TreeInv, TreeInv', pc = Caller(4), UNCHANGED <<memory, root>>,
         Root = root, Root' = root,
         keys' = keys \/ (keys' = Append(keys, call'.key) /\ Size = Len(keys) /\ Len(keys) < Nodes)
  PROVE  Size' = Size
<1>1. /\ IsTree /\ root = First(Size) /\ memory \in [Node -> BSTNode]
      /\ Size \in Nat /\ Shape(memory, Size)
      /\ keys \in Seq(Keys) /\ Len(keys) \in Nat
  <2>1. IsTree /\ root = First(Size) /\ TypeOK
    BY DEF TreeInv, IsTree, Control
  <2>2. keys \in Seq(Keys) /\ Len(keys) \in Nat
    BY <2>1, LenProperties DEF TypeOK
  <2> QED
    BY <2>1, <2>2, SearchFacts
<1>2. CASE keys' = keys
  BY <1>1, <1>2, SameTree
<1>3. CASE keys' = Append(keys, call'.key) /\ Size = Len(keys) /\ Len(keys) < Nodes
  <2>1. Len(keys') = Len(keys) + 1
    BY <1>1, <1>3, AppendProperties
  <2>2. Len(keys') \in 0 .. Nodes /\ Size = Len(keys') - 1
    BY <1>1, <1>3, <2>1, NodesAssumption, SMT
  <2>3. SizeOf(memory, First(Size), Len(keys')) = Size
    BY <1>1, <2>2, SizeOfShape
  <2> QED
    BY <1>1, <2>3, Zenon DEF Size
<1> QED
  BY <1>2, <1>3

LEMMA EntryLabels ==
  /\ bst_init_node # Caller(4) /\ bst_search # Caller(4) /\ bst_count # Caller(4)
  /\ bst_in_order_traversal # Caller(4) /\ bst_pre_order_traversal # Caller(4)
  /\ bst_insert # Caller(4)
BY Labels

LEMMA SameRange == ASSUME NEW s \in Nat, NEW m \in Nat, 1 .. s = 1 .. m PROVE s = m
<1>1. (s = 0 \/ s \in 1 .. s) /\ (m = 0 \/ m \in 1 .. m)
  BY SMT
<1>2. (s = 0 \/ s \in 1 .. m) /\ (m = 0 \/ m \in 1 .. s)
  BY <1>1, Zenon
<1> QED
  BY <1>2, SMT

LEMMA NextNode ==
  ASSUME NEW count \in Nat
  PROVE  /\ count # 0 => count \in 1 .. count
         /\ count < Nodes => count + 1 \in 0 .. Nodes
BY NodesAssumption, SMT

LEMMA FunctionsAreCode ==
  ASSUME NEW fn \in {"init", "search", "count", "in order", "pre order", "insert"}
  PROVE  Function(fn) # Caller(4) /\ Function(fn) # Caller(4)'
<1>3. Caller(4)' = Caller(4)
  BY DEF Caller, Line
<1>2. /\ fn = "init" => Function(fn) = bst_init_node
      /\ fn = "search" => Function(fn) = bst_search
      /\ fn = "count" => Function(fn) = bst_count
      /\ fn = "in order" => Function(fn) = bst_in_order_traversal
      /\ fn = "pre order" => Function(fn) = bst_pre_order_traversal
      /\ fn = "insert" => Function(fn) = bst_insert
  BY DEF Function
<1> QED
  BY EntryLabels, <1>2, <1>3, Zenon

LEMMA CallSeen ==
  ASSUME DictionaryInv, DictionaryInv',
         NEW fn \in {"init", "search", "count", "in order", "pre order", "insert"},
         NEW a0, NEW a1, NEW node \in 0 .. Nodes, NEW key \in Keys,
         Invoke(fn, a0, a1, node, key), Size' = Size,
         InitRuns' => node = Len(keys) + 1,
         InsertRuns' => node \in DOMAIN keys \ Linked,
         keys' = IF InitRuns' THEN Append(keys, key) ELSE keys
  PROVE  \E c \in Tree!Calls : Tree!Start(c)
<1>1. TreeInv /\ InFunction /\ InFunction' /\ Control
  BY DEF DictionaryInv, TreeInv, Control
<1>2. /\ call = NoCall /\ console' = << >> /\ pc' = Function(fn)
      /\ call' = [fn |-> fn, node |-> node, key |-> key]
  BY <1>1, Invoked
<1>3. call'.fn = fn /\ call'.node = node /\ call'.key = key /\ call' \in Tree!Calls
  BY <1>2, Zenon DEF Tree!Calls
<1>4. State = "idle" /\ Answer = NULL
  BY <1>1, <1>2, StateOf, Zenon DEF StateIs
<1>5. State' = "running" /\ Answer' = NULL
  <2>1. pc' # Caller(4)'
    BY <1>2, FunctionsAreCode
  <2>2. StateIs'
    BY <1>1, StateOfNext
  <2>3. Answer' = NULL' /\ State' = "running"
    BY <2>1, <2>2, Zenon DEF StateIs
  <2> QED
    BY <2>3, Zenon DEF NULL
<1>6. Linked' = Linked
  BY <1>1, LinkedIs, LinkedIsNext
<1>7. call'.fn # "none"
  BY <1>3
<1>8. /\ InitRuns' => call'.node = Len(keys) + 1
      /\ InsertRuns' => call'.node \in DOMAIN keys \ Linked
      /\ keys' = IF InitRuns' THEN Append(keys, call'.key) ELSE keys
  BY <1>3, Zenon
<1>9. Tree!Start(call')
  BY <1>2, <1>4, <1>5, <1>6, <1>7, <1>8, DictionaryStart
<1> QED
  BY <1>3, <1>9, Zenon
LEMMA CallRuns ==
  ASSUME DictionaryInv,
         NEW fn \in {"init", "search", "count", "in order", "pre order", "insert"},
         NEW a0, NEW a1, NEW node, NEW key, Invoke(fn, a0, a1, node, key)
  PROVE  /\ pc = Caller(4) /\ UNCHANGED <<memory, root>>
         /\ call'.fn = fn /\ call'.node = node /\ call'.key = key
         /\ Root = root /\ Root' = root
<1>1. TreeInv
  BY DEF DictionaryInv
<1>2. /\ pc = Caller(4) /\ UNCHANGED <<memory, root>> /\ pc' = Function(fn) /\ Root = root
      /\ call' = [fn |-> fn, node |-> node, key |-> key]
  BY <1>1, Invoked
<1>3. pc' # Caller(4)
  BY <1>2, FunctionsAreCode
<1> QED
  BY <1>2, <1>3, RootOfCaller

\* A call with the nodes that there are.
LEMMA LookSeen ==
  ASSUME DictionaryInv, DictionaryInv',
         NEW fn \in {"search", "count", "in order", "pre order", "insert"},
         NEW a0, NEW a1, NEW node \in 0 .. Nodes, NEW key \in Keys,
         Invoke(fn, a0, a1, node, key), keys' = keys,
         fn = "insert" => node \in DOMAIN keys \ Linked
  PROVE  \E c \in Tree!Calls : Tree!Start(c)
<1>1. fn \in {"init", "search", "count", "in order", "pre order", "insert"}
  BY Zenon
<1>2. /\ pc = Caller(4) /\ UNCHANGED <<memory, root>> /\ call'.fn = fn
      /\ Root = root /\ Root' = root
  BY <1>1, CallRuns
<1>3. Size' = Size
  BY <1>2, SizeAtCall DEF DictionaryInv
<1>4. ~InitRuns'
  BY <1>2, Zenon DEF InitRuns
<1>5. InsertRuns' => node \in DOMAIN keys \ Linked
  BY <1>2, Zenon DEF InsertRuns
<1>6. /\ InitRuns' => node = Len(keys) + 1
      /\ keys' = IF InitRuns' THEN Append(keys, key) ELSE keys
  BY <1>4, Zenon
<1> QED
  BY <1>1, <1>3, <1>5, <1>6, CallSeen

LEMMA InitSeen ==
  ASSUME DictionaryInv, DictionaryInv', NEW key \in Keys, CallInit(key)
  PROVE  \E c \in Tree!Calls : Tree!Start(c)
<1>1. /\ Len(keys) < Nodes /\ Linked = DOMAIN keys /\ keys' = Append(keys, key)
      /\ Invoke("init", Len(keys) + 1, key, Len(keys) + 1, key)
  BY Zenon DEF CallInit
<1>2. PICK fn \in {"init", "search", "count", "in order", "pre order", "insert"} : fn = "init"
  BY Zenon
<1> DEFINE node == Len(keys) + 1
<1>3. Invoke(fn, node, key, node, key)
  BY <1>1, <1>2, Zenon
<1>4. /\ pc = Caller(4) /\ UNCHANGED <<memory, root>> /\ call'.fn = fn /\ call'.key = key
      /\ Root = root /\ Root' = root
  BY <1>3, CallRuns
<1>5. InitRuns' /\ ~InsertRuns'
  BY <1>2, <1>4, Zenon DEF InitRuns, InsertRuns
<1>6. Len(keys) \in Nat /\ Size = Len(keys)
  <2>1. keys \in Seq(Keys)
    BY DEF DictionaryInv, TreeInv, Control, TypeOK
  <2>2. Len(keys) \in Nat /\ DOMAIN keys = 1 .. Len(keys)
    BY <2>1, LenProperties
  <2>3. 1 .. Size = 1 .. Len(keys) /\ Size \in Nat
    BY <1>1, <2>2, LinkedIs DEF DictionaryInv
  <2> QED
    BY <2>2, <2>3, SameRange
<1>7. Size' = Size
  <2>1. keys' = Append(keys, call'.key) /\ Size = Len(keys) /\ Len(keys) < Nodes
    BY <1>1, <1>4, <1>6
  <2> QED
    BY <1>4, <2>1, SizeAtCall DEF DictionaryInv
<1>8. node \in 0 .. Nodes
  BY <1>1, <1>6, NextNode
<1>9. /\ InitRuns' => node = Len(keys) + 1
      /\ InsertRuns' => node \in DOMAIN keys \ Linked
      /\ keys' = IF InitRuns' THEN Append(keys, key) ELSE keys
  BY <1>1, <1>5, Zenon
<1> HIDE DEF node
<1> QED
  BY <1>3, <1>7, <1>8, <1>9, CallSeen

LEMMA TestSeen ==
  ASSUME DictionaryInv, DictionaryInv', TestStep
  PROVE  (\E c \in Tree!Calls : Tree!Start(c)) \/ Tree!Resume
<1>1. NULL \in 0 .. Nodes /\ NoCall.key \in Keys
  BY NoCallType, NodesAssumption, SMT DEF NULL
<1>2. ASSUME NEW key \in Keys, CallInit(key) PROVE \E c \in Tree!Calls : Tree!Start(c)
  BY <1>2, InitSeen
<1>3. ASSUME NEW key \in Keys, CallSearch(key) PROVE \E c \in Tree!Calls : Tree!Start(c)
  <2>1. keys' = keys /\ Invoke("search", root, key, NULL, key)
    BY <1>3, Zenon DEF CallSearch
  <2>2. PICK fn \in {"search", "count", "in order", "pre order", "insert"} :
          fn = "search" /\ fn # "insert"
    BY Zenon
  <2>3. Invoke(fn, root, key, NULL, key)
    BY <2>1, <2>2, Zenon
  <2> QED
    BY <1>1, <2>1, <2>2, <2>3, LookSeen
<1>4. ASSUME CallInsert PROVE \E c \in Tree!Calls : Tree!Start(c)
  <2>1. /\ keys' = keys /\ Len(keys) \notin Linked \cup {0}
        /\ Invoke("insert", root, Len(keys), Len(keys), NoCall.key)
    BY <1>4, Zenon DEF CallInsert
  <2>2. PICK fn \in {"search", "count", "in order", "pre order", "insert"} : fn = "insert"
    BY Zenon
  <2>3. Invoke(fn, root, Len(keys), Len(keys), NoCall.key)
    BY <2>1, <2>2, Zenon
  <2>4. Len(keys) \in 0 .. Nodes /\ Len(keys) \in DOMAIN keys \ Linked
    <3>1. TypeOK
      BY DEF DictionaryInv, TreeInv, Control
    <3>2. Len(keys) \in 0 .. Nodes
      BY <3>1, CountType
    <3>3. DOMAIN keys = 1 .. Len(keys) /\ Len(keys) \in Nat
      BY <3>1, LenProperties DEF TypeOK
    <3>4. Len(keys) \in 1 .. Len(keys)
      BY <2>1, <3>3, NextNode, Zenon
    <3> QED
      BY <2>1, <3>2, <3>3, <3>4
  <2> QED
    BY <1>1, <2>1, <2>3, <2>4, LookSeen
<1>5. ASSUME NEW fn \in {"count", "in order", "pre order"}, CallOnTree(fn)
      PROVE  \E c \in Tree!Calls : Tree!Start(c)
  <2>1. keys' = keys /\ Invoke(fn, root, Junk, NULL, NoCall.key)
    BY <1>5, Zenon DEF CallOnTree
  <2>2. fn \in {"search", "count", "in order", "pre order", "insert"} /\ fn # "insert"
    BY Zenon
  <2> QED
    BY <1>1, <2>1, <2>2, LookSeen
<1> QED
  BY <1>2, <1>3, <1>4, <1>5, ResumeSeen, Zenon DEF TestStep
LEMMA StepsSeen ==
  ASSUME DictionaryInv, DictionaryInv', [Next]_vars
  PROVE  [Tree!Next]_Tree!vars
<1>1. CASE Code
  <2>1. ASSUME InitNode PROVE [Tree!Next]_Tree!vars
    BY <2>1, InitNodeIsSilent, Zenon DEF Tree!Next
  <2>2. ASSUME \/ Search \/ SearchReturns \/ SearchDescends
               \/ CountNothing \/ CountLeft \/ CountRight \/ CountReturns
               \/ TraverseNothing \/ InOrderLeft \/ PreOrderRight \/ TraversalReturns
        PROVE  [Tree!Next]_Tree!vars
    BY <2>2, ReadingIsSilent, Zenon DEF Tree!Next
  <2>3. ASSUME InOrderRight \/ PreOrderLeft PROVE [Tree!Next]_Tree!vars
    BY <2>3, Prints, Zenon DEF Tree!Next
  <2>4. ASSUME InsertHere PROVE [Tree!Next]_Tree!vars
    BY <2>4, InsertHereSeen, Zenon DEF Tree!Next
  <2>5. ASSUME InsertBelow PROVE [Tree!Next]_Tree!vars
    BY <2>5, InsertBelowSeen, Zenon DEF Tree!Next
  <2>6. ASSUME InsertReturns PROVE [Tree!Next]_Tree!vars
    BY <2>6, InsertReturnsSeen, Zenon DEF Tree!Next
  <2> QED
    BY <1>1, <2>1, <2>2, <2>3, <2>4, <2>5, <2>6, Zenon DEF Code
<1>2. CASE TestStep
  BY <1>2, TestSeen, Zenon DEF Tree!Next
<1>3. CASE UNCHANGED vars
  BY <1>3, StutterSeen, Zenon
<1> QED
  BY <1>1, <1>2, <1>3, Zenon DEF Next, TestStep

LEMMA InitSeenIdle == Init /\ DictionaryInv => Tree!Init
<1> SUFFICES ASSUME Init, DictionaryInv PROVE Tree!Init
  OBVIOUS
<1>1. /\ keys = << >> /\ call = NoCall /\ console = << >> /\ root = NULL
  BY Zenon DEF Init
<1>2. TreeInv /\ InFunction
  BY DEF DictionaryInv, TreeInv, Control
<1>3. State = "idle" /\ Answer = NULL
  BY <1>1, <1>2, StateOf, Zenon DEF StateIs
<1>4. Linked = {}
  <2>1. Len(keys) = 0
    BY <1>1, EmptySeq
  <2>2. \A n \in Linked : n \in 1 .. 0
    BY <1>2, <2>1, LinkedIs
  <2>3. 1 .. 0 = {}
    BY SMT
  <2> QED
    BY <2>2, <2>3
<1> QED
  BY <1>1, <1>3, <1>4, Zenon DEF State, Answer, Tree!Init, Tree!Idle, NoCall, Tree!NULL, NULL

\* asm4.s implements the dictionary: whatever keys are inserted in whatever order, a
\* search returns the oldest node with the key it is given, or NULL if there is none,
\* the count is the number of nodes, the traversals print every key once per node with
\* it, the in-order one no key before a smaller one, and an insertion adds its
\* node and nothing else, at one step, and returns the root.
THEOREM TreeImplementsDictionary == Spec => Implements
<1>1. Init /\ DictionaryInv => Tree!Init
  BY InitSeenIdle
<1>2. DictionaryInv /\ DictionaryInv' /\ [Next]_vars => [Tree!Next]_Tree!vars
  BY StepsSeen
<1> QED
  BY <1>1, <1>2, DictionaryInvariant, PTL DEF Spec, Implements, Tree!Spec
=============================================================================
