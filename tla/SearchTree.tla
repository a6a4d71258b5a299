----------------------------- MODULE SearchTree -----------------------------
(***************************************************************************)
(* The binary search tree of asm4.s, called as its tests call it: nodes    *)
(* are initialised and inserted one after the other, and between two       *)
(* insertions the tree is searched, counted and printed.                   *)
(***************************************************************************)
EXTENDS AssemblyMachine, FiniteSets

CONSTANTS
  Nodes,   \* the nodes are at the addresses 1 .. Nodes
  Keys     \* the keys the caller uses

ASSUME NodesAssumption == Nodes \in Nat \ {0}
ASSUME KeysAssumption == Keys \subseteq Int /\ Keys # {}

\* The memory holds the BSTNode structs: key, left, right.
VARIABLES
  root,     \* the tree, as the caller knows it
  keys,     \* the caller's record: the key it gave to each node
  call      \* the call in progress

vars == <<pc, regs, stack, console, memory, root, keys, call>>

NULL == 0
Node == 1 .. Nodes

\* The labels of asm4.s, and the lines after its jal instructions.
bst_init_node == Line(4, 34)
bst_search == Line(4, 62)
LOOP_BSTSEARCH == Line(4, 65)
bst_count == Line(4, 105)
AfterCountLeft == Line(4, 119)
AfterCountRight == Line(4, 135)
bst_in_order_traversal == Line(4, 166)
AfterInOrderLeft == Line(4, 184)
AfterInOrderRight == Line(4, 199)
bst_pre_order_traversal == Line(4, 222)
AfterPreOrderLeft == Line(4, 248)
AfterPreOrderRight == Line(4, 255)
bst_insert == Line(4, 284)
AfterInsertLeft == Line(4, 308)
AfterInsertRight == Line(4, 328)

\* $t0 is the search's cur; $t1 and $t3 hold the key and the right child in a
\* traversal.  No other temporary is read after a branch or a call.
NoRegs == [a0 |-> Junk, a1 |-> Junk, v0 |-> Junk, ra |-> Caller(4),
           t0 |-> Junk, t1 |-> Junk, t3 |-> Junk]

-----------------------------------------------------------------------------
(* bst_init_node, bst_search *)

\* There is no jr $ra: control falls into bst_search.
InitNode ==
  /\ pc = bst_init_node
  /\ memory' = [memory EXCEPT ![regs.a0] = [key |-> regs.a1, left |-> NULL, right |-> NULL]]
  /\ pc' = bst_search
  /\ UNCHANGED <<regs, stack, console, root, keys, call>>

Search ==
  /\ pc = bst_search
  /\ regs' = [regs EXCEPT !.t0 = regs.a0]
  /\ pc' = LOOP_BSTSEARCH
  /\ UNCHANGED <<stack, console, memory, root, keys, call>>

SearchReturns ==
  /\ pc = LOOP_BSTSEARCH
  /\ regs.t0 # NULL => memory[regs.t0].key = regs.a1
  /\ regs' = [regs EXCEPT !.v0 = regs.t0]
  /\ JrRa
  /\ UNCHANGED <<stack, console, memory, root, keys, call>>

\* Seeded fault: a greater key does not move to the right child.
StaysAtNode(cur, key) ==
  IF key < memory[cur].key THEN memory[cur].left ELSE cur

\* The child to go on with: left if key < cur->key, else right.
ChildTowards(cur, key) ==
  IF key < memory[cur].key THEN memory[cur].left ELSE memory[cur].right

SearchDescends ==
  /\ pc = LOOP_BSTSEARCH
  /\ regs.t0 # NULL /\ memory[regs.t0].key # regs.a1
  /\ regs' = [regs EXCEPT !.t0 = ChildTowards(regs.t0, regs.a1)]
  /\ UNCHANGED <<pc, stack, console, memory, root, keys, call>>

-----------------------------------------------------------------------------
(* bst_count *)

CountNothing ==
  /\ pc = bst_count /\ regs.a0 = NULL
  /\ regs' = [regs EXCEPT !.v0 = 0]
  /\ JrRa
  /\ UNCHANGED <<stack, console, memory, root, keys, call>>

CountLeft ==
  /\ pc = bst_count /\ regs.a0 # NULL
  /\ LET node == memory[regs.a0]
     IN  /\ stack' = Pushed(<<node.right, regs.a0, regs.ra>>)
         /\ Jal(bst_count, AfterCountLeft, [regs EXCEPT !.a0 = node.left])
  /\ UNCHANGED <<console, memory, root, keys, call>>

\* The frame is popped and a new one pushed, with the left count + 1.
CountRight ==
  /\ pc = AfterCountLeft
  /\ stack' = <<regs.v0 + 1, AtSP(4), AtSP(8)>> \o Popped(12)
  /\ Jal(bst_count, AfterCountRight, [regs EXCEPT !.a0 = AtSP(0)])
  /\ UNCHANGED <<console, memory, root, keys, call>>

CountReturns ==
  /\ pc = AfterCountRight
  /\ regs' = [regs EXCEPT !.v0 = AtSP(0) + regs.v0, !.a0 = AtSP(4), !.ra = AtSP(8)]
  /\ stack' = Popped(12)
  /\ JrRa
  /\ UNCHANGED <<console, memory, root, keys, call>>

-----------------------------------------------------------------------------
(* bst_in_order_traversal, bst_pre_order_traversal *)

\* Both traversals of NULL return at once.
TraverseNothing ==
  /\ pc \in {bst_in_order_traversal, bst_pre_order_traversal} /\ regs.a0 = NULL
  /\ pc' = regs.ra
  /\ UNCHANGED <<regs, stack, console, memory, root, keys, call>>

\* The frame: the right child, the left child, the key, the return address.
TraversalFrame(node) == <<node.right, node.left, node.key, regs.ra>>

InOrderLeft ==
  /\ pc = bst_in_order_traversal /\ regs.a0 # NULL
  /\ LET node == memory[regs.a0]
     IN  /\ stack' = Pushed(TraversalFrame(node))
         /\ Jal(bst_in_order_traversal, AfterInOrderLeft,
                [regs EXCEPT !.a0 = node.left, !.t1 = node.key,
                             !.t3 = node.right])
  /\ UNCHANGED <<console, memory, root, keys, call>>

\* Print the key, go on with the right child.
InOrderRight ==
  /\ pc = AfterInOrderLeft
  /\ console' = Append(console, AtSP(8))
  /\ Jal(bst_in_order_traversal, AfterInOrderRight,
         [regs EXCEPT !.a0 = AtSP(0), !.t1 = AtSP(8), !.t3 = AtSP(0)])
  /\ UNCHANGED <<stack, memory, root, keys, call>>

PreOrderLeft ==
  /\ pc = bst_pre_order_traversal /\ regs.a0 # NULL
  /\ LET node == memory[regs.a0]
     IN  /\ console' = Append(console, node.key)
         /\ stack' = Pushed(TraversalFrame(node))
         /\ Jal(bst_pre_order_traversal, AfterPreOrderLeft,
                [regs EXCEPT !.a0 = node.left, !.t1 = node.key,
                             !.t3 = node.right])
  /\ UNCHANGED <<memory, root, keys, call>>

\* Seeded fault: $t3 is taken to have survived the recursive call.
RightFromRegister == regs.t3

\* lw $t3, 0($sp): "Restore node->right (because of syscall)".
RightFromStack == AtSP(0)

PreOrderRight ==
  /\ pc = AfterPreOrderLeft
  /\ Jal(bst_pre_order_traversal, AfterPreOrderRight,
         [regs EXCEPT !.a0 = RightFromStack, !.t1 = AtSP(8), !.t3 = RightFromStack])
  /\ UNCHANGED <<stack, console, memory, root, keys, call>>

\* Seeded fault: the word of the left child is not given back.
TwelveBytes == 12

\* Size of a traversal's frame.
FrameBytes == 16

TraversalReturns ==
  /\ pc \in {AfterInOrderRight, AfterPreOrderRight}
  /\ regs' = [regs EXCEPT !.ra = AtSP(12)]
  /\ stack' = Popped(FrameBytes)
  /\ JrRa
  /\ UNCHANGED <<console, memory, root, keys, call>>

-----------------------------------------------------------------------------
(* bst_insert *)

InsertHere ==
  /\ pc = bst_insert /\ regs.a0 = NULL
  /\ regs' = [regs EXCEPT !.v0 = regs.a1]
  /\ JrRa
  /\ UNCHANGED <<stack, console, memory, root, keys, call>>

\* Seeded fault: equal keys go to the left.
EqualGoesLeft(new, old) == memory[new].key <= memory[old].key

\* newNode->key < root->key
GoesLeft(new, old) == memory[new].key < memory[old].key

InsertBelow ==
  /\ pc = bst_insert /\ regs.a0 # NULL
  /\ stack' = Pushed(<<regs.a1, regs.a0, regs.ra>>)
  /\ IF GoesLeft(regs.a1, regs.a0)
     THEN Jal(bst_insert, AfterInsertLeft, [regs EXCEPT !.a0 = memory[regs.a0].left])
     ELSE Jal(bst_insert, AfterInsertRight, [regs EXCEPT !.a0 = memory[regs.a0].right])
  /\ UNCHANGED <<console, memory, root, keys, call>>

\* lw $a0, 4($sp)
ParentFromStack == AtSP(4)

\* Seeded fault: what the recursion returned is returned on, not the root.
ReturnsNew(parent) == regs.v0

\* add $v0, $a0, $zero
ReturnsRoot(parent) == parent

\* Seeded fault: both recursions store their result as the left child.
LeftField(line) == "left"

\* sw $v0, 4($a0) after the one recursion, sw $v0, 8($a0) after the other.
ChildField(line) == IF line = AfterInsertLeft THEN "left" ELSE "right"

\* The child returned by the recursion is stored, the root returned.
InsertReturns ==
  /\ pc \in {AfterInsertLeft, AfterInsertRight}
  /\ LET parent == ParentFromStack
     IN  /\ memory' = [memory EXCEPT ![parent][ChildField(pc)] = regs.v0]
         /\ regs' = [regs EXCEPT !.v0 = ReturnsRoot(parent), !.a0 = parent, !.a1 = AtSP(0),
                                 !.ra = AtSP(8)]
  /\ stack' = Popped(12)
  /\ JrRa
  /\ UNCHANGED <<console, root, keys, call>>

-----------------------------------------------------------------------------
(* The caller: test_01_init.s to test_05_insert.s *)

NoCall == [fn |-> "none", node |-> NULL, key |-> CHOOSE k \in Keys : TRUE]

Children(n) == {memory[n].left, memory[n].right} \ {NULL}

\* The node n, if it is one, and all nodes below it.
From(n) ==
  LET within[depth \in 0 .. Nodes] ==
        IF depth = 0 THEN {n} \ {NULL}
        ELSE within[depth - 1] \cup UNION {Children(m) : m \in within[depth - 1]}
  IN  within[Nodes]

\* The tree, as the caller will know it when the call is over.
Returned == pc = Caller(4) /\ call # NoCall
Root == IF Returned /\ call.fn = "insert" THEN regs.v0 ELSE root
Linked == From(Root)

Function(fn) == CASE fn = "init" -> bst_init_node
                  [] fn = "search" -> bst_search
                  [] fn = "count" -> bst_count
                  [] fn = "in order" -> bst_in_order_traversal
                  [] fn = "pre order" -> bst_pre_order_traversal
                  [] fn = "insert" -> bst_insert

Invoke(fn, a0, a1, node, key) ==
  /\ pc = Caller(4) /\ call = NoCall
  /\ call' = [fn |-> fn, node |-> node, key |-> key]
  /\ Jal(Function(fn), Caller(4), [NoRegs EXCEPT !.a0 = a0, !.a1 = a1])
  /\ console' = << >>
  /\ UNCHANGED <<stack, memory, root>>

CallInit(key) ==
  /\ Len(keys) < Nodes /\ Linked = DOMAIN keys
  /\ keys' = Append(keys, key)
  /\ Invoke("init", Len(keys) + 1, key, Len(keys) + 1, key)

CallInsert ==
  /\ Len(keys) \notin Linked \cup {0}
  /\ Invoke("insert", root, Len(keys), Len(keys), NoCall.key)
  /\ UNCHANGED keys

CallSearch(key) ==
  /\ Invoke("search", root, key, NULL, key)
  /\ UNCHANGED keys

CallOnTree(fn) ==
  /\ Invoke(fn, root, Junk, NULL, NoCall.key)
  /\ UNCHANGED keys

\* root = bst_insert(root, node)
Resume ==
  /\ pc = Caller(4) /\ call # NoCall
  /\ root' = IF call.fn = "insert" THEN regs.v0 ELSE root
  /\ call' = NoCall
  /\ regs' = NoRegs
  /\ UNCHANGED <<pc, stack, console, memory, keys>>

-----------------------------------------------------------------------------

\* Memory that was not initialised may look like anything.
Init ==
  /\ pc = Caller(4) /\ regs = NoRegs /\ stack = << >> /\ console = << >>
  /\ memory = [n \in Node |-> [key |-> Junk, left |-> 1, right |-> 1]]
  /\ root = NULL /\ keys = << >> /\ call = NoCall

\* The instructions of asm4.s.
Code ==
  \/ InitNode \/ Search \/ SearchReturns \/ SearchDescends
  \/ CountNothing \/ CountLeft \/ CountRight \/ CountReturns
  \/ TraverseNothing \/ InOrderLeft \/ InOrderRight \/ PreOrderLeft \/ PreOrderRight
  \/ TraversalReturns
  \/ InsertHere \/ InsertBelow \/ InsertReturns

Next ==
  \/ Code
  \/ \E key \in Keys : CallInit(key) \/ CallSearch(key)
  \/ CallInsert
  \/ \E fn \in {"count", "in order", "pre order"} : CallOnTree(fn)
  \/ Resume

Spec == Init /\ [][Next]_vars

\* The processor goes on executing.
FairSpec == Spec /\ WF_vars(Code)

-----------------------------------------------------------------------------
(* Properties *)

Tree == INSTANCE OrderedNodes WITH
  members <- Linked,
  state <- IF call = NoCall THEN "idle" ELSE IF Returned THEN "returned" ELSE "running",
  answer <- IF Returned /\ call.fn \in {"search", "count", "insert"} THEN regs.v0 ELSE NULL,
  printed <- console

\* The functions do what the abstract dictionary allows: in particular a key
\* is found exactly if a node with it was inserted, and then the oldest such
\* node is returned; traversals print every key once per node.
Implements == Tree!Spec

\* In every state, also in the middle of an insertion, what hangs from the
\* root is a tree: no node has two parents, and smaller keys are on the left,
\* equal and greater ones on the right.
OrderedTree ==
  \A n \in Linked :
    LET left == memory[n].left
        right == memory[n].right
    IN  /\ Cardinality({m \in Linked : n \in Children(m)}) = IF n = Root THEN 0 ELSE 1
        /\ left # right \/ left = NULL
        /\ \A m \in From(left) : memory[m].key < memory[n].key
        /\ \A m \in From(right) : memory[m].key >= memory[n].key

\* An insertion changes one link in its lifetime at most, from NULL to the new
\* node, although every level of the recursion writes its link again; nothing
\* else changes a node that is in the tree.
OnlyALeafIsAdded ==
  [][\A n \in From(root) :
       memory'[n] # memory[n] =>
         /\ call.fn = "insert"
         /\ \/ /\ memory[n].left = NULL
               /\ memory'[n] = [memory[n] EXCEPT !.left = call.node]
            \/ /\ memory[n].right = NULL
               /\ memory'[n] = [memory[n] EXCEPT !.right = call.node]]_vars

\* The stack is given back: when a function returns to the caller the stack is
\* the caller's, with the caller's return address in $ra.
StackRestored == pc = Caller(4) => stack = << >> /\ regs.ra = Caller(4)

\* The keys of a node and of those below it, in the two orders.
InOrder[n \in Linked \cup {NULL}] ==
  IF n = NULL THEN << >>
  ELSE InOrder[memory[n].left] \o <<memory[n].key>> \o InOrder[memory[n].right]

PreOrder[n \in Linked \cup {NULL}] ==
  IF n = NULL THEN << >>
  ELSE <<memory[n].key>> \o PreOrder[memory[n].left] \o PreOrder[memory[n].right]

Traversal == IF call.fn = "in order" THEN InOrder[root] ELSE PreOrder[root]

\* The traversals follow the shape of the tree, not only its keys: what is
\* printed is at any time a prefix of the recursive definition, and all of it
\* at the end.
TraversalOrder ==
  call.fn \in {"in order", "pre order"} =>
    /\ Len(console) <= Len(Traversal)
    /\ console = SubSeq(Traversal, 1, Len(console))
    /\ Returned => console = Traversal

\* Every call returns, whatever the tree looks like.
CallsReturn == (pc # Caller(4)) ~> (pc = Caller(4))
=============================================================================
