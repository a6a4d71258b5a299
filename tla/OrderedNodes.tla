---------------------------- MODULE OrderedNodes ----------------------------
(***************************************************************************)
(* What the functions of asm4.s promise, without a tree: nodes with keys   *)
(* are inserted, and one call at a time asks for a node with a key, for    *)
(* the number of nodes or for the keys.  The caller takes the nodes 1, 2,  *)
(* ... in this order, so that of two nodes the lower one is the older one. *)
(***************************************************************************)
EXTENDS Integers, Sequences, FiniteSets

CONSTANTS
  Nodes,   \* how many nodes there are
  Keys     \* the keys a node may have

VARIABLES
  keys,      \* the key of each node that was initialised, in this order
  members,   \* the nodes that were inserted
  call,      \* the function in progress and its arguments
  state,     \* "idle", "running", "returned"
  answer,    \* what the function returned
  printed    \* the keys it printed

vars == <<keys, members, call, state, answer, printed>>

NULL == 0
Calls == [fn : {"none", "init", "search", "count", "in order", "pre order", "insert"},
          node : 0 .. Nodes, key : Keys]
Idle == [fn |-> "none", node |-> NULL, key |-> CHOOSE k \in Keys : TRUE]

Oldest(set) == IF set = {} THEN NULL
                           ELSE CHOOSE n \in set : \A m \in set : n <= m

With(k) == {n \in members : keys[n] = k}
Printed(k) == {i \in DOMAIN printed : printed[i] = k}

Init ==
  /\ keys = << >> /\ members = {}
  /\ call = Idle /\ state = "idle"
  /\ answer = NULL /\ printed = << >>

Start(c) ==
  /\ state = "idle"
  /\ c.fn # "none"
  /\ c.fn = "init" => c.node = Len(keys) + 1
  /\ c.fn = "insert" => c.node \in DOMAIN keys \ members
  /\ keys' = IF c.fn = "init" THEN Append(keys, c.key) ELSE keys
  /\ call' = c /\ state' = "running" /\ printed' = << >>
  /\ UNCHANGED <<members, answer>>

Insert ==
  /\ state = "running" /\ call.fn = "insert"
  /\ members' = members \cup {call.node}
  /\ UNCHANGED <<keys, call, state, answer, printed>>

\* A traversal prints every key as often as there are nodes with it; in order,
\* no key before a smaller one.
PrintKey(k) ==
  /\ state = "running" /\ call.fn \in {"in order", "pre order"}
  /\ Cardinality(Printed(k)) < Cardinality(With(k))
  /\ call.fn = "in order" =>
       \A j \in Keys : j < k => Cardinality(Printed(j)) = Cardinality(With(j))
  /\ printed' = Append(printed, k)
  /\ UNCHANGED <<keys, members, call, state, answer>>

\* An insertion that has not taken effect does so now, and returns the root
\* of the tree, the oldest member.
Return(value) ==
  /\ state = "running"
  /\ members' = IF call.fn = "insert" THEN members \cup {call.node} ELSE members
  /\ call.fn = "search" => value = Oldest(With(call.key))
  /\ call.fn = "count" => value = Cardinality(members)
  /\ call.fn \in {"in order", "pre order"} => Len(printed) = Cardinality(members)
  /\ call.fn = "insert" => value = Oldest(members')
  /\ state' = "returned"
  /\ answer' = value
  /\ UNCHANGED <<keys, call, printed>>

Resume ==
  /\ state = "returned"
  /\ state' = "idle" /\ call' = Idle /\ answer' = NULL
  /\ UNCHANGED <<keys, members, printed>>

Next ==
  \/ \E c \in Calls : Start(c)
  \/ Insert
  \/ \E k \in Keys : PrintKey(k)
  \/ \E value \in 0 .. Nodes : Return(value)
  \/ Resume

Spec == Init /\ [][Next]_vars
=============================================================================
