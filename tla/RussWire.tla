------------------------------ MODULE RussWire ------------------------------
(***************************************************************************)
(* The wires of the Java simulators (RussWire.java) and the programs that  *)
(* drive them.  A wire is set once and may be read only after that; either *)
(* mistake throws an exception, which ends execute().  clockTick() forgets *)
(* all wires.                                                              *)
(*                                                                         *)
(* An execute() method is a sequence of statements: set a wire, or assign  *)
(* a local variable, to a Boolean function of what other wires and locals  *)
(* hold.  The order of the statements is the order of the code.            *)
(***************************************************************************)
EXTENDS Integers, SequencesExt

VARIABLES
  wires,       \* the values of the wires that are set (and of the locals)
  exception    \* "none", or what the IllegalArgumentException says

\* A device is named by the path of fields that leads to it, a wire by its
\* device, its field there and its index in the field's array.
Part(device, field, i) == Append(device, <<field, i>>)
Pins(device, field, i) == [device |-> device, field |-> field, index |-> i]
Pin(device, field) == Pins(device, field, 0)

\* to.set(f[from...]), with a get() of every wire read.  && and || skip a
\* get() that cannot matter; here all are done, so that the model throws
\* whenever the code does.
Set(to, from, f) == [to |-> to, from |-> from, f |-> f, local |-> FALSE]
Let(to, from, f) == [to |-> to, from |-> from, f |-> f, local |-> TRUE]

Inputs(n) == [1 .. n -> BOOLEAN]
Same == [v \in Inputs(1) |-> v[1]]
Constant(b) == [v \in Inputs(0) |-> b]
Copy(from, to) == Set(to, <<from>>, Same)

\* One statement.
Step(s, statement) ==
  LET operands == [i \in DOMAIN statement.from |-> s.wires[statement.from[i]]]
  IN  CASE Range(statement.from) \ DOMAIN s.wires # {} ->
             [s EXCEPT !.exception = "read before it had been set"]
        [] statement.to \in DOMAIN s.wires /\ ~ statement.local ->
             [s EXCEPT !.exception = "set multiple times"]
        [] OTHER -> [s EXCEPT !.wires = (statement.to :> statement.f[operands]) @@ @]

\* The statements of a method, in order: the first half, then the rest unless
\* an exception was thrown.
RECURSIVE Executed(_, _)
Executed(s, statements) ==
  LET n == Len(statements)
      half == Executed(s, SubSeq(statements, 1, n \div 2))
  IN  CASE n = 0 -> s
        [] n = 1 -> Step(s, statements[1])
        [] n > 1 /\ half.exception # "none" -> half
        [] OTHER -> Executed(half, SubSeq(statements, n \div 2 + 1, n))

\* The program runs the statements.
Execute(statements) ==
  LET s == Executed([wires |-> wires, exception |-> exception], statements)
  IN  wires' = s.wires /\ exception' = s.exception

\* RussWire.clockTick(): no wire of any device is set any more.
ClockTick == wires' = << >> /\ UNCHANGED exception

\* The statements F(i), one group per bit, for i = first .. last.
ForBits(first, last, F(_)) ==
  FlattenSeq([k \in 1 .. last - first + 1 |-> F(first + k - 1)])
=============================================================================
