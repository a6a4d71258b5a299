------------------------------- MODULE Adders -------------------------------
(***************************************************************************)
(* The gates and the adders of the Java simulators: sim1 (Sim1_ADD,        *)
(* Sim1_2sComplement, Sim1_SUB), sim2 (Sim2_AdderX) and the full adder of  *)
(* sim3.  Each operator is the body of an execute() method.  Sim1's width  *)
(* of 32 bits is W here.                                                   *)
(***************************************************************************)
EXTENDS RussWire, Words

Not == [v \in Inputs(1) |-> ~ v[1]]
And == [v \in Inputs(2) |-> v[1] /\ v[2]]
Or == [v \in Inputs(2) |-> v[1] \/ v[2]]
Xor == [v \in Inputs(2) |-> v[1] # v[2]]

-----------------------------------------------------------------------------
(* NOT, AND, OR; XOR is built of them. *)

NOT(in, out) == << Set(out, <<in>>, Not) >>
AND(g) == << Set(Pin(g, "out"), <<Pin(g, "a"), Pin(g, "b")>>, And) >>
OR(g) == << Set(Pin(g, "out"), <<Pin(g, "a"), Pin(g, "b")>>, Or) >>

XOR(g) ==
  LET not_a == Part(g, "not_a", 0)
      not_b == Part(g, "not_b", 0)
      and1 == Part(g, "and1", 0)
      and2 == Part(g, "and2", 0)
      or == Part(g, "or", 0)
  IN  << Copy(Pin(g, "a"), Pin(not_a, "in")), Copy(Pin(g, "b"), Pin(not_b, "in")) >>
      \o NOT(Pin(not_a, "in"), Pin(not_a, "out"))
      \o NOT(Pin(not_b, "in"), Pin(not_b, "out"))
      \o << Copy(Pin(g, "a"), Pin(and1, "a")), Copy(Pin(not_b, "out"), Pin(and1, "b")),
            Copy(Pin(not_a, "out"), Pin(and2, "a")), Copy(Pin(g, "b"), Pin(and2, "b")) >>
      \o AND(and1) \o AND(and2)
      \o << Copy(Pin(and1, "out"), Pin(or, "a")), Copy(Pin(and2, "out"), Pin(or, "b")) >>
      \o OR(or)
      \o << Copy(Pin(or, "out"), Pin(g, "out")) >>

\* Copy the inputs a and b of a device to a part of it.
Feed(device, part) ==
  << Copy(Pin(device, "a"), Pin(part, "a")), Copy(Pin(device, "b"), Pin(part, "b")) >>

HalfAdder(h) ==
  LET sumCompute == Part(h, "sumCompute", 0)
      and1 == Part(h, "and1", 0)
  IN  Feed(h, sumCompute) \o Feed(h, and1) \o XOR(sumCompute) \o AND(and1)
      \o << Copy(Pin(sumCompute, "out"), Pin(h, "sum")),
            Copy(Pin(and1, "out"), Pin(h, "carryOut")) >>

Adder(d) ==
  LET add1 == Part(d, "add1", 0)
      add2 == Part(d, "add2", 0)
      or == Part(d, "carryOutOr", 0)
  IN  Feed(d, add1) \o HalfAdder(add1)
      \o << Copy(Pin(d, "carryIn"), Pin(add2, "a")), Copy(Pin(add1, "sum"), Pin(add2, "b")) >>
      \o HalfAdder(add2)
      \o << Copy(Pin(add2, "sum"), Pin(d, "sum")),
            Copy(Pin(add1, "carryOut"), Pin(or, "a")),
            Copy(Pin(add2, "carryOut"), Pin(or, "b")) >>
      \o OR(or)
      \o << Copy(Pin(or, "out"), Pin(d, "carryOut")) >>

-----------------------------------------------------------------------------
(* sim1: 32 bits with a local carry *)

\* (bitA && bitB) || (carryIn && (bitA ^ bitB))
NewCarry == [v \in Inputs(3) |-> (v[1] /\ v[2]) \/ (v[3] /\ v[1] # v[2])]
SumBits == [v \in Inputs(3) |-> (v[1] # v[2]) # v[3]]

\* (aSign == bSign) && (aSign != sumSign)
OverflowCondition == [v \in Inputs(3) |-> v[1] = v[2] /\ v[1] # v[3]]

Sim1_ADD(d) ==
  LET carryIn == Pin(d, "local carryIn")
      bits(i) == <<Pins(d, "a", i), Pins(d, "b", i), carryIn>>
      column(i) == << Set(Pins(d, "sum", i), bits(i), SumBits),
                      Let(carryIn, bits(i), NewCarry) >>
  IN  << Let(carryIn, << >>, Constant(FALSE)) >>
      \o ForBits(0, W - 1, column)
      \o << Copy(carryIn, Pin(d, "carryOut")),
            Set(Pin(d, "overflow"),
                <<Pins(d, "a", W - 1), Pins(d, "b", W - 1), Pins(d, "sum", W - 1)>>,
                OverflowCondition) >>

\* Copy all bits of an array of wires.
CopyBits(from, fromField, to, toField) ==
  ForBits(0, W - 1, LAMBDA i : << Copy(Pins(from, fromField, i), Pins(to, toField, i)) >>)

Sim1_2sComplement(d) ==
  LET adder == Part(d, "adder", 0)
      notGate(i) == Part(d, "notGates", i)
      invert(i) == << Copy(Pins(d, "in", i), Pin(notGate(i), "in")) >>
                   \o NOT(Pin(notGate(i), "in"), Pin(notGate(i), "out"))
  IN  ForBits(0, W - 1, invert)
      \o ForBits(0, W - 1,
                 LAMBDA i : << Copy(Pin(notGate(i), "out"), Pins(adder, "a", i)) >>)
      \o << Set(Pins(adder, "b", 0), << >>, Constant(TRUE)) >>
      \o ForBits(1, W - 1, LAMBDA i : << Set(Pins(adder, "b", i), << >>, Constant(FALSE)) >>)
      \o Sim1_ADD(adder)
      \o CopyBits(adder, "sum", d, "out")

Sim1_SUB(d) ==
  LET twosComp == Part(d, "twosComp", 0)
      adder == Part(d, "adder", 0)
  IN  CopyBits(d, "b", twosComp, "in")
      \o Sim1_2sComplement(twosComp)
      \o CopyBits(d, "a", adder, "a") \o CopyBits(twosComp, "out", adder, "b")
      \o Sim1_ADD(adder)
      \o CopyBits(adder, "sum", d, "sum")

-----------------------------------------------------------------------------
(* sim2: full adders chained by a local carry *)

\* The class Sim2_FullAdder is in the repository in compiled form only; it
\* is the full adder of sim3.
Sim2_FullAdder(d) == Adder(d)

CarryValue(d) == Pin(d, "local carryValue")
PrevCarryValue(d) == Pin(d, "local prevCarryValue")

\* Seeded fault: the previous carry is remembered after the new one is read.
CarriesSwapped(d, full) ==
  << Let(CarryValue(d), <<Pin(full, "carryOut")>>, Same),
     Let(PrevCarryValue(d), <<CarryValue(d)>>, Same) >>

\* "Reset the prev carry value and the current carry value"
Carries(d, full) ==
  << Let(PrevCarryValue(d), <<CarryValue(d)>>, Same),
     Let(CarryValue(d), <<Pin(full, "carryOut")>>, Same) >>

Sim2_AdderX(d) ==
  LET full(i) == Part(d, "fullAdders", i)
      column(i) ==
        << Copy(Pins(d, "a", i), Pin(full(i), "a")), Copy(Pins(d, "b", i), Pin(full(i), "b")),
           Copy(CarryValue(d), Pin(full(i), "carryIn")) >>
        \o Sim2_FullAdder(full(i))
        \o << Copy(Pin(full(i), "sum"), Pins(d, "sum", i)) >>
        \o Carries(d, full(i))
  IN  << Let(CarryValue(d), << >>, Constant(FALSE)),
         Let(PrevCarryValue(d), << >>, Constant(FALSE)) >>
      \o ForBits(0, W - 1, column)
      \o << Copy(CarryValue(d), Pin(d, "carryOut")),
            Set(Pin(d, "overflow"), <<PrevCarryValue(d), CarryValue(d)>>, Xor) >>
=============================================================================
