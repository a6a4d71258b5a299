---------------------------- MODULE BitSlicedALU ----------------------------
(***************************************************************************)
(* The ALU of sim3: W elements of one bit.  execute() runs every element   *)
(* twice, because the "less" input of element 0 is the sum bit of the last *)
(* element, which exists only after the first pass.                        *)
(***************************************************************************)
EXTENDS Adders

\* Where two fields are the same RussWire object the model has one wire: the
\* input of a multiplexer's NOT gate is the control wire, and
\* passOneResults[3] is the wire "less".

\* Seeded fault: the multiplexer's control is the wrong way round.
ControlSwapped(m) ==
  LET control == Pin(m, "controlBit")
      notControl == Pin(Part(m, "notControl", 0), "out")
      selected == [v \in Inputs(4) |-> (v[1] /\ v[4]) \/ (v[3] /\ v[2])]
  IN  NOT(control, notControl)
      \o << Set(Pin(m, "out"), <<notControl, Pin(m, "a"), control, Pin(m, "b")>>, selected) >>

Sim3_MUX_2by1(m) ==
  LET control == Pin(m, "controlBit")
      notControl == Pin(Part(m, "notControl", 0), "out")
      selected == [v \in Inputs(4) |-> (v[1] /\ v[2]) \/ (v[3] /\ v[4])]
  IN  NOT(control, notControl)
      \o << Set(Pin(m, "out"), <<notControl, Pin(m, "a"), control, Pin(m, "b")>>, selected) >>

\* The eight products of the control wires or their negations with an input.
Sim3_MUX_8by1(m) ==
  LET control(i) == Pins(m, "control", i)
      negated(i) == Pin(Part(m, "not", i), "out")
      \* v holds the controls, their negations and the inputs.
      term(v, k) == /\ v[IF k % 2 = 1 THEN 1 ELSE 4]
                    /\ v[IF (k \div 2) % 2 = 1 THEN 2 ELSE 5]
                    /\ v[IF k \div 4 = 1 THEN 3 ELSE 6]
                    /\ v[7 + k]
      output == [v \in Inputs(14) |-> \E k \in 0 .. 7 : term(v, k)]
  IN  ForBits(0, 2, LAMBDA i : NOT(control(i), negated(i)))
      \o << Set(Pin(m, "out"),
                [i \in 1 .. 3 |-> control(i - 1)] \o [i \in 1 .. 3 |-> negated(i - 1)]
                  \o [i \in 1 .. 8 |-> Pins(m, "in", i - 1)],
                output) >>

-----------------------------------------------------------------------------
(* Sim3_ALUElement *)

BInvertMux(e) == Part(e, "bInvertMux", 0)
AluAdder(e) == Part(e, "aluAdder", 0)
TheMux(e) == Part(e, "theMux", 0)

PassOneResult(e, i) == IF i = 3 THEN Pin(e, "less") ELSE Pins(e, "passOneResults", i)

\* A gate, with its statements, between a and the possibly inverted b, and
\* its result.
GateResult(e, gate, statements, i) ==
  << Copy(Pin(e, "a"), Pin(gate, "a")), Copy(Pin(BInvertMux(e), "out"), Pin(gate, "b")) >>
  \o statements
  \o << Copy(Pin(gate, "out"), PassOneResult(e, i)) >>

execute_pass1(e) ==
  LET notGate == Part(e, "notGate", 0)
      mux == BInvertMux(e)
      adder == AluAdder(e)
      andGate == Part(e, "andGate", 0)
      orGate == Part(e, "orGate", 0)
      xorGate == Part(e, "xorGate", 0)
  IN  << Copy(Pin(e, "carryIn"), Pin(adder, "carryIn")), Copy(Pin(e, "a"), Pin(adder, "a")),
         Copy(Pin(e, "b"), Pin(notGate, "in")) >>
      \o NOT(Pin(notGate, "in"), Pin(notGate, "out"))
      \o << Copy(Pin(e, "b"), Pin(mux, "a")), Copy(Pin(notGate, "out"), Pin(mux, "b")),
            Copy(Pin(e, "bInvert"), Pin(mux, "controlBit")) >>
      \o Sim3_MUX_2by1(mux)
      \o << Copy(Pin(mux, "out"), Pin(adder, "b")) >>
      \o Adder(adder)
      \o << Copy(Pin(adder, "carryOut"), Pin(e, "carryOut")),
            Copy(Pin(adder, "sum"), Pin(e, "addResult")),
            Copy(Pin(adder, "sum"), PassOneResult(e, 2)) >>
      \o GateResult(e, andGate, AND(andGate), 0)
      \o GateResult(e, orGate, OR(orGate), 1)
      \o GateResult(e, xorGate, XOR(xorGate), 4)
      \o ForBits(5, 7, LAMBDA i : << Set(PassOneResult(e, i), << >>, Constant(FALSE)) >>)

execute_pass2(e) ==
  LET mux == TheMux(e)
  IN  ForBits(0, 2, LAMBDA i : << Copy(Pins(e, "aluOp", i), Pins(mux, "control", i)) >>)
      \o ForBits(0, 7, LAMBDA i : << Copy(PassOneResult(e, i), Pins(mux, "in", i)) >>)
      \o Sim3_MUX_8by1(mux)
      \o << Copy(Pin(mux, "out"), Pin(e, "result")) >>

-----------------------------------------------------------------------------
(* Sim3_ALU *)

Element(d, i) == Part(d, "alus", i)

\* Every element gets the operation, bNegate and its bits of a and b.
DriveElements(d) ==
  ForBits(0, W - 1, LAMBDA i :
    ForBits(0, 2, LAMBDA j : << Copy(Pins(d, "aluOp", j), Pins(Element(d, i), "aluOp", j)) >>)
    \o << Copy(Pin(d, "bNegate"), Pin(Element(d, i), "bInvert")),
          Copy(Pins(d, "b", i), Pin(Element(d, i), "b")),
          Copy(Pins(d, "a", i), Pin(Element(d, i), "a")) >>)

\* Seeded fault: "less" of element 0 is the carry out of the last element.
LessFromCarry(d) ==
  << Copy(Pin(Element(d, W - 1), "carryOut"), Pin(Element(d, 0), "less")) >>

\* The last sum bit goes back to element 0.
LessFromLast(d) ==
  << Copy(Pin(Element(d, W - 1), "addResult"), Pin(Element(d, 0), "less")) >>

\* The carries ripple through all elements.
PassOne(d) ==
  << Copy(Pin(d, "bNegate"), Pin(Element(d, 0), "carryIn")) >>
  \o execute_pass1(Element(d, 0))
  \o ForBits(1, W - 1, LAMBDA i :
       << Copy(Pin(Element(d, i - 1), "carryOut"), Pin(Element(d, i), "carryIn")),
          Set(Pin(Element(d, i), "less"), << >>, Constant(FALSE)) >>
       \o execute_pass1(Element(d, i)))
  \o LessFromLast(d)

PassTwo(d) ==
  ForBits(0, W - 1, LAMBDA i :
    execute_pass2(Element(d, i)) \o << Copy(Pin(Element(d, i), "result"), Pins(d, "result", i)) >>)

\* Seeded fault: the second pass runs before "less" of element 0 is known.
Sim3_ALUEarlySecondPass(d) == DriveElements(d) \o PassTwo(d) \o PassOne(d)

Sim3_ALU(d) == DriveElements(d) \o PassOne(d) \o PassTwo(d)
=============================================================================
