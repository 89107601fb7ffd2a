---------------------------- MODULE MCInterpreter ----------------------------
(***************************************************************************)
(* The modules TLC runs the interpreter on.  The body of the first         *)
(* function is every valid body over Alphabet of at most MaxLength         *)
(* instructions; valid means the algorithm of the WebAssembly              *)
(* specification's appendix, on numbers of operands instead of types.      *)
(***************************************************************************)
EXTENDS Typing, WasmRefinement

CONSTANTS MaxLength,         \* of the bodies over Alphabet
          MaxControlLength   \* of the bodies over ControlAlphabet

MCTable == <<2, 0, 3>>

I(op) == [op |-> op]
Blk(op, p, r) == [op |-> op, params |-> p, results |-> r]
Lbl(op, l) == [op |-> op, label |-> l]
Loc(op, l) == [op |-> op, local |-> l]
Const(v) == [op |-> "const", value |-> v]
CallF(f) == [op |-> "call", func |-> f]
Table(ls) == [op |-> "br_table", labels |-> ls]

Fun(kind, p, r, l, c) ==
  [kind |-> kind, params |-> p, results |-> r, local_count |-> l, code |-> c,
   max_label_depth |-> 0, max_stack_depth |-> 0, block_jump_table |-> << >>]

\* Function 1 is the body under test; 2 has a local of its own and leaves
\* from inside a block; 3 is imported from the host.
Callee == Fun("local", 1, 1, 1,
  <<Blk("block", 0, 1), Loc("local_get", 0), Loc("local_get", 0),
    Lbl("br_if", 0), Const(2), Loc("local_get", 1), I("unary"), I("select"),
    Loc("local_tee", 1), Loc("local_get", 0), Const(1), I("store"), I("nop"),
    I("return"), I("end"), I("end")>>)
Others == <<Callee, Fun("host", 1, 1, 0, << >>)>>
Main(c) == Fun("local", 1, 1, 1, c)

Alphabet ==
  {Const(1), I("binary"), I("drop"), Loc("local_get", 0), Loc("local_set", 1),
   Blk("block", 0, 0), Blk("block", 0, 1), Blk("block", 1, 1),
   Blk("loop", 0, 0), Blk("loop", 1, 1), Blk("if", 0, 0), Blk("if", 0, 1),
   I("else"), I("end"), Lbl("br", 0), Lbl("br", 1), Lbl("br_if", 0),
   Lbl("br_if", 1), Table(<<0, 1>>), I("return"), I("unreachable"),
   CallF(1), CallF(2), CallF(3), Blk("call_indirect", 1, 1),
   Blk("call_indirect", 0, 1)}

\* Longer bodies: nested blocks with values and branches across them.
ControlAlphabet ==
  {Const(1), Loc("local_get", 0), Blk("block", 0, 1), Blk("block", 1, 1),
   Blk("loop", 1, 1), Blk("if", 0, 1), I("else"), I("end"), Lbl("br", 1),
   Lbl("br_if", 0), Table(<<1, 0>>)}

\* Bodies that need not be valid, in a module that is refused in the end.
RawAlphabet ==
  {Const(1), I("drop"), Blk("block", 0, 1), Blk("block", 1, 0), Blk("loop", 0, 0),
   Blk("if", 0, 1), I("else"), I("end"), Lbl("br", 1),
   Loc("local_get", 2)}
TooLong == {[k \in 1..n |-> Blk("loop", 0, 0)] : n \in 5..6}
           \union {[k \in 1..9 |-> Const(1)]}
Refused == Fun("local", 0, 0, 0, <<Lbl("br", 1)>>)

MCInstructions ==
  Alphabet \union ControlAlphabet \union RawAlphabet
  \union {Refused.code[1]} \union {Callee.code[k] : k \in DOMAIN Callee.code}

\* The first function is g completed to a valid body of at most max
\* instructions; a prefix must leave room for the ends it still needs.
RECURSIVE Completed(_, _, _, _)
Completed(code, st, alphabet, max) ==
  \/ st.ctrls = << >> /\ functions = <<Main(code)>> \o Others
  \/ /\ st.ctrls # << >>
     /\ \E i \in alphabet :
          /\ i.op \in BlockOps \union {"if"} => Live(st) \/ "dead_blocks" \in Features
          /\ \E next \in {Check(st, i, <<Main(<< >>)>> \o Others)} :
               /\ next.ok /\ next.h <= 3
               /\ Len(code) + 1 + Len(next.ctrls) <= max
               /\ \E longer \in {Append(code, i)} : Completed(longer, next, alphabet, max)

MCInit ==
  /\ \/ Completed(<< >>, Entered(1), Alphabet, MaxLength)
     \/ Completed(<< >>, Entered(1), ControlAlphabet, MaxControlLength)
     \/ functions \in {<<Main(c), Refused, Others[2]>> :
                         c \in [1..4 -> RawAlphabet] \union TooLong}
  /\ InterpreterInit

MCSpec == MCInit /\ [][Next]_vars
=============================================================================
