------------------------------- MODULE Typing -------------------------------
(***************************************************************************)
(* Which function bodies WebAssembly calls valid: the algorithm of the     *)
(* appendix of its specification, on numbers of operands instead of types. *)
(* It knows nothing of the engine.  What the engine is known to do         *)
(* differently is left out: a branch to the label of the function, unless  *)
(* Features has "br_function", and an if with parameters.                  *)
(***************************************************************************)
EXTENDS Interpreter

CONSTANT Features

\* A control frame starts at a height and is dead behind a jump; the state of
\* the checker holds those that are open and the height.
Ctrl(op, h, p, r) == [op |-> op, height |-> h, params |-> p, results |-> r,
                      dead |-> FALSE]
Entered(results) == [ok |-> TRUE, h |-> 0, ctrls |-> <<Ctrl("func", 0, 0, results)>>]

Bad(st) == [st EXCEPT !.ok = FALSE]
InnerCtrl(st) == st.ctrls[Len(st.ctrls)]
PopN(st, n) ==
  IF st.h - InnerCtrl(st).height >= n THEN [st EXCEPT !.h = @ - n]
  ELSE IF InnerCtrl(st).dead THEN [st EXCEPT !.h = InnerCtrl(st).height]
  ELSE Bad(st)
PushN(st, n) == [st EXCEPT !.h = @ + n]
Nest(st, op, p, r) ==
  PushN([st EXCEPT !.ctrls = Append(@, Ctrl(op, st.h, p, r))], p)
Die(st) == [st EXCEPT !.h = InnerCtrl(st).height, !.ctrls[Len(st.ctrls)].dead = TRUE]
Target(st, l) == st.ctrls[Len(st.ctrls) - l]
Arity(st, l) == IF Target(st, l).op = "loop" THEN Target(st, l).params
                ELSE Target(st, l).results
LabelOk(st, l) ==
  l < Len(st.ctrls) /\ (l = Len(st.ctrls) - 1 => "br_function" \in Features)

\* Nothing behind a jump is executed.
Live(st) == \A j \in 1..Len(st.ctrls) : ~st.ctrls[j].dead

\* What WebAssembly pops and pushes for the opcodes that only move operands.
Effect == [nop |-> <<0, 0>>, const |-> <<0, 1>>, unary |-> <<1, 1>>,
           binary |-> <<2, 1>>, drop |-> <<1, 0>>, select |-> <<3, 1>>,
           store |-> <<2, 0>>, local_get |-> <<0, 1>>, local_set |-> <<1, 0>>,
           local_tee |-> <<1, 1>>]

Check(st, i, sigs) ==
  CASE i.op \in DOMAIN Effect -> PushN(PopN(st, Effect[i.op][1]), Effect[i.op][2])
    [] i.op \in BlockOps -> Nest(PopN(st, i.params), i.op, i.params, i.results)
    [] i.op = "if" ->
         IF i.params = 0 THEN Nest(PopN(st, 1), "if", 0, i.results) ELSE Bad(st)
    [] i.op = "else" ->
         LET c == InnerCtrl(st)
             s == PopN(st, c.results)
         IN IF c.op = "if" /\ s.h = c.height
            THEN [s EXCEPT !.h = c.height + c.params, !.ctrls[Len(st.ctrls)] =
                    Ctrl("else", c.height, c.params, c.results)]
            ELSE Bad(st)
    [] i.op = "end" ->
         LET c == InnerCtrl(st)
             s == PopN(st, c.results)
         IN IF s.h = c.height /\ (c.op = "if" => c.params = c.results)
            THEN [s EXCEPT !.h = c.height + c.results,
                           !.ctrls = SubSeq(@, 1, Len(@) - 1)]
            ELSE Bad(st)
    [] i.op = "br" ->
         IF LabelOk(st, i.label) THEN Die(PopN(st, Arity(st, i.label))) ELSE Bad(st)
    [] i.op = "br_if" ->
         IF LabelOk(st, i.label)
         THEN PushN(PopN(PopN(st, 1), Arity(st, i.label)), Arity(st, i.label))
         ELSE Bad(st)
    [] i.op = "br_table" ->
         IF /\ \A k \in DOMAIN i.labels : LabelOk(st, i.labels[k])
            /\ \A k \in DOMAIN i.labels :
                 Arity(st, i.labels[k]) = Arity(st, i.labels[1])
         THEN Die(PopN(PopN(st, 1), Arity(st, i.labels[1]))) ELSE Bad(st)
    [] i.op = "return" -> Die(PopN(st, st.ctrls[1].results))
    [] i.op = "unreachable" -> Die(st)
    [] i.op = "call" ->
         IF i.func \in DOMAIN sigs
         THEN PushN(PopN(st, sigs[i.func].params), sigs[i.func].results) ELSE Bad(st)
    [] i.op = "call_indirect" -> PushN(PopN(PopN(st, 1), i.params), i.results)
    [] OTHER -> Bad(st)

\* The states of the checker, one behind each instruction of a body.
TypingOf(code, results, sigs) ==
  LET state[n \in 0..Len(code)] ==
        IF n = 0 THEN Entered(results)
        ELSE IF state[n - 1].ctrls = << >> THEN Bad(state[n - 1])
        ELSE Check(state[n - 1], code[n], sigs)
  IN state

Signatures ==
  [f \in DOMAIN functions |->
     [params |-> functions[f].params, results |-> functions[f].results]]

Typing(f) == TypingOf(functions[f].code, functions[f].results, Signatures)

\* The body is valid, its locals exist, and nothing follows the end that
\* closes it.
WellTyped(f) ==
  LET code == functions[f].code
      n == Len(code)
  IN /\ \A k \in 0..n : Typing(f)[k].ok
     /\ \A k \in 0..n : Typing(f)[k].ctrls = << >> <=> k = n
     /\ \A k \in 1..n : code[k].op \in LocalOps => code[k].local < TotalLocals(functions[f])

Locals == {f \in DOMAIN functions : functions[f].kind = "local"}

ValidModule == \A f \in Locals : WellTyped(f)

\* ExecuteInternal does not compare the first frame with the stack
\* (line 3036): the stack has room for any one function of the module.
FirstFrameFits ==
  \A f \in Locals : \A k \in 0..Len(functions[f].code) :
    TotalLocals(functions[f]) + Typing(f)[k].h <= stack_size

\* A block is opened behind a jump.
OpensDead(f) ==
  \E k \in 1..Len(functions[f].code) :
    functions[f].code[k].op \in BlockOps \union {"if"} /\ ~Live(Typing(f)[k - 1])

\* docs/wasm_vm_spec.md, line 301: the operand stack is polymorphic in
\* unreachable code, so that no instruction of a valid body is refused.  It
\* fails where Features of MCInterpreter has "dead_blocks".
RefusesInvalid ==
  Scanning /\ ~Acceptable(Instr) => ~WellTyped(func_idx)

\* The validator refuses no instruction of a valid body, unless the body opens
\* a block in unreachable code, whose end the code takes for live (line 1482).
AcceptsValid ==
  Scanning /\ ~Acceptable(Instr) => ~WellTyped(func_idx) \/ OpensDead(func_idx)
=============================================================================
