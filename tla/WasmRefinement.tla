--------------------------- MODULE WasmRefinement ---------------------------
(***************************************************************************)
(* The state of WasmMachine that a state of the interpreter stands for:    *)
(* the frames and the nests of blocks are read off the labels, which cut   *)
(* the one stack into the operands of every block.                         *)
(***************************************************************************)
EXTENDS Interpreter

\* TLC evaluates EXCEPT reliably on tuples only, so functions become tuples.
AsTuple(f) == << >> \o f

\* The operands of block j of n are the slots between its label and the next
\* one, its parameters included.
FirstOf(labels, base, j) == IF j = 1 THEN base ELSE labels[j].stack_top
LastOf(labels, n, end, j) == IF j = n THEN end ELSE labels[j + 1].stack_top

BlockOf(l, vals) ==
  [exit |-> l.pc, arity |-> IF l.opcode = "loop" THEN l.params ELSE l.results,
   results |-> l.results, loop |-> l.opcode = "loop", vals |-> vals]

Blocks(labels, base, s, n, end) ==
  AsTuple([j \in 1..n |->
     BlockOf(labels[j], SubSeq(s, FirstOf(labels, base, j) + 1,
                                  LastOf(labels, n, end, j)))])

\* Frame g at ip inside n blocks, its operands between base and end of s.
View(g, base, s, ip, n, end) ==
  [func |-> g.func, pc |-> ip, locals |-> SubSeq(s, g.locals + 1, base),
   blocks |-> Blocks(g.labels, base, s, n, end)]

\* What the running frame has in registers.
IpOf(k) == IF k = top /\ status = "running" THEN regs.ip ELSE call_stack[k].ip
LabelTopOf(k) ==
  IF k = top /\ status = "running" THEN regs.label_top ELSE call_stack[k].label_stack_top

Frames ==
  AsTuple([k \in 1..top |->
     View(call_stack[k], OperandBase(k), stack, IpOf(k), LabelTopOf(k), OperandEnd(k))])

Program ==
  AsTuple([f \in DOMAIN functions |->
     [kind |-> functions[f].kind, params |-> functions[f].params,
      results |-> functions[f].results, local_count |-> functions[f].local_count,
      code |-> functions[f].code]])

Activations == IF Active THEN Frames ELSE << >>

Mode == CASE status \in {"idle", "running", "returned"} -> status
          [] status = "yielded" -> "waiting"
          [] OTHER -> "trapped"

Returned == IF status = "returned" THEN stack ELSE << >>

Abstract == INSTANCE WasmMachine WITH
  program <- Program, frames <- Activations, mode <- Mode, values <- Returned

\* Running valid code on one stack, one label pool and the jump tables of the
\* validator gives exactly the results of the structured semantics, for
\* branches, multi-value blocks, calls and suspended host calls alike.
RunsWebAssembly == Abstract!Spec
=============================================================================
