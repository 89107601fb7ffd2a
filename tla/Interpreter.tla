----------------------------- MODULE Interpreter -----------------------------
(***************************************************************************)
(* WasmEngine::ExecuteInternal, RunLoop and PushCallFrame of               *)
(* src/src/wasm_engine.cpp for one thread context, running the functions   *)
(* that Validator accepted.                                                *)
(*                                                                         *)
(* The locals and the operands of every frame share one stack, as the      *)
(* arguments a caller pushed become the first locals of the callee, and    *)
(* the labels of every frame are a slice of one pool.  RunLoop keeps ip    *)
(* and label_stack_top in local variables (regs) and writes them back to   *)
(* the frame where the code does.  stack holds the slots below sp.         *)
(***************************************************************************)
EXTENDS Validator, FiniteSets

CONSTANTS call_stack_size, stack_size, labels_pool_size,
          Values,      \* what a stack slot may hold, 0..n
          table        \* functions in the table of call_indirect; 0 is null

ASSUME ContextLimits ==
  /\ call_stack_size \in Nat \ {0}
  /\ stack_size \in Nat /\ labels_pool_size \in Nat

ASSUME SlotValues ==
  /\ Values \subseteq Nat /\ Cardinality(Values) \in Nat \ {0}
  /\ \A i \in Instructions : i.op = "const" => i.value \in Values

VARIABLES
  call_stack,       \* WasmThreadContext::call_stack up to call_stack_top
  stack,
  labels_pool_top,
  regs,             \* RunLoop's cached ip and label_top
  status            \* "idle", "running", "yielded", "returned", or the trap

ctxVars == <<call_stack, stack, labels_pool_top, regs, status>>
vars == <<valVars, ctxVars>>

NoRegs == [ip |-> 0, label_top |-> 0]

top == Len(call_stack)
frame == call_stack[top]
body == functions[frame.func].code
sp == Len(stack)

\* What is left under the n topmost slots, and those n slots.
Below(s, n) == SubSeq(s, 1, Len(s) - n)
Topmost(s, n) == SubSeq(s, Len(s) - n + 1, Len(s))

Zeros(n) == [k \in 1..n |-> 0]
Tuples(n) == [1..n -> Values]

FuncLabel(f, base) ==
  [opcode |-> "block", stack_top |-> base, params |-> 0,
   results |-> functions[f].results, pc |-> Len(functions[f].code)]

-----------------------------------------------------------------------------
\* ExecuteInternal builds the first frame itself: it tests the label pool
\* and, unlike PushCallFrame, neither the call stack nor the data stack.
NewFrame(f, base) ==
  [func |-> f, ip |-> 0, locals |-> base, label_stack_top |-> 1,
   labels |-> <<FuncLabel(f, base)>>, labels_base |-> labels_pool_top,
   label_capacity |-> functions[f].max_label_depth]

Execute(f, args) ==
  /\ status = "idle" /\ phase = "done" /\ verdict = "kOk"
  /\ functions[f].kind = "local" /\ Len(args) = functions[f].params
  /\ \/ /\ labels_pool_top + functions[f].max_label_depth > labels_pool_size
        /\ status' = "kErrorExecuteTrapLabelStackOverflow"
        /\ stack' = args
        /\ UNCHANGED <<valVars, call_stack, labels_pool_top, regs>>
     \/ /\ labels_pool_top + functions[f].max_label_depth <= labels_pool_size
        /\ call_stack' = <<NewFrame(f, 0)>>
        /\ stack' = args \o Zeros(functions[f].local_count)
        /\ labels_pool_top' = labels_pool_top + functions[f].max_label_depth
        /\ regs' = [ip |-> 0, label_top |-> 1]
        /\ status' = "running"
        /\ UNCHANGED valVars

-----------------------------------------------------------------------------
Running(ops) ==
  /\ status = "running" /\ regs.ip + 1 \in DOMAIN body /\ body[regs.ip + 1].op \in ops

instr == body[regs.ip + 1]
label == frame.labels[regs.label_top]

Continue(ip, label_top) == regs' = [ip |-> ip, label_top |-> label_top]
Step(label_top) == Continue(regs.ip + 1, label_top)

Trap(r) ==
  /\ status' = r
  /\ UNCHANGED <<call_stack, labels_pool_top, regs>>

SimpleOps == DOMAIN Operands \ {"br_if"}

Bool(b) == IF b THEN 1 ELSE 0
Subtract(a, b) == (a - b) % Cardinality(Values)
LocalSlot(l) == frame.locals + l + 1

Operand ==
  /\ Running(SimpleOps)
  /\ stack' =
       CASE instr.op = "nop" -> stack
         [] instr.op = "const" -> Append(stack, instr.value)
         [] instr.op = "unary" -> Append(Below(stack, 1), Bool(stack[sp] = 0))
         [] instr.op = "binary" ->
              Append(Below(stack, 2), Subtract(stack[sp - 1], stack[sp]))
         [] instr.op = "drop" -> Below(stack, 1)
         [] instr.op = "store" -> Below(stack, 2)
         [] instr.op = "select" ->
              Append(Below(stack, 3), stack[IF stack[sp] # 0 THEN sp - 2 ELSE sp - 1])
         [] instr.op = "local_get" -> Append(stack, stack[LocalSlot(instr.local)])
         [] instr.op = "local_set" ->
              Below([stack EXCEPT ![LocalSlot(instr.local)] = stack[sp]], 1)
         [] instr.op = "local_tee" ->
              [stack EXCEPT ![LocalSlot(instr.local)] = stack[sp]]
  /\ Step(regs.label_top)
  /\ UNCHANGED <<valVars, call_stack, labels_pool_top, status>>

Unreachable ==
  /\ Running({"unreachable"})
  /\ Trap("kErrorExecuteTrapUnreachable")
  /\ UNCHANGED <<valVars, stack>>

-----------------------------------------------------------------------------
\* Binary search in the jump table, halved until nothing is left of it; 0
\* when no entry has that offset.
FindBlockJump(jumps, offset) ==
  LET n == Len(jumps)
      halve[k \in 0..n] ==
        IF k = 0 THEN [lo |-> 0, hi |-> n]
        ELSE LET s == halve[k - 1]
                 mid == (s.lo + s.hi) \div 2
             IN IF s.lo >= s.hi THEN s
                ELSE IF jumps[mid + 1].body < offset THEN [s EXCEPT !.lo = mid + 1]
                ELSE [s EXCEPT !.hi = mid]
      found == halve[n].lo + 1
  IN IF found <= n /\ jumps[found].body = offset THEN found ELSE 0

\* Writes the label above the cached top; what was there before is stale.
EnterLabel(l) ==
  /\ call_stack' = [call_stack EXCEPT ![top].labels =
                      SubSeq(@, 1, regs.label_top) \o <<l>>]
  /\ UNCHANGED <<labels_pool_top, status>>

JumpEntry == FindBlockJump(functions[frame.func].block_jump_table, regs.ip + 1)
Entry == functions[frame.func].block_jump_table[JumpEntry]
EndTarget_PastEnd == IF JumpEntry = 0 THEN Len(body) ELSE Entry.end + 1
EndTarget == IF JumpEntry = 0 THEN Len(body) ELSE Entry.end

Block ==
  /\ Running(BlockOps)
  /\ EnterLabel([opcode |-> instr.op, stack_top |-> sp - instr.params,
                 params |-> instr.params, results |-> instr.results,
                 pc |-> IF instr.op = "block" THEN EndTarget ELSE regs.ip + 1])
  /\ Step(regs.label_top + 1)
  /\ UNCHANGED <<valVars, stack>>

\* The label is written in every case and popped again when the condition is
\* false and there is no else.
If ==
  /\ Running({"if"})
  /\ stack' = Below(stack, 1)
  /\ EnterLabel([opcode |-> "if", stack_top |-> sp - 1, params |-> 0,
                 results |-> instr.results, pc |-> EndTarget])
  /\ \/ stack[sp] # 0 /\ Step(regs.label_top + 1)
     \/ /\ stack[sp] = 0 /\ JumpEntry # 0 /\ Entry.else # 0
        /\ Continue(Entry.else, regs.label_top + 1)
     \/ /\ stack[sp] = 0 /\ (JumpEntry = 0 \/ Entry.else = 0)
        /\ Continue(EndTarget, regs.label_top)
  /\ UNCHANGED valVars

\* The then-branch reached its else: to the end, without an unwind.
Else ==
  /\ Running({"else"})
  /\ IF regs.label_top = 0 THEN Trap("kErrorExecuteRuntimeError")
     ELSE /\ Continue(label.pc, regs.label_top - 1)
          /\ UNCHANGED <<call_stack, labels_pool_top, status>>
  /\ UNCHANGED <<valVars, stack>>

\* StackUnwind: the arity topmost slots move down to dst.
Unwound(s, dst, arity) == SubSeq(s, 1, dst) \o Topmost(s, arity)

\* A taken branch writes ip and label_stack_top to the frame and reloads both.
BranchTo(s, l) ==
  LET target == frame.labels[regs.label_top - l]
      arity == IF target.opcode = "loop" THEN target.params ELSE target.results
      label_top == regs.label_top - l - (IF target.opcode = "loop" THEN 0 ELSE 1)
  IN /\ stack' = Unwound(s, target.stack_top, arity)
     /\ call_stack' = [call_stack EXCEPT ![top].ip = target.pc,
                                         ![top].label_stack_top = label_top]
     /\ Continue(target.pc, label_top)
     /\ UNCHANGED <<valVars, labels_pool_top, status>>

Br == Running({"br"}) /\ BranchTo(stack, instr.label)

BrIf ==
  /\ Running({"br_if"})
  /\ \/ /\ stack[sp] # 0
        /\ BranchTo(Below(stack, 1), instr.label)
     \/ /\ stack[sp] = 0
        /\ stack' = Below(stack, 1)
        /\ Step(regs.label_top)
        /\ UNCHANGED <<valVars, call_stack, labels_pool_top, status>>

\* The last of the targets is the default one.
BrTable ==
  /\ Running({"br_table"})
  /\ LET n == Len(instr.labels)
         k == IF stack[sp] + 1 < n THEN stack[sp] + 1 ELSE n
     IN BranchTo(Below(stack, 1), instr.labels[k])

LeaveFrame_ByLabels ==
  /\ labels_pool_top' = labels_pool_top - regs.label_top
  /\ call_stack' = SubSeq(call_stack, 1, top - 1)
  /\ \/ /\ top = 1
        /\ status' = "returned" /\ regs' = NoRegs
     \/ /\ top > 1
        /\ Continue(call_stack[top - 1].ip, call_stack[top - 1].label_stack_top)
        /\ UNCHANGED status
  /\ UNCHANGED valVars

\* Leaving a frame gives its slice of the label pool back; RunLoop then loads
\* the frame of the caller, or returns when there is none.
LeaveFrame ==
  /\ labels_pool_top' = labels_pool_top - frame.label_capacity
  /\ call_stack' = SubSeq(call_stack, 1, top - 1)
  /\ \/ /\ top = 1
        /\ status' = "returned" /\ regs' = NoRegs
     \/ /\ top > 1
        /\ Continue(call_stack[top - 1].ip, call_stack[top - 1].label_stack_top)
        /\ UNCHANGED status
  /\ UNCHANGED valVars

End ==
  /\ Running({"end"})
  /\ stack' = IF regs.label_top = 0 THEN stack
              ELSE Unwound(stack, label.stack_top, label.results)
  /\ \/ /\ regs.label_top > 1
        /\ Step(regs.label_top - 1)
        /\ UNCHANGED <<valVars, call_stack, labels_pool_top, status>>
     \/ regs.label_top <= 1 /\ LeaveFrame

Return ==
  /\ Running({"return"})
  /\ stack' = Unwound(stack, frame.labels[1].stack_top, frame.labels[1].results)
  /\ LeaveFrame

-----------------------------------------------------------------------------
SaveFrame_IpOnly == [call_stack EXCEPT ![top].ip = regs.ip + 1]
SaveFrame ==
  [call_stack EXCEPT ![top].ip = regs.ip + 1,
                     ![top].label_stack_top = regs.label_top]

\* The operands the validator counted must fit above the locals.
DataFull(height, f) == height + functions[f].max_stack_depth > stack_size

\* PushCallFrame on the stack s, whose topmost slots are the arguments.  A
\* failure leaves the arguments and the call stack as they were.
PushCallFrame(s, f, overflow) ==
  LET g == functions[f]
      base == Len(s) - g.params
      full == s \o Zeros(g.local_count)
      Fail(r) == stack' = s /\ status' = r /\ call_stack' = SaveFrame
                 /\ UNCHANGED <<labels_pool_top, regs>>
      frame_full == top >= call_stack_size
      data_full == DataFull(Len(full), f)
      labels_full == labels_pool_top + g.max_label_depth > labels_pool_size
  IN \/ frame_full /\ Fail(overflow)
     \/ ~frame_full /\ data_full /\ Fail("kErrorExecuteTrapStackOverflow")
     \/ /\ ~frame_full /\ ~data_full /\ labels_full
        /\ Fail("kErrorExecuteTrapLabelStackOverflow")
     \/ /\ ~frame_full /\ ~data_full /\ ~labels_full
        /\ stack' = full
        /\ call_stack' = Append(SaveFrame, NewFrame(f, base))
        /\ labels_pool_top' = labels_pool_top + g.max_label_depth
        /\ Continue(0, 1)
        /\ UNCHANGED status

\* A host function pops its arguments and then returns with its results, fails
\* or asks to be suspended; the frame is saved only for the suspension.
CallHost(s, f) ==
  LET rest == Below(s, functions[f].params)
  IN \/ /\ \E r \in Tuples(functions[f].results) : stack' = rest \o r
        /\ Step(regs.label_top)
        /\ UNCHANGED <<call_stack, labels_pool_top, status>>
     \/ /\ stack' = rest
        /\ status' = "yielded" /\ call_stack' = SaveFrame
        /\ regs' = NoRegs /\ UNCHANGED labels_pool_top
     \/ stack' = rest /\ Trap("kErrorExecuteRuntimeError")

Invoke(s, f, overflow) ==
  /\ \/ functions[f].kind = "host" /\ CallHost(s, f)
     \/ functions[f].kind = "local" /\ PushCallFrame(s, f, overflow)
  /\ UNCHANGED valVars

Call ==
  /\ Running({"call"})
  /\ Invoke(stack, instr.func, "kErrorExecuteTrapStackOverflow")

CallIndirect ==
  /\ Running({"call_indirect"})
  /\ LET s == Below(stack, 1)
         elem == stack[sp] + 1
         Refuse(r) == stack' = s /\ Trap(r) /\ UNCHANGED valVars
     IN \/ elem \notin DOMAIN table /\ Refuse("kErrorExecuteTrapTableOutOfBounds")
        \/ /\ elem \in DOMAIN table /\ table[elem] = 0
           /\ Refuse("kErrorExecuteTrapTableUninitializedElement")
        \/ /\ elem \in DOMAIN table /\ table[elem] # 0
           /\ LET g == functions[table[elem]]
                  same == g.params = instr.params /\ g.results = instr.results
              IN \/ /\ ~same
                    /\ Refuse("kErrorExecuteTrapIndirectCallSignatureMismatch")
                 \/ /\ same
                    /\ Invoke(s, table[elem], "kErrorExecuteTrapCallStackOverflow")

\* The scheduler calls ExecuteInternal again: RunLoop loads the saved frame.
\* Whoever completed the host call has pushed its results by then.
Pending ==
  LET i == body[frame.ip]
  IN IF i.op = "call" THEN functions[i.func].results ELSE i.results

Resume ==
  /\ status = "yielded"
  /\ \E r \in Tuples(Pending) : stack' = stack \o r
  /\ Continue(frame.ip, frame.label_stack_top)
  /\ status' = "running"
  /\ UNCHANGED <<valVars, call_stack, labels_pool_top>>

-----------------------------------------------------------------------------
InterpreterInit ==
  /\ ValidatorInit /\ functions \in Seq(Functions)
  /\ \A f \in DOMAIN functions : functions[f].block_jump_table = << >>
  /\ \A k \in DOMAIN table : table[k] \in 0..Len(functions)
  /\ call_stack = << >> /\ stack = << >> /\ labels_pool_top = 0
  /\ regs = NoRegs /\ status = "idle"

Stopped ==
  \/ phase = "done" /\ verdict # "kOk"
  \/ status \notin {"idle", "running", "yielded"}

Done == Stopped /\ UNCHANGED vars

Next ==
  \/ ValidatorNext /\ UNCHANGED ctxVars
  \/ \E f \in DOMAIN functions : \E args \in Tuples(functions[f].params) :
       Execute(f, args)
  \/ Operand \/ Unreachable \/ Block \/ If \/ Else \/ Br \/ BrIf \/ BrTable
  \/ End \/ Return \/ Call \/ CallIndirect \/ Resume
  \/ Done

Spec == InterpreterInit /\ [][Next]_vars

-----------------------------------------------------------------------------
Active == status \in {"running", "yielded"}

\* The slot where the operands of frame k begin and where they end.
OperandBase(k) == call_stack[k].locals + TotalLocals(functions[call_stack[k].func])
OperandEnd(k) == IF k = top THEN sp ELSE call_stack[k + 1].locals

\* The frames hold consecutive slices of the label pool from its beginning,
\* the counter is where the last one ends, and neither the pool nor the call
\* stack overflows, also when a call fails half way or a thread traps.
LabelSlices ==
  /\ top <= call_stack_size /\ labels_pool_top <= labels_pool_size
  /\ labels_pool_top = IF top = 0 THEN 0
                       ELSE frame.labels_base + frame.label_capacity
  /\ \A k \in 1..top :
       call_stack[k].labels_base =
         IF k = 1 THEN 0
         ELSE call_stack[k - 1].labels_base + call_stack[k - 1].label_capacity

\* max_stack_depth and max_label_depth are what RunLoop reserves and never
\* tests again: no frame ever holds more operands or more labels.
WithinReserve ==
  Active => \A k \in 1..top :
    LET f == functions[call_stack[k].func]
        labels == IF k = top /\ status = "running" THEN regs.label_top
                  ELSE call_stack[k].label_stack_top
    IN /\ OperandEnd(k) - OperandBase(k) \in 0..f.max_stack_depth
       /\ labels <= f.max_label_depth

\* No push goes beyond the end of the thread's stack.
StackFits == sp <= stack_size

\* Neither pass nor the interpreter writes beyond a buffer that was sized
\* before, where the code no longer tests.
CapacitiesKept == BuffersFit /\ WithinReserve /\ StackFits

\* RunLoop fetches without comparing ip with limit (line 3170): every fetch of
\* a running frame is inside the body of its function.
FetchInBody == status = "running" => regs.ip < Len(body)
=============================================================================
