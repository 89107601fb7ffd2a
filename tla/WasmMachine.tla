----------------------------- MODULE WasmMachine -----------------------------
(***************************************************************************)
(* What a caller of the interpreter is promised: the structured semantics  *)
(* of WebAssembly.  A frame has locals of its own and a nest of blocks,    *)
(* each with operands of its own, so a branch or a return cannot disturb   *)
(* anything outside the blocks it leaves; where a block ends is read off   *)
(* the nesting of the code and not off a table.  The interpreter may stop  *)
(* any call for lack of space.                                             *)
(***************************************************************************)
EXTENDS Integers, Sequences, FiniteSets

CONSTANTS Values, table

VARIABLES
  program,  \* functions: [kind, params, results, local_count, code]
  frames,   \* the activations, the running one last
  mode,     \* "idle", "running", "waiting", "returned", "trapped"
  values    \* the results of the invocation once it returned

Openers == {"block", "loop", "if"}
Count(code, i, j, ops) == Cardinality({k \in i..j : code[k].op \in ops})
Level(code, i, j) == Count(code, i, j, Openers) - Count(code, i, j, {"end"})

\* The end of the block opened at i, and its else (0 when it has none).
EndOf(code, i) ==
  CHOOSE j \in i..Len(code) :
    Level(code, i, j) = 0 /\ \A k \in i..(j - 1) : Level(code, i, k) > 0
ElseOf(code, i) ==
  LET at == {j \in i..EndOf(code, i) : code[j].op = "else" /\ Level(code, i, j) = 1}
  IN IF at = {} THEN 0 ELSE CHOOSE j \in at : TRUE

Tuples(n) == [1..n -> Values]
Keep(s, n) == SubSeq(s, 1, Len(s) - n)
TopOf(s, n) == SubSeq(s, Len(s) - n + 1, Len(s))

Activation(f, args) ==
  [func |-> f, pc |-> 0,
   locals |-> args \o [k \in 1..program[f].local_count |-> 0],
   blocks |-> <<[exit |-> Len(program[f].code), arity |-> program[f].results,
                 results |-> program[f].results, loop |-> FALSE, vals |-> << >>]>>]

depth == Len(frames)
cur == frames[depth]
code == program[cur.func].code
ins == code[cur.pc + 1]
nest == Len(cur.blocks)
vals == cur.blocks[nest].vals

Executing(ops) == mode = "running" /\ cur.pc < Len(code) /\ ins.op \in ops
Has(n) == Len(vals) >= n

\* The frame with its topmost operands replaced, one instruction further.
WithVals(vs) == [cur EXCEPT !.blocks[nest].vals = vs, !.pc = @ + 1]
Put(f) == frames' = [frames EXCEPT ![depth] = f]
Proceed == UNCHANGED <<program, mode, values>>

-----------------------------------------------------------------------------
Start(f, args) ==
  /\ mode = "idle" /\ program[f].kind = "local"
  /\ frames' = <<Activation(f, args)>> /\ mode' = "running"
  /\ UNCHANGED <<program, values>>

Exhausted ==
  /\ mode = "idle" /\ mode' = "trapped" /\ UNCHANGED <<program, frames, values>>

Trapping ==
  /\ Executing({"unreachable", "call", "call_indirect"})
  /\ mode' = "trapped" /\ frames' = << >> /\ UNCHANGED <<program, values>>

Operation ==
  /\ \/ Executing({"nop"}) /\ Put(WithVals(vals))
     \/ Executing({"const"}) /\ Put(WithVals(Append(vals, ins.value)))
     \/ /\ Executing({"unary"}) /\ Has(1)
        /\ Put(WithVals(Keep(vals, 1) \o
                        <<IF vals[Len(vals)] = 0 THEN 1 ELSE 0>>))
     \/ /\ Executing({"binary"}) /\ Has(2)
        /\ Put(WithVals(Keep(vals, 2) \o
             <<(vals[Len(vals) - 1] - vals[Len(vals)]) % Cardinality(Values)>>))
     \/ Executing({"drop"}) /\ Has(1) /\ Put(WithVals(Keep(vals, 1)))
     \/ Executing({"store"}) /\ Has(2) /\ Put(WithVals(Keep(vals, 2)))
     \/ /\ Executing({"select"}) /\ Has(3)
        /\ Put(WithVals(Keep(vals, 3) \o
             <<vals[Len(vals) - (IF vals[Len(vals)] = 0 THEN 1 ELSE 2)]>>))
     \/ /\ Executing({"local_get"})
        /\ Put(WithVals(Append(vals, cur.locals[ins.local + 1])))
     \/ /\ Executing({"local_set"}) /\ Has(1)
        /\ Put([WithVals(Keep(vals, 1)) EXCEPT
                  !.locals[ins.local + 1] = vals[Len(vals)]])
     \/ /\ Executing({"local_tee"}) /\ Has(1)
        /\ Put([WithVals(vals) EXCEPT !.locals[ins.local + 1] = vals[Len(vals)]])
  /\ Proceed

\* Entering a block moves its parameters into it.
Enter(f, n, arity, results, exit, loop) ==
  [f EXCEPT !.blocks =
     Append([f.blocks EXCEPT ![nest].vals = Keep(@, n)],
            [exit |-> exit, arity |-> arity, results |-> results, loop |-> loop,
             vals |-> TopOf(f.blocks[nest].vals, n)])]

BlockStep ==
  /\ Executing({"block", "loop"}) /\ Has(ins.params)
  /\ LET loop == ins.op = "loop"
     IN Put(Enter(WithVals(vals), ins.params,
              IF loop THEN ins.params ELSE ins.results, ins.results,
              IF loop THEN cur.pc + 1 ELSE EndOf(code, cur.pc + 1), loop))
  /\ Proceed

IfStep ==
  /\ Executing({"if"}) /\ Has(ins.params + 1)
  /\ LET i == cur.pc + 1
         f == WithVals(Keep(vals, 1))
         inner == Enter(f, ins.params, ins.results, ins.results, EndOf(code, i), FALSE)
     IN IF vals[Len(vals)] # 0 THEN Put(inner)
        ELSE IF ElseOf(code, i) # 0 THEN Put([inner EXCEPT !.pc = ElseOf(code, i)])
        ELSE Put([f EXCEPT !.pc = EndOf(code, i)])
  /\ Proceed

\* Leaving the n innermost blocks with the arity topmost values of s.
Outer(n, s, arity) ==
  LET kept == SubSeq(cur.blocks, 1, nest - n)
  IN [kept EXCEPT ![nest - n].vals = @ \o TopOf(s, arity)]

\* Returning hands the topmost values to the caller, or out of the machine.
ReturnWith(s) ==
  LET results == TopOf(s, program[cur.func].results)
      caller == frames[depth - 1]
      m == Len(caller.blocks)
  IN /\ Len(s) >= program[cur.func].results
     /\ IF depth = 1
        THEN frames' = << >> /\ mode' = "returned" /\ values' = results
        ELSE /\ frames' = [Keep(frames, 1) EXCEPT
                             ![depth - 1].blocks[m].vals = @ \o results]
             /\ UNCHANGED <<mode, values>>
     /\ UNCHANGED program

\* The end of a block, or the else a then-branch runs into.
EndStep ==
  /\ Executing({"end", "else"})
  /\ \/ nest = 1 /\ ReturnWith(vals)
     \/ /\ nest > 1 /\ Len(vals) = cur.blocks[nest].results
        /\ Put([cur EXCEPT !.blocks = Outer(1, vals, cur.blocks[nest].results),
                  !.pc = IF ins.op = "else" THEN cur.blocks[nest].exit ELSE @ + 1])
        /\ Proceed

ReturnStep == Executing({"return"}) /\ ReturnWith(vals)

Jump(s, l) ==
  LET b == cur.blocks[nest - l]
  IN \/ /\ l = nest - 1 /\ ReturnWith(s)
     \/ /\ l < nest - 1 /\ Len(s) >= b.arity
        /\ Put([cur EXCEPT !.pc = b.exit, !.blocks =
              IF b.loop
              THEN [SubSeq(@, 1, nest - l) EXCEPT ![nest - l].vals = TopOf(s, b.arity)]
              ELSE Outer(l + 1, s, b.arity)])
        /\ Proceed

BranchStep ==
  \/ Executing({"br"}) /\ Jump(vals, ins.label)
  \/ /\ Executing({"br_if"}) /\ Has(1)
     /\ IF vals[Len(vals)] # 0 THEN Jump(Keep(vals, 1), ins.label)
        ELSE Put(WithVals(Keep(vals, 1))) /\ Proceed
  \/ /\ Executing({"br_table"}) /\ Has(1)
     /\ LET n == Len(ins.labels)
            v == vals[Len(vals)]
        IN Jump(Keep(vals, 1), ins.labels[IF v < n - 1 THEN v + 1 ELSE n])

\* A call takes its arguments off the operands of the caller.
CallLocal(s, f) ==
  /\ program[f].kind = "local"
  /\ frames' = Append([frames EXCEPT ![depth] = WithVals(Keep(s, program[f].params))],
                      Activation(f, TopOf(s, program[f].params)))
  /\ Proceed

\* A call of the host gives any results, at once or after a suspension.
CallHost(s, f) ==
  /\ program[f].kind = "host"
  /\ \/ /\ \E r \in Tuples(program[f].results) :
             Put(WithVals(Keep(s, program[f].params) \o r))
        /\ Proceed
     \/ /\ Put(WithVals(Keep(s, program[f].params))) /\ mode' = "waiting"
        /\ UNCHANGED <<program, values>>

CallOf(s, f) ==
  /\ Len(s) >= program[f].params
  /\ CallLocal(s, f) \/ CallHost(s, f)

CallStep ==
  \E f \in DOMAIN program :
    \/ Executing({"call"}) /\ ins.func = f /\ CallOf(vals, f)
    \/ /\ Executing({"call_indirect"}) /\ Has(1)
       /\ vals[Len(vals)] + 1 \in DOMAIN table /\ table[vals[Len(vals)] + 1] = f
       /\ program[f].params = ins.params /\ program[f].results = ins.results
       /\ CallOf(Keep(vals, 1), f)

\* The results of a suspended host call arrive.
Wake ==
  /\ mode = "waiting"
  /\ LET i == code[cur.pc]
         n == IF i.op = "call" THEN program[i.func].results ELSE i.results
     IN \E r \in Tuples(n) : Put([cur EXCEPT !.blocks[nest].vals = @ \o r])
  /\ mode' = "running" /\ UNCHANGED <<program, values>>

-----------------------------------------------------------------------------
Init == mode = "idle" /\ frames = << >> /\ values = << >>

Next ==
  \/ \E f \in DOMAIN program : \E args \in Tuples(program[f].params) : Start(f, args)
  \/ Exhausted \/ Trapping \/ Operation \/ BlockStep \/ IfStep \/ EndStep
  \/ ReturnStep \/ BranchStep \/ CallStep \/ Wake

Spec == Init /\ [][Next]_<<program, frames, mode, values>>
=============================================================================
