------------------------------ MODULE Validator ------------------------------
(***************************************************************************)
(* The pass of WasmEngine::Validate over the function bodies:              *)
(* ValidateFunctionBody of src/src/wasm_engine.cpp runs once per local     *)
(* function, counts the nesting of labels and the height of the operand    *)
(* stack, and builds the table of jump targets that the interpreter then   *)
(* trusts without further checks (docs/wasm_vm_spec.md, 5.5).              *)
(*                                                                         *)
(* A body is a sequence of decoded instructions, so an offset into the     *)
(* code is the number of instructions before it.  The opcodes that only    *)
(* move operands are grouped by what they pop and push (Operands); types   *)
(* of values are not modelled because the code does not look at them.      *)
(***************************************************************************)
EXTENDS Integers, Sequences

CONSTANTS kWasmValidationMaxLabelDepth,  \* wasm_limits.hpp, 0xFFFF in the code
          kWasmValidationMaxStack,
          Instructions                   \* the decoded instructions of the bodies

ASSUME ValidatorLimits ==
  kWasmValidationMaxLabelDepth \in Nat /\ kWasmValidationMaxStack \in Nat

\* Counts of operands and immediates are varuint32; br_table has a default.
ASSUME InstructionTypes ==
  \A i \in Instructions :
    /\ i.op \in {"block", "loop", "if", "call_indirect"} =>
         i.params \in Nat /\ i.results \in Nat
    /\ i.op \in {"br", "br_if"} => i.label \in Nat
    /\ i.op = "br_table" => i.labels \in Seq(Nat) /\ i.labels # << >>
    /\ i.op \in {"local_get", "local_set", "local_tee"} => i.local \in Nat

VARIABLES
  functions,  \* WasmModuleInstance::functions, one module
  func_idx,   \* the function Validate() is at
  phase,      \* "begin": before a body, "scan": inside one, "done"
  scan,       \* the local variables of ValidateFunctionBody
  verdict     \* the WasmResult of Validate() so far

valVars == <<functions, func_idx, phase, scan, verdict>>

NoScan == [ip |-> 0, labels |-> << >>, jumps |-> << >>, depth |-> 0,
           max_depth |-> 0, max_labels |-> 0, unreachable |-> FALSE,
           pre_max |-> 0, pre_blocks |-> 0]

Larger(a, b) == IF a > b THEN a ELSE b

\* What an opcode of each group pops after its check and pushes; the checks of
\* the unary group are missing in the code, the binary group tests one operand.
Operands == [nop |-> <<0, 0>>, const |-> <<0, 1>>, unary |-> <<0, 0>>,
             binary |-> <<1, 0>>, drop |-> <<1, 0>>, select |-> <<2, 0>>,
             store |-> <<2, 0>>, local_get |-> <<0, 1>>,
             local_set |-> <<1, 0>>, local_tee |-> <<0, 0>>, br_if |-> <<1, 0>>]

LocalOps == {"local_get", "local_set", "local_tee"}
BlockOps == {"block", "loop"}

Code == functions[func_idx].code
Instr == Code[scan.ip + 1]
TotalLocals(f) == f.params + f.local_count
FirstLabel(f) == [entry |-> 0, results |-> f.results, jump |-> 0]

\* The first pass: it measures the nesting of labels, never below 1, and the
\* number of block and if opcodes, which size the two temporary buffers.
PreStart == [top |-> 1, max |-> 1, blocks |-> 0, ok |-> TRUE]

PreNext(s, op) ==
  IF op \in BlockOps \union {"if"}
  THEN [top |-> s.top + 1, max |-> Larger(s.max, s.top + 1),
        blocks |-> s.blocks + (IF op = "loop" THEN 0 ELSE 1),
        ok |-> s.ok /\ s.top < kWasmValidationMaxLabelDepth]
  ELSE IF op = "end" /\ s.top > 1 THEN [s EXCEPT !.top = @ - 1]
  ELSE s

PreScan(code) ==
  LET step[n \in 0..Len(code)] ==
        IF n = 0 THEN PreStart ELSE PreNext(step[n - 1], code[n].op)
  IN step[Len(code)]

-----------------------------------------------------------------------------
Stop(r) ==
  /\ phase' = "done" /\ verdict' = r /\ scan' = NoScan
  /\ UNCHANGED <<functions, func_idx>>

\* Validate() steps over imported and host functions.
SkipFunction ==
  /\ phase = "begin" /\ func_idx <= Len(functions)
  /\ functions[func_idx].kind # "local"
  /\ func_idx' = func_idx + 1
  /\ UNCHANGED <<functions, phase, scan, verdict>>

AllValidated ==
  /\ phase = "begin" /\ func_idx > Len(functions)
  /\ phase' = "done"
  /\ UNCHANGED <<functions, func_idx, scan, verdict>>

\* The first pass and the two temporary allocations; either may fail.
BeginBody ==
  /\ phase = "begin" /\ func_idx <= Len(functions)
  /\ functions[func_idx].kind = "local"
  /\ LET p == PreScan(Code)
     IN \/ ~p.ok /\ Stop("kErrorValidationFailed")
        \/ p.ok /\ Stop("kErrorOutOfMemory")
        \/ /\ p.ok
           /\ scan' = [NoScan EXCEPT
                !.labels = <<FirstLabel(functions[func_idx])>>,
                !.max_labels = 1, !.pre_max = p.max, !.pre_blocks = p.blocks]
           /\ phase' = "scan"
           /\ UNCHANGED <<functions, func_idx, verdict>>

Scanning == phase = "scan" /\ scan.ip < Len(Code)
At(ops) == Scanning /\ Instr.op \in ops

Enough(n) == scan.depth >= n \/ scan.unreachable
Popped(d, n) == IF d >= n THEN d - n ELSE d
\* call and call_indirect empty the stack instead when operands are missing.
PoppedAll(d, n) == IF d >= n THEN d - n ELSE 0

LabelInRange(l) == l < Len(scan.labels)

LocalInRange_OffByOne(i) == i.local <= TotalLocals(functions[func_idx])
LocalInRange(i) == i.local < TotalLocals(functions[func_idx])

\* The checks of one instruction, in every case of the switch.
Acceptable(i) ==
  /\ i.op \in BlockOps => Enough(i.params)
  /\ i.op = "if" => Enough(1)
  /\ i.op \in BlockOps \union {"if"} =>
       Len(scan.labels) < kWasmValidationMaxLabelDepth
  /\ i.op \in {"br", "br_if"} => LabelInRange(i.label)
  /\ i.op = "br_table" =>
       Enough(1) /\ \A k \in DOMAIN i.labels : LabelInRange(i.labels[k])
  /\ i.op = "call" =>
       i.func \in DOMAIN functions /\ Enough(functions[i.func].params)
  /\ i.op = "call_indirect" => Enough(i.params + 1)
  /\ i.op \in LocalOps => LocalInRange(i)
  /\ i.op \in DOMAIN Operands => Enough(Operands[i.op][1])

\* kErrorValidationFailed: both temporary buffers are freed on the way out.
RejectInstruction ==
  /\ Scanning /\ ~Acceptable(Instr) /\ Stop("kErrorValidationFailed")

Advance_NoSample(s) ==
  /\ scan' = [s EXCEPT !.ip = @ + 1]
  /\ UNCHANGED <<functions, func_idx, phase, verdict>>

\* The height is sampled before each instruction.
Advance(s) ==
  /\ scan' = [s EXCEPT !.ip = @ + 1,
                       !.max_depth = Larger(@, scan.depth)]
  /\ UNCHANGED <<functions, func_idx, phase, verdict>>

Accepting(ops) == At(ops) /\ Acceptable(Instr)

PushLabel(s, label) ==
  [s EXCEPT !.labels = Append(@, label),
            !.max_labels = Larger(@, Len(s.labels) + 1)]

OpenJump_Front(s) ==
  [s EXCEPT !.jumps = <<[body |-> s.ip + 1, else |-> 0, end |-> 0]>> \o @]

\* A jump-table entry is opened at the offset behind the block type.
OpenJump(s) ==
  [s EXCEPT !.jumps = Append(@, [body |-> s.ip + 1, else |-> 0, end |-> 0])]

ScanBlock ==
  /\ Accepting(BlockOps)
  /\ LET entry == PoppedAll(scan.depth, Instr.params)
         label(j) == [entry |-> entry, results |-> Instr.results, jump |-> j]
     IN \/ /\ Instr.op = "loop"
           /\ Advance(PushLabel(scan, label(0)))
        \/ /\ Instr.op = "block"
           /\ Advance(PushLabel(OpenJump(scan), label(Len(scan.jumps) + 1)))

\* The condition is popped; the parameters of the block type are not.
ScanIf ==
  /\ Accepting({"if"})
  /\ LET s == [scan EXCEPT !.depth = Popped(@, 1)]
     IN Advance(PushLabel(OpenJump(s),
                  [entry |-> s.depth, results |-> Instr.results,
                   jump |-> Len(s.jumps) + 1]))

LastLabel == scan.labels[Len(scan.labels)]

SetJump(field) ==
  IF LastLabel.jump = 0 THEN scan.jumps
  ELSE [scan.jumps EXCEPT ![LastLabel.jump][field] = scan.ip + 1]

\* The then-branch is over: its height is dropped and code is live again.
ScanElse ==
  /\ Accepting({"else"})
  /\ \/ /\ scan.labels = << >>
        /\ Advance([scan EXCEPT !.unreachable = FALSE])
     \/ /\ scan.labels # << >>
        /\ Advance([scan EXCEPT !.depth = LastLabel.entry,
                                !.jumps = SetJump("else"),
                                !.unreachable = FALSE])

ScanEnd_NoResults ==
  /\ Accepting({"end"})
  /\ \/ /\ scan.labels = << >>
        /\ Advance([scan EXCEPT !.unreachable = FALSE])
     \/ /\ scan.labels # << >>
        /\ Advance([scan EXCEPT
             !.labels = SubSeq(@, 1, Len(@) - 1),
             !.depth = LastLabel.entry,
             !.jumps = SetJump("end"),
             !.unreachable = FALSE])

ScanEnd ==
  /\ Accepting({"end"})
  /\ \/ /\ scan.labels = << >>
        /\ Advance([scan EXCEPT !.unreachable = FALSE])
     \/ /\ scan.labels # << >>
        /\ Advance([scan EXCEPT
             !.labels = SubSeq(@, 1, Len(@) - 1),
             !.depth = LastLabel.entry + LastLabel.results,
             !.jumps = SetJump("end"),
             !.unreachable = FALSE])

\* unreachable, br, br_table and return: what follows is dead code.
ScanJump ==
  /\ Accepting({"unreachable", "br", "br_table", "return"})
  /\ Advance([scan EXCEPT !.unreachable = TRUE,
        !.depth = IF Instr.op = "br_table" THEN Popped(@, 1) ELSE @])

ScanCall ==
  /\ Accepting({"call"})
  /\ LET f == functions[Instr.func]
     IN Advance([scan EXCEPT !.depth = PoppedAll(@, f.params) + f.results])

ScanCallIndirect ==
  /\ Accepting({"call_indirect"})
  /\ Advance([scan EXCEPT !.depth =
        PoppedAll(Popped(@, 1), Instr.params) + Instr.results])

ScanOperands ==
  /\ Accepting(DOMAIN Operands)
  /\ LET o == Operands[Instr.op]
     IN Advance([scan EXCEPT !.depth = Popped(@, o[1]) + o[2]])

\* The end of the body: the two results are stored in the function, then the
\* jump table is copied to memory of its own, which may be missing.
EndBody ==
  /\ phase = "scan" /\ scan.ip = Len(Code)
  /\ LET depth == Larger(scan.max_depth, scan.depth)
         f == [functions[func_idx] EXCEPT !.max_label_depth = scan.max_labels,
                                          !.max_stack_depth = depth]
     IN \/ /\ depth > kWasmValidationMaxStack
           /\ Stop("kErrorValidationFailed")
        \/ /\ depth <= kWasmValidationMaxStack
           /\ functions' = [functions EXCEPT ![func_idx] =
                              [f EXCEPT !.block_jump_table = scan.jumps]]
           /\ func_idx' = func_idx + 1 /\ phase' = "begin"
           /\ scan' = NoScan /\ UNCHANGED verdict
        \/ /\ depth <= kWasmValidationMaxStack /\ scan.pre_blocks > 0
           /\ functions' = [functions EXCEPT ![func_idx] = f]
           /\ phase' = "done" /\ verdict' = "kErrorOutOfMemory"
           /\ scan' = NoScan /\ UNCHANGED func_idx

ValidatorInit ==
  /\ func_idx = 1 /\ phase = "begin" /\ scan = NoScan /\ verdict = "kOk"

ValidatorNext ==
  \/ SkipFunction \/ AllValidated \/ BeginBody \/ RejectInstruction
  \/ ScanBlock \/ ScanIf \/ ScanElse \/ ScanEnd \/ ScanJump
  \/ ScanCall \/ ScanCallIndirect \/ ScanOperands \/ EndBody

-----------------------------------------------------------------------------
JumpEntries == [body : Nat, else : Nat, end : Nat]
ValLabels == [entry : Int, results : Nat, jump : Nat]
Functions ==
  [kind : {"local", "host"}, params : Nat, results : Nat, local_count : Nat,
   code : Seq(Instructions), max_label_depth : Nat, max_stack_depth : Int,
   block_jump_table : Seq(JumpEntries)]

\* The variables of ValidateFunctionBody and the records it fills in keep
\* their types: no label or jump entry is read that was not written.
ValidatorTypeOK ==
  /\ functions \in Seq(Functions)
  /\ func_idx \in 1..(Len(functions) + 1)
  /\ phase \in {"begin", "scan", "done"}
  /\ scan \in [ip : Nat, labels : Seq(ValLabels), jumps : Seq(JumpEntries),
               depth : Int, max_depth : Int, max_labels : Nat,
               unreachable : BOOLEAN, pre_max : {scan.pre_max},
               pre_blocks : {scan.pre_blocks}]
  /\ verdict \in {"kOk", "kErrorValidationFailed", "kErrorOutOfMemory"}

\* The temporary buffers are sized by the first pass and written by the second
\* without a bound test (lines 1385-1472): whatever the body is, the labels
\* and the jump entries of the second pass fit the sizes the first one took.
BuffersFit ==
  phase = "scan" =>
    /\ Len(scan.labels) <= scan.pre_max
    /\ Len(scan.jumps) <= scan.pre_blocks

\* FindBlockJump searches the table by halving: its entries are in strictly
\* ascending order of body_offset, and an offset that is set lies behind it.
Ascending(jumps) ==
  /\ \A j, k \in DOMAIN jumps : j < k => jumps[j].body < jumps[k].body
  /\ \A j \in DOMAIN jumps :
       /\ jumps[j].else # 0 => jumps[j].else > jumps[j].body
       /\ jumps[j].end # 0 => jumps[j].end > jumps[j].body

JumpTablesAscend ==
  /\ Ascending(scan.jumps)
  /\ \A f \in DOMAIN functions : Ascending(functions[f].block_jump_table)

\* What docs/wasm_vm_spec.md, 5.5, lets the interpreter leave out: in every
\* function that was validated, and in the part of a body that was scanned,
\* calls name a function and local instructions a local.
InRange(f, i) ==
  /\ i.op = "call" => i.func \in DOMAIN functions
  /\ i.op \in LocalOps => i.local < TotalLocals(functions[f])

Scanned(f) ==
  IF functions[f].kind # "local" THEN 0
  ELSE IF f < func_idx THEN Len(functions[f].code)
  ELSE IF f = func_idx /\ phase = "scan" THEN scan.ip
  ELSE 0

IndicesChecked ==
  \A f \in DOMAIN functions : \A k \in 1..Scanned(f) :
    InRange(f, functions[f].code[k])
=============================================================================
