-------------------------- MODULE InterpreterProofs --------------------------
(***************************************************************************)
(* Proofs about Validator and Interpreter, for every choice of the         *)
(* modules, limits and tables: what the validator leaves behind for the    *)
(* interpreter, and how the interpreter divides the label pool.            *)
(*                                                                         *)
(* The second part compares the validator with the checker of Typing.  On  *)
(* a valid body the second pass is where the checker is, and what it       *)
(* stores in the function certifies the body: capacities that no state of  *)
(* the checker exceeds where code is live, and jump entries that say where *)
(* the body goes on.                                                       *)
(*                                                                         *)
(* The third part proves that validated code is type sound.  In every      *)
(* frame of the call stack the interpreter is where the checker is, so     *)
(* that what RunLoop does not test is true.                                *)
(***************************************************************************)
EXTENDS Typing, LinkedListLemmas, TLAPS, SequenceTheorems

\* The counts of Operands are natural numbers.
LEMMA OperandCounts ==
  \A op \in DOMAIN Operands : Operands[op][1] \in Nat /\ Operands[op][2] \in Nat
<1>1. DOMAIN Operands = {"nop", "const", "unary", "binary", "drop", "select",
                         "store", "local_get", "local_set", "local_tee", "br_if"}
  BY DEF Operands
<1>2. QED BY <1>1 DEF Operands

-----------------------------------------------------------------------------
(* The validator *)

ScanRecs ==
  [ip : Nat, labels : Seq(ValLabels), jumps : Seq(JumpEntries), depth : Int,
   max_depth : Int, max_labels : Nat, unreachable : BOOLEAN,
   pre_max : {scan.pre_max}, pre_blocks : {scan.pre_blocks}]

JumpsOK(jumps, ip) ==
  Ascending(jumps) /\ \A j \in DOMAIN jumps : jumps[j].body <= ip

LabelsJump(s) == \A k \in DOMAIN s.labels : s.labels[k].jump <= Len(s.jumps)

\* Where the validator is and what is true there.
Progress ==
  /\ phase = "scan" =>
       /\ func_idx \in DOMAIN functions /\ functions[func_idx].kind = "local"
       /\ scan.ip <= Len(Code)
  /\ phase = "done" /\ verdict = "kOk" => func_idx = Len(functions) + 1
  /\ \A k \in DOMAIN table : table[k] \in 0..Len(functions)

Behind == JumpsOK(scan.jumps, scan.ip) /\ LabelsJump(scan)

ValInv ==
  ValidatorTypeOK /\ JumpTablesAscend /\ IndicesChecked /\ Behind /\ Progress

LEMMA OpenedKeeps ==
  ASSUME NEW jumps \in Seq(JumpEntries), NEW ip \in Nat, JumpsOK(jumps, ip),
         NEW e, e = [body |-> ip + 1, else |-> 0, end |-> 0]
  PROVE  /\ Append(jumps, e) \in Seq(JumpEntries)
         /\ Len(Append(jumps, e)) = Len(jumps) + 1
         /\ JumpsOK(Append(jumps, e), ip + 1)
<1>1. e \in JumpEntries BY DEF JumpEntries
<1>2. /\ Append(jumps, e) \in Seq(JumpEntries)
      /\ Len(Append(jumps, e)) = Len(jumps) + 1
      /\ \A j \in 1..Len(jumps) : Append(jumps, e)[j] = jumps[j]
      /\ Append(jumps, e)[Len(jumps) + 1] = e
  BY <1>1
<1> DEFINE t == Append(jumps, e)
<1>3. \A j \in DOMAIN t : t[j] = IF j \in DOMAIN jumps THEN jumps[j] ELSE e
  BY <1>2
<1>4. \A j \in DOMAIN jumps : jumps[j] \in JumpEntries OBVIOUS
<1>5. DOMAIN t = 1..(Len(jumps) + 1) /\ DOMAIN jumps = 1..Len(jumps)
  BY <1>2
<1> HIDE DEF t
<1>6. \A j \in DOMAIN t : t[j].body <= ip + 1
  BY <1>3, <1>4 DEF JumpsOK, JumpEntries
<1>7. \A j, k \in DOMAIN t : j < k => t[j].body < t[k].body
  BY <1>3, <1>4, <1>5 DEF JumpsOK, JumpEntries, Ascending
<1>8. \A j \in DOMAIN t : /\ t[j].else # 0 => t[j].else > t[j].body
                          /\ t[j].end # 0 => t[j].end > t[j].body
  BY <1>3, <1>4, <1>5 DEF JumpsOK, JumpEntries, Ascending
<1>9. JumpsOK(t, ip + 1) BY <1>6, <1>7, <1>8 DEF JumpsOK, Ascending
<1>10. QED BY <1>2, <1>9 DEF t

LEMMA SetKeeps ==
  ASSUME NEW jumps \in Seq(JumpEntries), NEW ip \in Nat, JumpsOK(jumps, ip),
         NEW i \in DOMAIN jumps, NEW field \in {"else", "end"},
         NEW t, t = [jumps EXCEPT ![i][field] = ip + 1]
  PROVE  /\ t \in Seq(JumpEntries) /\ Len(t) = Len(jumps)
         /\ JumpsOK(t, ip + 1)
<1> DEFINE e == [jumps[i] EXCEPT ![field] = ip + 1]
           u == [jumps EXCEPT ![i] = e]
<1>u. t = u OBVIOUS
<1>0. jumps[i] \in JumpEntries /\ ip + 1 \in Nat OBVIOUS
<1>1. e \in JumpEntries
  <2>1. CASE field = "else" BY <1>0, <2>1 DEF JumpEntries
  <2>2. CASE field = "end" BY <1>0, <2>2 DEF JumpEntries
  <2>3. QED BY <2>1, <2>2
<1>2. /\ e.body = jumps[i].body
      /\ e.else \in {jumps[i].else, ip + 1} /\ e.end \in {jumps[i].end, ip + 1}
  BY DEF JumpEntries
<1> HIDE DEF e
<1>v. u \in Seq(JumpEntries) /\ Len(u) = Len(jumps) /\ DOMAIN u = DOMAIN jumps
  BY <1>1
<1>3. t \in Seq(JumpEntries) /\ Len(t) = Len(jumps) /\ DOMAIN t = DOMAIN jumps
  BY <1>u, <1>v
<1>4. \A j \in DOMAIN t : t[j] = IF j = i THEN e ELSE jumps[j]
  BY <1>u, <1>v
<1>5. \A j \in DOMAIN jumps : jumps[j] \in JumpEntries OBVIOUS
<1>6. \A j \in DOMAIN t : t[j].body = jumps[j].body
  BY <1>2, <1>3, <1>4
<1>7. \A j, k \in DOMAIN t : j < k => t[j].body < t[k].body
  BY <1>3, <1>6 DEF JumpsOK, Ascending
<1>8. \A j \in DOMAIN t : t[j].body <= ip + 1
  BY <1>3, <1>5, <1>6 DEF JumpsOK, JumpEntries
<1>9. \A j \in DOMAIN t : /\ t[j].else # 0 => t[j].else > t[j].body
                          /\ t[j].end # 0 => t[j].end > t[j].body
  <2>1. TAKE j \in DOMAIN t
  <2>2. /\ jumps[j].else # 0 => jumps[j].else > jumps[j].body
        /\ jumps[j].end # 0 => jumps[j].end > jumps[j].body
        /\ jumps[j].body <= ip /\ jumps[j].body \in Nat
    BY <1>3, <1>5 DEF JumpsOK, JumpEntries, Ascending
  <2>3. ip + 1 > t[j].body BY <1>6, <2>2
  <2>4. CASE j = i BY <1>2, <1>4, <1>6, <2>2, <2>3, <2>4
  <2>5. CASE j # i BY <1>4, <2>2, <2>5
  <2>6. QED BY <2>4, <2>5
<1>10. JumpsOK(t, ip + 1) BY <1>7, <1>8, <1>9 DEF JumpsOK, Ascending
<1>11. QED BY <1>3, <1>10

\* What the checks of an instruction establish for the interpreter.
LEMMA AcceptableInRange ==
  ASSUME Acceptable(Instr)
  PROVE  InRange(func_idx, Instr)
<1> DEFINE i == Instr
<1> HIDE DEF i
<1>1. ASSUME Acceptable(i) PROVE InRange(func_idx, i)
  <2>1. i.op = "call" => i.func \in DOMAIN functions
    BY <1>1, Zenon DEF Acceptable
  <2>2. i.op \in LocalOps => LocalInRange(i)
    BY <1>1, Zenon DEF Acceptable
  <2>3. QED BY <2>1, <2>2 DEF InRange, LocalInRange
<1>2. QED BY <1>1 DEF i

LEMMA LargerInt == ASSUME NEW a \in Int, NEW b \in Int PROVE Larger(a, b) \in Int
BY DEF Larger

LEMMA FunctionFields ==
  ASSUME ValidatorTypeOK, NEW f \in DOMAIN functions
  PROVE  /\ functions[f] \in Functions /\ Len(functions[f].code) \in Nat
         /\ functions[f].code \in Seq(Instructions)
         /\ DOMAIN functions[f].code = 1..Len(functions[f].code)
<1>1. functions[f] \in Functions BY DEF ValidatorTypeOK
<1>2. functions[f].code \in Seq(Instructions) BY <1>1 DEF Functions
<1>3. QED BY <1>1, <1>2

\* Every accepted instruction advances by one and leaves a record of the same
\* type with the jump entries in order: what the actions below have to show.
LEMMA AdvanceKeeps ==
  ASSUME ValInv, Scanning, Acceptable(Instr),
         NEW s \in ScanRecs, s.ip = scan.ip,
         JumpsOK(s.jumps, scan.ip + 1), LabelsJump(s), Advance(s)
  PROVE  ValInv'
<1>0. /\ scan \in ScanRecs /\ phase = "scan" /\ scan.ip < Len(Code)
      /\ func_idx \in DOMAIN functions /\ func_idx \in Nat
  BY DEF ValInv, ValidatorTypeOK, ScanRecs, Scanning, Progress
<1>1. /\ scan' = [s EXCEPT !.ip = @ + 1, !.max_depth = Larger(@, scan.depth)]
      /\ UNCHANGED <<functions, func_idx, phase, verdict>>
  BY DEF Advance
<1>2. scan.depth \in Int /\ s.max_depth \in Int /\ scan.ip \in Nat
  BY <1>0 DEF ScanRecs
<1>3. Larger(s.max_depth, scan.depth) \in Int BY <1>2, LargerInt
<1>4. /\ scan'.ip = scan.ip + 1 /\ scan'.jumps = s.jumps /\ scan'.labels = s.labels
      /\ scan' \in ScanRecs /\ scan'.pre_max = scan.pre_max
      /\ scan'.pre_blocks = scan.pre_blocks
  <2> DEFINE m == Larger(s.max_depth, scan.depth)
             t == [s EXCEPT !.ip = @ + 1, !.max_depth = m]
  <2>1. m \in Int /\ s.ip + 1 = scan.ip + 1 /\ s.ip + 1 \in Nat BY <1>2, <1>3
  <2>2. scan' = t BY <1>1
  <2> HIDE DEF m
  <2>3. t \in ScanRecs BY <2>1 DEF ScanRecs
  <2>4. /\ t.ip = scan.ip + 1 /\ t.jumps = s.jumps /\ t.labels = s.labels
        /\ t.pre_max = s.pre_max /\ t.pre_blocks = s.pre_blocks
    BY <2>1 DEF ScanRecs
  <2>5. s.pre_max = scan.pre_max /\ s.pre_blocks = scan.pre_blocks
    BY DEF ScanRecs
  <2>6. QED BY <2>2, <2>3, <2>4, <2>5
<1>5. ValidatorTypeOK'
  <2>1. (scan \in ScanRecs)'
    BY <1>4 DEF ScanRecs
  <2>2. QED BY <1>1, <2>1 DEF ValInv, ValidatorTypeOK, ScanRecs
<1>6. JumpTablesAscend'
  BY <1>1, <1>4 DEF ValInv, JumpTablesAscend, JumpsOK
<1>7. Behind'
  BY <1>4 DEF Behind, LabelsJump, JumpsOK
<1>8. Progress'
  <2>1. Len(Code) \in Nat /\ scan.ip + 1 <= Len(Code)
    BY <1>0, <1>2, FunctionFields DEF ValInv, Code
  <2>2. QED BY <1>0, <1>1, <1>4, <2>1 DEF ValInv, Progress, Code
<1>9. IndicesChecked'
  <2> SUFFICES ASSUME NEW f \in DOMAIN functions, NEW k \in 1..Scanned(f)'
               PROVE  InRange(f, functions[f].code[k])'
    BY <1>1 DEF IndicesChecked
  <2>1. InRange(f, functions[f].code[k])' <=> InRange(f, functions[f].code[k])
    BY <1>1 DEF InRange, TotalLocals
  <2>2. CASE f = func_idx /\ k = scan.ip + 1
    BY <2>1, <2>2, AcceptableInRange DEF Instr, Code
  <2>3. CASE ~(f = func_idx /\ k = scan.ip + 1)
    <3>1. k \in 1..Scanned(f)
      BY <1>0, <1>1, <1>2, <1>4, <2>3 DEF Scanned
    <3>2. QED BY <2>1, <3>1 DEF ValInv, IndicesChecked
  <2>4. QED BY <2>2, <2>3
<1>10. QED BY <1>5, <1>6, <1>7, <1>8, <1>9 DEF ValInv

LEMMA PoppedInt ==
  ASSUME NEW d \in Int, NEW n \in Nat
  PROVE  Popped(d, n) \in Int /\ PoppedAll(d, n) \in Int
BY DEF Popped, PoppedAll

\* What is known about the instruction the validator is at.
LEMMA AtInstr ==
  ASSUME ValInv, Scanning
  PROVE  /\ Instr \in Instructions /\ scan \in ScanRecs /\ func_idx \in DOMAIN functions
         /\ scan.ip \in Nat /\ scan.depth \in Int
         /\ scan.jumps \in Seq(JumpEntries) /\ scan.labels \in Seq(ValLabels)
         /\ JumpsOK(scan.jumps, scan.ip) /\ LabelsJump(scan)
<1>1. func_idx \in DOMAIN functions /\ scan.ip < Len(Code) /\ scan \in ScanRecs
  BY DEF ValInv, Scanning, Progress, ValidatorTypeOK, ScanRecs
<1>2. scan.ip \in Nat /\ scan.depth \in Int /\ scan.jumps \in Seq(JumpEntries)
      /\ scan.labels \in Seq(ValLabels)
  BY <1>1 DEF ScanRecs
<1>3. Code \in Seq(Instructions) /\ Len(Code) \in Nat
  BY <1>1, FunctionFields DEF ValInv, Code
<1>4. Instr \in Instructions BY <1>1, <1>2, <1>3 DEF Instr
<1>5. QED BY <1>1, <1>2, <1>4 DEF ValInv, Behind

\* An instruction that opens no entry leaves the entries in order.
LEMMA JumpsStay ==
  ASSUME NEW jumps \in Seq(JumpEntries), NEW ip \in Nat, JumpsOK(jumps, ip)
  PROVE  JumpsOK(jumps, ip + 1)
<1>0. \A j \in DOMAIN jumps : jumps[j] \in JumpEntries OBVIOUS
<1>1. \A j \in DOMAIN jumps : jumps[j].body \in Nat
  BY <1>0 DEF JumpEntries
<1>2. QED BY <1>1 DEF JumpsOK

\* A new label on top names an entry that exists.
LEMMA PushLabelKeeps ==
  ASSUME NEW s \in ScanRecs, LabelsJump(s),
         NEW l \in ValLabels, l.jump <= Len(s.jumps)
  PROVE  /\ PushLabel(s, l) \in ScanRecs
         /\ PushLabel(s, l).ip = s.ip /\ PushLabel(s, l).jumps = s.jumps
         /\ LabelsJump(PushLabel(s, l))
<1> DEFINE labels == Append(s.labels, l)
           m == Larger(s.max_labels, Len(s.labels) + 1)
           t == [s EXCEPT !.labels = labels, !.max_labels = m]
<1>1. s.labels \in Seq(ValLabels) /\ s.max_labels \in Nat BY DEF ScanRecs
<1>2. labels \in Seq(ValLabels) BY <1>1
<1>3. m \in Nat BY <1>1 DEF Larger
<1>4. \A k \in DOMAIN labels :
        labels[k] = l \/ (k \in DOMAIN s.labels /\ labels[k] = s.labels[k])
  BY <1>1
<1> HIDE DEF labels, m
<1>5. t \in ScanRecs BY <1>2, <1>3 DEF ScanRecs
<1>6. t.ip = s.ip /\ t.jumps = s.jumps /\ t.labels = labels BY DEF ScanRecs
<1>7. LabelsJump(t) BY <1>4, <1>6 DEF LabelsJump
<1>8. PushLabel(s, l) = t BY DEF PushLabel, labels, m
<1>9. QED BY <1>5, <1>6, <1>7, <1>8

LEMMA OpenJumpKeeps ==
  ASSUME NEW s \in ScanRecs, LabelsJump(s), JumpsOK(s.jumps, s.ip)
  PROVE  /\ OpenJump(s) \in ScanRecs /\ OpenJump(s).ip = s.ip
         /\ Len(OpenJump(s).jumps) = Len(s.jumps) + 1
         /\ JumpsOK(OpenJump(s).jumps, s.ip + 1) /\ LabelsJump(OpenJump(s))
<1> DEFINE e == [body |-> s.ip + 1, else |-> 0, end |-> 0]
           jumps == Append(s.jumps, e)
           t == [s EXCEPT !.jumps = jumps]
<1>1. s.jumps \in Seq(JumpEntries) /\ s.ip \in Nat /\ s.labels \in Seq(ValLabels)
  BY DEF ScanRecs
<1>2. jumps \in Seq(JumpEntries) /\ Len(jumps) = Len(s.jumps) + 1
      /\ JumpsOK(jumps, s.ip + 1)
  BY <1>1, OpenedKeeps
<1>3. \A k \in DOMAIN s.labels : s.labels[k].jump \in Nat
  <2>1. \A k \in DOMAIN s.labels : s.labels[k] \in ValLabels BY <1>1
  <2>2. QED BY <2>1 DEF ValLabels
<1>4. Len(s.jumps) \in Nat BY <1>1
<1> HIDE DEF jumps
<1>5. t \in ScanRecs BY <1>2 DEF ScanRecs
<1>6. t.ip = s.ip /\ t.jumps = jumps /\ t.labels = s.labels BY DEF ScanRecs
<1>7. LabelsJump(t) BY <1>2, <1>3, <1>4, <1>6 DEF LabelsJump
<1>8. OpenJump(s) = t BY DEF OpenJump, jumps
<1>9. QED BY <1>2, <1>5, <1>6, <1>7, <1>8

LEMMA ScanBlockKeeps == ASSUME ValInv, ScanBlock PROVE ValInv'
<1>1. Scanning /\ Acceptable(Instr) /\ Instr.op \in BlockOps
  BY DEF ScanBlock, Accepting, At
<1>2. PICK entry, l, j :
        /\ entry = PoppedAll(scan.depth, Instr.params)
        /\ l = [entry |-> entry, results |-> Instr.results, jump |-> j]
        /\ \/ j = 0 /\ Advance(PushLabel(scan, l))
           \/ j = Len(scan.jumps) + 1 /\ Advance(PushLabel(OpenJump(scan), l))
  BY DEF ScanBlock
<1>3. Instr.params \in Nat /\ Instr.results \in Nat
  BY <1>1, AtInstr, InstructionTypes DEF BlockOps
<1>4. entry \in Int BY <1>1, <1>2, <1>3, AtInstr, PoppedInt
<1>5. CASE j = 0 /\ Advance(PushLabel(scan, l))
  <2>1. l \in ValLabels /\ l.jump <= Len(scan.jumps)
    BY <1>1, <1>2, <1>3, <1>4, <1>5, AtInstr DEF ValLabels
  <2>2. JumpsOK(scan.jumps, scan.ip + 1) BY <1>1, AtInstr, JumpsStay
  <2>3. scan \in ScanRecs /\ LabelsJump(scan) BY <1>1, AtInstr
  <2> DEFINE s == PushLabel(scan, l)
  <2>4. s \in ScanRecs /\ s.ip = scan.ip /\ s.jumps = scan.jumps /\ LabelsJump(s)
    BY <2>1, <2>3, PushLabelKeeps
  <2> HIDE DEF s
  <2>5. Advance(s) BY <1>5 DEF s
  <2>6. QED BY <1>1, <2>2, <2>4, <2>5, AdvanceKeeps
<1>6. CASE j = Len(scan.jumps) + 1 /\ Advance(PushLabel(OpenJump(scan), l))
  <2>1. l \in ValLabels /\ l.jump = Len(scan.jumps) + 1
    BY <1>1, <1>2, <1>3, <1>4, <1>6, AtInstr DEF ValLabels
  <2> DEFINE o == OpenJump(scan)
             s == PushLabel(o, l)
  <2>2. /\ o \in ScanRecs /\ o.ip = scan.ip /\ Len(o.jumps) = Len(scan.jumps) + 1
        /\ JumpsOK(o.jumps, scan.ip + 1) /\ LabelsJump(o)
    BY <1>1, AtInstr, OpenJumpKeeps
  <2>3. Advance(s) BY <1>6
  <2> HIDE DEF o
  <2>4. s \in ScanRecs /\ s.ip = o.ip /\ s.jumps = o.jumps /\ LabelsJump(s)
    BY <1>1, <2>1, <2>2, AtInstr, PushLabelKeeps
  <2> HIDE DEF s
  <2>5. QED BY <1>1, <2>2, <2>3, <2>4, AdvanceKeeps
<1>7. QED BY <1>2, <1>5, <1>6

LEMMA ScanIfKeeps == ASSUME ValInv, ScanIf PROVE ValInv'
<1>1. Scanning /\ Acceptable(Instr) /\ Instr.op = "if"
  BY DEF ScanIf, Accepting, At
<1> DEFINE d == [scan EXCEPT !.depth = Popped(@, 1)]
           o == OpenJump(d)
           l == [entry |-> d.depth, results |-> Instr.results, jump |-> Len(d.jumps) + 1]
           s == PushLabel(o, l)
<1>2. Advance(s) BY DEF ScanIf
<1>3. Instr.results \in Nat BY <1>1, AtInstr, InstructionTypes
<1>4. Popped(scan.depth, 1) \in Int BY <1>1, AtInstr, PoppedInt
<1>5. d \in ScanRecs /\ d.ip = scan.ip /\ d.jumps = scan.jumps /\ d.labels = scan.labels
      /\ d.depth \in Int
  BY <1>1, <1>4, AtInstr DEF ScanRecs
<1>6. JumpsOK(d.jumps, d.ip) /\ LabelsJump(d) /\ Len(d.jumps) \in Nat
  BY <1>1, <1>5, AtInstr DEF LabelsJump
<1> HIDE DEF d
<1>7. /\ o \in ScanRecs /\ o.ip = scan.ip /\ Len(o.jumps) = Len(d.jumps) + 1
      /\ JumpsOK(o.jumps, scan.ip + 1) /\ LabelsJump(o)
  BY <1>5, <1>6, OpenJumpKeeps
<1>8. l \in ValLabels /\ l.jump <= Len(o.jumps)
  BY <1>3, <1>5, <1>6, <1>7 DEF ValLabels
<1> HIDE DEF o, l
<1>9. s \in ScanRecs /\ s.ip = o.ip /\ s.jumps = o.jumps /\ LabelsJump(s)
  BY <1>7, <1>8, PushLabelKeeps
<1> HIDE DEF s
<1>10. QED BY <1>1, <1>2, <1>7, <1>9, AdvanceKeeps

LEMMA SetJumpKeeps ==
  ASSUME ValInv, Scanning, scan.labels # << >>, NEW field \in {"else", "end"}
  PROVE  /\ SetJump(field) \in Seq(JumpEntries)
         /\ Len(SetJump(field)) = Len(scan.jumps)
         /\ JumpsOK(SetJump(field), scan.ip + 1)
         /\ LastLabel \in ValLabels
<1>1. scan.labels \in Seq(ValLabels) /\ LabelsJump(scan) BY AtInstr
<1>2. LastLabel \in ValLabels /\ LastLabel.jump <= Len(scan.jumps)
  BY <1>1 DEF LastLabel, LabelsJump
<1>3. LastLabel.jump \in Nat BY <1>2 DEF ValLabels
<1>4. CASE LastLabel.jump = 0
  BY <1>2, <1>4, AtInstr, JumpsStay DEF SetJump
<1>5. CASE LastLabel.jump # 0
  <2>1. LastLabel.jump \in DOMAIN scan.jumps
    BY <1>2, <1>3, <1>5, AtInstr
  <2>2. scan.jumps \in Seq(JumpEntries) /\ scan.ip \in Nat /\ JumpsOK(scan.jumps, scan.ip)
    BY AtInstr
  <2> DEFINE t == [scan.jumps EXCEPT ![LastLabel.jump][field] = scan.ip + 1]
  <2> DEFINE jumps == scan.jumps
             i == LastLabel.jump
  <2> HIDE DEF jumps, i
  <2>3. [jumps EXCEPT ![i][field] = scan.ip + 1] = t BY DEF jumps, i
  <2>4. i \in DOMAIN jumps /\ jumps \in Seq(JumpEntries) /\ JumpsOK(jumps, scan.ip)
    BY <2>1, <2>2 DEF jumps, i
  <2> HIDE DEF t
  <2>5. t \in Seq(JumpEntries) /\ Len(t) = Len(jumps) /\ JumpsOK(t, scan.ip + 1)
    BY <2>2, <2>3, <2>4, SetKeeps
  <2>6. SetJump(field) = t BY <1>5 DEF SetJump, t
  <2>7. QED BY <1>2, <2>5, <2>6 DEF jumps
<1>6. QED BY <1>4, <1>5

LEMMA ScanElseKeeps == ASSUME ValInv, ScanElse PROVE ValInv'
<1>1. Scanning /\ Acceptable(Instr) BY DEF ScanElse, Accepting, At
<1>2. JumpsOK(scan.jumps, scan.ip + 1) BY <1>1, AtInstr, JumpsStay
<1>3. CASE scan.labels = << >> /\ Advance([scan EXCEPT !.unreachable = FALSE])
  <2> DEFINE s == [scan EXCEPT !.unreachable = FALSE]
  <2>1. s \in ScanRecs /\ s.ip = scan.ip /\ s.jumps = scan.jumps /\ s.labels = scan.labels
    BY <1>1, AtInstr DEF ScanRecs
  <2>2. LabelsJump(s) BY <1>1, <2>1, AtInstr DEF LabelsJump
  <2>3. Advance(s) BY <1>3
  <2> HIDE DEF s
  <2>4. QED BY <1>1, <1>2, <2>1, <2>2, <2>3, AdvanceKeeps
<1>4. CASE scan.labels # << >> /\ Advance([scan EXCEPT !.depth = LastLabel.entry,
             !.jumps = SetJump("else"), !.unreachable = FALSE])
  <2> DEFINE jumps == SetJump("else")
             s == [scan EXCEPT !.depth = LastLabel.entry,
                               !.jumps = jumps, !.unreachable = FALSE]
  <2>1. jumps \in Seq(JumpEntries) /\ Len(jumps) = Len(scan.jumps)
        /\ JumpsOK(jumps, scan.ip + 1) /\ LastLabel \in ValLabels
    BY <1>1, <1>4, SetJumpKeeps
  <2>2. LastLabel.entry \in Int BY <2>1 DEF ValLabels
  <2>3. Advance(s) BY <1>4
  <2> HIDE DEF jumps
  <2>4. s \in ScanRecs /\ s.ip = scan.ip /\ s.jumps = jumps /\ s.labels = scan.labels
    BY <1>1, <2>1, <2>2, AtInstr DEF ScanRecs
  <2>5. LabelsJump(s) BY <1>1, <2>1, <2>4, AtInstr DEF LabelsJump
  <2> HIDE DEF s
  <2>6. QED BY <1>1, <2>1, <2>3, <2>4, <2>5, AdvanceKeeps
<1>5. QED BY <1>3, <1>4 DEF ScanElse

LEMMA ScanEndKeeps == ASSUME ValInv, ScanEnd PROVE ValInv'
<1>1. Scanning /\ Acceptable(Instr) BY DEF ScanEnd, Accepting, At
<1>2. JumpsOK(scan.jumps, scan.ip + 1) BY <1>1, AtInstr, JumpsStay
<1>3. CASE scan.labels = << >> /\ Advance([scan EXCEPT !.unreachable = FALSE])
  <2> DEFINE s == [scan EXCEPT !.unreachable = FALSE]
  <2>1. s \in ScanRecs /\ s.ip = scan.ip /\ s.jumps = scan.jumps /\ s.labels = scan.labels
    BY <1>1, AtInstr DEF ScanRecs
  <2>2. LabelsJump(s) BY <1>1, <2>1, AtInstr DEF LabelsJump
  <2>3. Advance(s) BY <1>3
  <2> HIDE DEF s
  <2>4. QED BY <1>1, <1>2, <2>1, <2>2, <2>3, AdvanceKeeps
<1>4. CASE /\ scan.labels # << >>
           /\ Advance([scan EXCEPT !.labels = SubSeq(@, 1, Len(@) - 1),
                !.depth = LastLabel.entry + LastLabel.results,
                !.jumps = SetJump("end"), !.unreachable = FALSE])
  <2> DEFINE jumps == SetJump("end")
             labels == SubSeq(scan.labels, 1, Len(scan.labels) - 1)
             s == [scan EXCEPT !.labels = labels,
                               !.depth = LastLabel.entry + LastLabel.results,
                               !.jumps = jumps, !.unreachable = FALSE]
  <2>1. jumps \in Seq(JumpEntries) /\ Len(jumps) = Len(scan.jumps)
        /\ JumpsOK(jumps, scan.ip + 1) /\ LastLabel \in ValLabels
    BY <1>1, <1>4, SetJumpKeeps
  <2>2. LastLabel.entry + LastLabel.results \in Int BY <2>1 DEF ValLabels
  <2>3. Advance(s) BY <1>4
  <2>4. /\ scan.labels \in Seq(ValLabels) /\ Len(scan.labels) > 0
        /\ LabelsJump(scan)
    BY <1>1, <1>4, AtInstr
  <2>5. /\ labels \in Seq(ValLabels)
        /\ \A k \in DOMAIN labels : k \in DOMAIN scan.labels /\ labels[k] = scan.labels[k]
    BY <2>4
  <2> HIDE DEF jumps, labels
  <2>6. s \in ScanRecs /\ s.ip = scan.ip /\ s.jumps = jumps /\ s.labels = labels
    BY <1>1, <2>1, <2>2, <2>5, AtInstr DEF ScanRecs
  <2>7. LabelsJump(s) BY <2>1, <2>4, <2>5, <2>6 DEF LabelsJump
  <2> HIDE DEF s
  <2>8. QED BY <1>1, <2>1, <2>3, <2>6, <2>7, AdvanceKeeps
<1>5. QED BY <1>3, <1>4 DEF ScanEnd

\* The remaining instructions change the height and the reachability only.
LEMMA HeightKeeps ==
  ASSUME ValInv, Scanning, Acceptable(Instr),
         NEW d \in Int, NEW u \in BOOLEAN,
         Advance([scan EXCEPT !.unreachable = u, !.depth = d])
  PROVE  ValInv'
<1> DEFINE s == [scan EXCEPT !.unreachable = u, !.depth = d]
<1>1. s \in ScanRecs /\ s.ip = scan.ip /\ s.jumps = scan.jumps /\ s.labels = scan.labels
  BY AtInstr DEF ScanRecs
<1>2. LabelsJump(s) BY <1>1, AtInstr DEF LabelsJump
<1>3. JumpsOK(s.jumps, scan.ip + 1) BY <1>1, AtInstr, JumpsStay
<1>4. Advance(s) OBVIOUS
<1> HIDE DEF s
<1>5. QED BY <1>1, <1>2, <1>3, <1>4, AdvanceKeeps

LEMMA ScanJumpKeeps == ASSUME ValInv, ScanJump PROVE ValInv'
<1>1. Scanning /\ Acceptable(Instr) BY DEF ScanJump, Accepting, At
<1> DEFINE d == IF Instr.op = "br_table" THEN Popped(scan.depth, 1) ELSE scan.depth
<1>2. d \in Int BY <1>1, AtInstr, PoppedInt
<1>3. Advance([scan EXCEPT !.unreachable = TRUE, !.depth = d]) BY DEF ScanJump
<1> HIDE DEF d
<1>4. QED BY <1>1, <1>2, <1>3, HeightKeeps

\* The height alone.
LEMMA DepthKeeps ==
  ASSUME ValInv, Scanning, Acceptable(Instr), NEW d \in Int,
         Advance([scan EXCEPT !.depth = d])
  PROVE  ValInv'
<1>1. scan \in ScanRecs BY AtInstr
<1>2. scan.unreachable \in BOOLEAN BY <1>1 DEF ScanRecs
<1>3. [scan EXCEPT !.depth = d] =
        [scan EXCEPT !.unreachable = scan.unreachable, !.depth = d]
  BY <1>1 DEF ScanRecs
<1>4. QED BY <1>2, <1>3, HeightKeeps

LEMMA ScanCallKeeps == ASSUME ValInv, ScanCall PROVE ValInv'
<1>1. Scanning /\ Acceptable(Instr) /\ Instr.op = "call"
  BY DEF ScanCall, Accepting, At
<1>2. Instr.func \in DOMAIN functions BY <1>1, Zenon DEF Acceptable
<1> DEFINE f == functions[Instr.func]
           d == PoppedAll(scan.depth, f.params) + f.results
<1>3. f \in Functions BY <1>2, FunctionFields DEF ValInv
<1>4. f.params \in Nat /\ f.results \in Nat BY <1>3 DEF Functions
<1>5. Advance([scan EXCEPT !.depth = d]) BY DEF ScanCall
<1> HIDE DEF f
<1>6. scan.depth \in Int BY <1>1, AtInstr
<1>7. PoppedAll(scan.depth, f.params) \in Int BY <1>4, <1>6, PoppedInt
<1>8. d \in Int BY <1>4, <1>7
<1> HIDE DEF d
<1>9. QED BY <1>1, <1>5, <1>8, DepthKeeps

LEMMA ScanCallIndirectKeeps == ASSUME ValInv, ScanCallIndirect PROVE ValInv'
<1>1. Scanning /\ Acceptable(Instr) /\ Instr.op = "call_indirect"
  BY DEF ScanCallIndirect, Accepting, At
<1>2. Instr.params \in Nat /\ Instr.results \in Nat
  BY <1>1, AtInstr, InstructionTypes
<1> DEFINE d == PoppedAll(Popped(scan.depth, 1), Instr.params) + Instr.results
<1>3. Popped(scan.depth, 1) \in Int BY <1>1, AtInstr, PoppedInt
<1>4. PoppedAll(Popped(scan.depth, 1), Instr.params) \in Int
  BY <1>2, <1>3, PoppedInt
<1>5. d \in Int BY <1>2, <1>4
<1>6. Advance([scan EXCEPT !.depth = d]) BY DEF ScanCallIndirect
<1> HIDE DEF d
<1>7. QED BY <1>1, <1>5, <1>6, DepthKeeps

LEMMA ScanOperandsKeeps == ASSUME ValInv, ScanOperands PROVE ValInv'
<1>1. Scanning /\ Acceptable(Instr) /\ Instr.op \in DOMAIN Operands
  BY DEF ScanOperands, Accepting, At
<1> DEFINE o == Operands[Instr.op]
           d == Popped(scan.depth, o[1]) + o[2]
<1>2. o[1] \in Nat /\ o[2] \in Nat BY <1>1, OperandCounts
<1>3. Advance([scan EXCEPT !.depth = d]) BY DEF ScanOperands
<1> HIDE DEF o
<1>4. scan.depth \in Int BY <1>1, AtInstr
<1>5. Popped(scan.depth, o[1]) \in Int BY <1>2, <1>4, PoppedInt
<1>6. d \in Int BY <1>2, <1>5
<1> HIDE DEF d
<1>7. QED BY <1>1, <1>3, <1>6, DepthKeeps

\* Before and after a body there is nothing in the scan variables.
LEMMA NoScanFits ==
  /\ NoScan \in [ip : Nat, labels : Seq(ValLabels), jumps : Seq(JumpEntries),
                 depth : Int, max_depth : Int, max_labels : Nat,
                 unreachable : BOOLEAN, pre_max : {NoScan.pre_max},
                 pre_blocks : {NoScan.pre_blocks}]
  /\ NoScan.jumps = << >> /\ NoScan.labels = << >> /\ NoScan.ip = 0
BY DEF NoScan

LEMMA StopKeeps ==
  ASSUME ValInv, NEW r \in {"kErrorValidationFailed", "kErrorOutOfMemory"}, Stop(r),
         phase # "done"
  PROVE  ValInv'
<1>1. /\ phase' = "done" /\ verdict' = r /\ scan' = NoScan
      /\ UNCHANGED <<functions, func_idx>>
  BY DEF Stop
<1>2. ValidatorTypeOK' BY <1>1, NoScanFits DEF ValInv, ValidatorTypeOK
<1>3. JumpTablesAscend'
  BY <1>1, NoScanFits DEF ValInv, JumpTablesAscend, Ascending
<1>4. Behind' BY <1>1, NoScanFits DEF Behind, JumpsOK, Ascending, LabelsJump
<1>5. Progress' BY <1>1 DEF ValInv, Progress
<1>6. IndicesChecked'
  <2> SUFFICES ASSUME NEW f \in DOMAIN functions, NEW k \in 1..Scanned(f)'
               PROVE  InRange(f, functions[f].code[k])'
    BY <1>1 DEF IndicesChecked
  <2>1. k \in 1..Scanned(f)
    <3>1. CASE Scanned(f)' = 0 BY <3>1
    <3>2. CASE Scanned(f)' # 0 BY <1>1, <3>2 DEF Scanned
    <3>3. QED BY <3>1, <3>2
  <2>2. QED BY <1>1, <2>1 DEF ValInv, IndicesChecked, InRange, TotalLocals
<1>7. QED BY <1>2, <1>3, <1>4, <1>5, <1>6 DEF ValInv

\* What was checked stays checked as long as nothing but the results of the
\* validation changes in a function.
SameCode ==
  /\ DOMAIN functions' = DOMAIN functions
  /\ \A f \in DOMAIN functions :
       /\ functions'[f].kind = functions[f].kind
       /\ functions'[f].code = functions[f].code
       /\ functions'[f].params = functions[f].params
       /\ functions'[f].local_count = functions[f].local_count

LEMMA IndicesStay ==
  ASSUME IndicesChecked, SameCode,
         \A f \in DOMAIN functions : \A k \in 1..Scanned(f)' : k \in 1..Scanned(f)
  PROVE  IndicesChecked'
<1> SUFFICES ASSUME NEW f \in DOMAIN functions, NEW k \in 1..Scanned(f)'
             PROVE  InRange(f, functions[f].code[k])'
  BY DEF IndicesChecked, SameCode
<1>1. InRange(f, functions[f].code[k]) BY DEF IndicesChecked
<1>2. QED BY <1>1 DEF InRange, TotalLocals, SameCode

LEMMA SkipFunctionKeeps == ASSUME ValInv, SkipFunction PROVE ValInv'
<1>1. /\ phase = "begin" /\ func_idx <= Len(functions) /\ func_idx' = func_idx + 1
      /\ functions[func_idx].kind # "local"
      /\ UNCHANGED <<functions, phase, scan, verdict>>
  BY DEF SkipFunction
<1>2. functions \in Seq(Functions) /\ func_idx \in 1..(Len(functions) + 1)
  BY DEF ValInv, ValidatorTypeOK
<1>3. ValidatorTypeOK' BY <1>1, <1>2 DEF ValInv, ValidatorTypeOK
<1>4. JumpTablesAscend' BY <1>1 DEF ValInv, JumpTablesAscend
<1>5. Behind' BY <1>1 DEF ValInv, Behind, LabelsJump
<1>6. Progress' BY <1>1 DEF ValInv, Progress
<1>7. \A f \in DOMAIN functions : \A k \in 1..Scanned(f)' : k \in 1..Scanned(f)
  BY <1>1, <1>2 DEF Scanned
<1>8. IndicesChecked' BY <1>1, <1>7, IndicesStay DEF ValInv, SameCode
<1>9. QED BY <1>3, <1>4, <1>5, <1>6, <1>8 DEF ValInv

LEMMA AllValidatedKeeps == ASSUME ValInv, AllValidated PROVE ValInv'
<1>1. /\ phase = "begin" /\ func_idx > Len(functions) /\ phase' = "done"
      /\ UNCHANGED <<functions, func_idx, scan, verdict>>
  BY DEF AllValidated
<1>2. functions \in Seq(Functions) /\ func_idx \in 1..(Len(functions) + 1)
  BY DEF ValInv, ValidatorTypeOK
<1>3. ValidatorTypeOK' BY <1>1, <1>2 DEF ValInv, ValidatorTypeOK
<1>4. JumpTablesAscend' BY <1>1 DEF ValInv, JumpTablesAscend
<1>5. Behind' BY <1>1 DEF ValInv, Behind, LabelsJump
<1>6. Progress' BY <1>1, <1>2 DEF ValInv, Progress
<1>7. \A f \in DOMAIN functions : \A k \in 1..Scanned(f)' : k \in 1..Scanned(f)
  BY <1>1, <1>2 DEF Scanned
<1>8. IndicesChecked' BY <1>1, <1>7, IndicesStay DEF ValInv, SameCode
<1>9. QED BY <1>3, <1>4, <1>5, <1>6, <1>8 DEF ValInv

LEMMA OpenedScan ==
  ASSUME NEW labels \in Seq(ValLabels), NEW m, NEW b, NEW s,
         s = [NoScan EXCEPT !.labels = labels, !.max_labels = 1,
                            !.pre_max = m, !.pre_blocks = b]
  PROVE  /\ s.ip = 0 /\ s.jumps = << >> /\ s.labels = labels
         /\ s \in [ip : Nat, labels : Seq(ValLabels), jumps : Seq(JumpEntries),
                   depth : Int, max_depth : Int, max_labels : Nat,
                   unreachable : BOOLEAN, pre_max : {s.pre_max},
                   pre_blocks : {s.pre_blocks}]
<1> DEFINE r == [ip |-> 0, labels |-> labels, jumps |-> << >>, depth |-> 0,
                 max_depth |-> 0, max_labels |-> 1, unreachable |-> FALSE,
                 pre_max |-> m, pre_blocks |-> b]
<1>1. r = s BY DEF NoScan
<1>2. << >> \in Seq(JumpEntries) OBVIOUS
<1>3. r.pre_max = m /\ r.pre_blocks = b OBVIOUS
<1>4. r.ip = 0 /\ r.jumps = << >> /\ r.labels = labels OBVIOUS
<1>5. r \in [ip : Nat, labels : Seq(ValLabels), jumps : Seq(JumpEntries),
             depth : Int, max_depth : Int, max_labels : Nat,
             unreachable : BOOLEAN, pre_max : {m}, pre_blocks : {b}]
  BY <1>2
<1> HIDE DEF r
<1>6. QED BY <1>1, <1>3, <1>4, <1>5

LEMMA BeginBodyKeeps == ASSUME ValInv, BeginBody PROVE ValInv'
<1>1. /\ phase = "begin" /\ func_idx <= Len(functions)
      /\ functions[func_idx].kind = "local"
  BY DEF BeginBody
<1>2. functions \in Seq(Functions) /\ func_idx \in DOMAIN functions
  BY <1>1 DEF ValInv, ValidatorTypeOK
<1> DEFINE p == PreScan(Code)
           outer == FirstLabel(functions[func_idx])
           labels == <<outer>>
           s == [NoScan EXCEPT !.labels = labels, !.max_labels = 1,
                               !.pre_max = p.max, !.pre_blocks = p.blocks]
<1> HIDE DEF p
<1>3. \/ Stop("kErrorValidationFailed") \/ Stop("kErrorOutOfMemory")
      \/ scan' = s /\ phase' = "scan" /\ UNCHANGED <<functions, func_idx, verdict>>
  BY DEF BeginBody, p
<1>4. CASE Stop("kErrorValidationFailed") \/ Stop("kErrorOutOfMemory")
  BY <1>1, <1>4, StopKeeps
<1>5. CASE scan' = s /\ phase' = "scan" /\ UNCHANGED <<functions, func_idx, verdict>>
  <2>1. functions[func_idx] \in Functions BY <1>2
  <2>2. outer \in ValLabels /\ outer.jump = 0
    BY <2>1 DEF FirstLabel, ValLabels, Functions
  <2> HIDE DEF outer
  <2>3. labels \in Seq(ValLabels) /\ \A k \in DOMAIN labels : labels[k].jump = 0
    BY <2>2
  <2> HIDE DEF labels
  <2>4. /\ s.ip = 0 /\ s.jumps = << >> /\ s.labels = labels
        /\ s \in [ip : Nat, labels : Seq(ValLabels), jumps : Seq(JumpEntries),
                  depth : Int, max_depth : Int, max_labels : Nat,
                  unreachable : BOOLEAN, pre_max : {s.pre_max},
                  pre_blocks : {s.pre_blocks}]
    BY <2>3, OpenedScan
  <2> HIDE DEF s
  <2>5. ValidatorTypeOK' BY <1>5, <2>4 DEF ValInv, ValidatorTypeOK
  <2>6. JumpTablesAscend' BY <1>5, <2>4 DEF ValInv, JumpTablesAscend, Ascending
  <2>7. Behind' BY <1>5, <2>3, <2>4 DEF Behind, JumpsOK, Ascending, LabelsJump
  <2>8. Len(Code) \in Nat BY <1>2, FunctionFields DEF ValInv, Code
  <2>9. Progress' BY <1>1, <1>2, <1>5, <2>4, <2>8 DEF ValInv, Progress, Code
  <2>10. \A f \in DOMAIN functions : \A k \in 1..Scanned(f)' : k \in 1..Scanned(f)
    BY <1>1, <1>2, <1>5, <2>4 DEF Scanned
  <2>11. IndicesChecked' BY <1>5, <2>10, IndicesStay DEF ValInv, SameCode
  <2>12. QED BY <2>5, <2>6, <2>7, <2>9, <2>11 DEF ValInv
<1>6. QED BY <1>3, <1>4, <1>5

LEMMA EndBodyKeeps == ASSUME ValInv, EndBody PROVE ValInv'
<1>1. phase = "scan" /\ scan.ip = Len(Code) BY DEF EndBody
<1>2. /\ functions \in Seq(Functions) /\ func_idx \in DOMAIN functions
      /\ func_idx \in 1..(Len(functions) + 1) /\ func_idx \in 1..Len(functions)
      /\ functions[func_idx].kind = "local" /\ scan \in ScanRecs
  BY <1>1 DEF ValInv, ValidatorTypeOK, ScanRecs, Progress
<1>3. /\ scan.depth \in Int /\ scan.max_depth \in Int /\ scan.max_labels \in Nat
      /\ scan.jumps \in Seq(JumpEntries)
  BY <1>2 DEF ScanRecs
<1> DEFINE depth == Larger(scan.max_depth, scan.depth)
           f0 == functions[func_idx]
           g == [f0 EXCEPT !.max_label_depth = scan.max_labels,
                           !.max_stack_depth = depth]
           h == [g EXCEPT !.block_jump_table = scan.jumps]
<1>4. depth \in Int BY <1>3, LargerInt
<1>5. \/ Stop("kErrorValidationFailed")
      \/ /\ functions' = [functions EXCEPT ![func_idx] = h]
         /\ func_idx' = func_idx + 1 /\ phase' = "begin"
         /\ scan' = NoScan /\ UNCHANGED verdict
      \/ /\ functions' = [functions EXCEPT ![func_idx] = g]
         /\ phase' = "done" /\ verdict' = "kErrorOutOfMemory"
         /\ scan' = NoScan /\ UNCHANGED func_idx
  BY DEF EndBody
<1> HIDE DEF depth
<1>6. f0 \in Functions BY <1>2
<1>7. /\ g \in Functions /\ h \in Functions
      /\ h.block_jump_table = scan.jumps
      /\ g.block_jump_table = f0.block_jump_table
      /\ \A e \in {g, h} : e.kind = f0.kind /\ e.code = f0.code
                           /\ e.params = f0.params /\ e.local_count = f0.local_count
  BY <1>3, <1>4, <1>6 DEF Functions
<1> HIDE DEF g, h
<1>8. CASE Stop("kErrorValidationFailed") BY <1>1, <1>8, StopKeeps
<1>9. ASSUME NEW e \in {g, h}, functions' = [functions EXCEPT ![func_idx] = e],
             scan' = NoScan,
             \/ /\ e = h /\ func_idx' = func_idx + 1 /\ phase' = "begin"
                /\ UNCHANGED verdict
             \/ /\ e = g /\ phase' = "done" /\ verdict' = "kErrorOutOfMemory"
                /\ UNCHANGED func_idx
      PROVE  ValInv'
  <2>1. functions' \in Seq(Functions) /\ Len(functions') = Len(functions)
        /\ DOMAIN functions' = DOMAIN functions
    BY <1>2, <1>7, <1>9
  <2>2. \A f \in DOMAIN functions : functions'[f] = IF f = func_idx THEN e ELSE functions[f]
    BY <1>2, <1>9
  <2>3. SameCode BY <1>7, <2>1, <2>2 DEF SameCode
  <2>4. ValidatorTypeOK'
    BY <1>2, <1>9, <2>1, NoScanFits DEF ValInv, ValidatorTypeOK
  <2>5. JumpTablesAscend'
    <3>1. Ascending(e.block_jump_table)
      BY <1>2, <1>7, <1>9 DEF ValInv, JumpTablesAscend
    <3>2. Ascending(scan'.jumps) BY <1>9, NoScanFits DEF Ascending
    <3>3. QED BY <2>1, <2>2, <3>1, <3>2 DEF ValInv, JumpTablesAscend
  <2>6. Behind' BY <1>9, NoScanFits DEF Behind, JumpsOK, Ascending, LabelsJump
  <2>7. Progress' BY <1>9, <2>1 DEF ValInv, Progress
  <2>8. \A f \in DOMAIN functions : \A k \in 1..Scanned(f)' : k \in 1..Scanned(f)
    BY <1>1, <1>2, <1>9, <2>1, <2>2, <2>3 DEF Scanned, SameCode, Code
  <2>9. IndicesChecked' BY <2>3, <2>8, IndicesStay DEF ValInv
  <2>10. QED BY <2>4, <2>5, <2>6, <2>7, <2>9 DEF ValInv
<1>10. QED BY <1>5, <1>8, <1>9

LEMMA ValidatorKeeps == ASSUME ValInv, ValidatorNext PROVE ValInv'
<1>1. CASE RejectInstruction
  BY <1>1, StopKeeps DEF RejectInstruction, Scanning
<1>2. QED
  BY <1>1, SkipFunctionKeeps, AllValidatedKeeps, BeginBodyKeeps, ScanBlockKeeps,
     ScanIfKeeps, ScanElseKeeps, ScanEndKeeps, ScanJumpKeeps, ScanCallKeeps,
     ScanCallIndirectKeeps, ScanOperandsKeeps, EndBodyKeeps DEF ValidatorNext

-----------------------------------------------------------------------------
(* The two passes over a body *)

PreRecs == [top : Nat, max : Nat, blocks : Nat, ok : BOOLEAN]

\* The states of the first pass over code, one per instruction behind it.
PreTable(code, step) ==
  step = [n \in 0..Len(code) |->
            IF n = 0 THEN PreStart ELSE PreNext(step[n - 1], code[n].op)]

\* A step of the first pass: the nesting follows block, loop, if and end, what
\* it has measured only grows.
LEMMA PreSteps ==
  ASSUME NEW s \in PreRecs, NEW op
  PROVE  /\ PreNext(s, op) \in PreRecs
         /\ PreNext(s, op).max >= s.max /\ PreNext(s, op).blocks >= s.blocks
         /\ s.top <= s.max => PreNext(s, op).top <= PreNext(s, op).max
         /\ op \in BlockOps \union {"if"} =>
              /\ PreNext(s, op).top = s.top + 1
              /\ PreNext(s, op).blocks = IF op = "loop" THEN s.blocks ELSE s.blocks + 1
         /\ op = "end" => /\ PreNext(s, op).top = IF s.top > 1 THEN s.top - 1 ELSE s.top
                          /\ PreNext(s, op).blocks = s.blocks
         /\ op \notin BlockOps \union {"if", "end"} => PreNext(s, op) = s
<1>1. /\ s.top \in Nat /\ s.max \in Nat /\ s.blocks \in Nat /\ s.ok \in BOOLEAN
  BY DEF PreRecs
<1>2. CASE op \in BlockOps \union {"if"}
  <2> DEFINE m == Larger(s.max, s.top + 1)
             b == s.blocks + (IF op = "loop" THEN 0 ELSE 1)
             k == (s.ok /\ s.top < kWasmValidationMaxLabelDepth)
  <2>1. m \in Nat /\ m >= s.max /\ m >= s.top + 1
    BY <1>1 DEF Larger
  <2>2. b \in Nat /\ b = IF op = "loop" THEN s.blocks ELSE s.blocks + 1
    BY <1>1
  <2>3. k \in BOOLEAN
    OBVIOUS
  <2>4. PreNext(s, op) = [top |-> s.top + 1, max |-> m, blocks |-> b, ok |-> k]
    BY <1>2 DEF PreNext
  <2>5. op # "end"
    BY <1>2 DEF BlockOps
  <2> HIDE DEF m, b, k
  <2>6. QED BY <1>1, <1>2, <2>1, <2>2, <2>3, <2>4, <2>5 DEF PreRecs
<1>3. CASE op \notin BlockOps \union {"if"} /\ op = "end" /\ s.top > 1
  <2>1. PreNext(s, op) = [s EXCEPT !.top = s.top - 1]
    BY <1>3 DEF PreNext
  <2>2. s.top - 1 \in Nat
    BY <1>1, <1>3
  <2>3. QED BY <1>1, <1>3, <2>1, <2>2 DEF PreRecs
<1>4. CASE op \notin BlockOps \union {"if"} /\ ~(op = "end" /\ s.top > 1)
  <2>1. PreNext(s, op) = s
    BY <1>4 DEF PreNext
  <2>2. QED BY <1>1, <1>4, <2>1
<1>5. QED BY <1>2, <1>3, <1>4

LEMMA PreTableExists ==
  ASSUME NEW code, Len(code) \in Nat
  PROVE  \E step : PreTable(code, step)
<1> DEFINE n == Len(code)
           Upto(m, step) == step = [k \in 0..m |->
             IF k = 0 THEN PreStart ELSE PreNext(step[k - 1], code[k].op)]
           Has(m) == \E step : Upto(m, step)
           Built == {m \in 0..n : Has(m)}
<1>1. Has(0)
  <2> DEFINE step == [k \in 0..0 |-> PreStart]
  <2>1. Upto(0, step) OBVIOUS
  <2>2. QED BY <2>1
<1>2. ASSUME NEW m \in 1..n, Has(m - 1) PROVE Has(m)
  <2>1. PICK s : Upto(m - 1, s)
    BY <1>2
  <2> DEFINE step == [k \in 0..m |->
               IF k = m THEN PreNext(s[m - 1], code[m].op) ELSE s[k]]
  <2>2. \A k \in 0..(m - 1) :
          s[k] = IF k = 0 THEN PreStart ELSE PreNext(s[k - 1], code[k].op)
    BY <2>1
  <2>3. \A k \in 0..m :
          step[k] = IF k = 0 THEN PreStart ELSE PreNext(step[k - 1], code[k].op)
    BY <2>2
  <2>4. step = [k \in 0..m |-> step[k]]
    OBVIOUS
  <2> HIDE DEF step
  <2>5. Upto(m, step)
    BY <2>3, <2>4
  <2>6. QED BY <2>5
<1> HIDE DEF Has
<1>3. \A m \in 0..n : m \in Built
  <2>1. 0 \in Built /\ \A m \in 1..n : m - 1 \in Built => m \in Built
    BY <1>1, <1>2
  <2> HIDE DEF Built
  <2>2. QED BY <2>1, Reached
<1>4. QED BY <1>3 DEF Has, PreTable

\* What the first pass measured behind n instructions never exceeds its result.
LEMMA PreScanned ==
  ASSUME NEW code, Len(code) \in Nat
  PROVE  \E step :
           /\ PreScan(code) = step[Len(code)] /\ step[0] = PreStart
           /\ \A n \in 1..Len(code) : step[n] = PreNext(step[n - 1], code[n].op)
           /\ \A n \in 0..Len(code) :
                /\ step[n] \in PreRecs /\ step[n].top <= PreScan(code).max
                /\ step[n].blocks <= PreScan(code).blocks
<1> DEFINE step == CHOOSE t : PreTable(code, t)
           N == Len(code)
<1>1. PreTable(code, step)
  BY PreTableExists
<1>2. PreScan(code) = step[N]
  BY DEF PreScan, PreTable
<1> HIDE DEF step
<1>3. /\ step[0] = PreStart
      /\ \A n \in 1..N : step[n] = PreNext(step[n - 1], code[n].op)
  BY <1>1 DEF PreTable
<1>4. \A n \in 0..N : step[n] \in PreRecs /\ step[n].top <= step[n].max
  <2> DEFINE Typed == {n \in 0..N : step[n] \in PreRecs /\ step[n].top <= step[n].max}
  <2>1. 0 \in Typed
    <3>1. PreStart \in PreRecs /\ PreStart.top <= PreStart.max
      BY DEF PreStart, PreRecs
    <3>2. QED BY <1>3, <3>1
  <2>2. \A n \in 1..N : n - 1 \in Typed => n \in Typed
    BY <1>3, PreSteps
  <2> HIDE DEF Typed
  <2>3. \A n \in 0..N : n \in Typed
    BY <2>1, <2>2, Reached
  <2>4. QED BY <2>3 DEF Typed
<1>5. \A n \in 1..N : /\ step[n - 1].max <= step[n].max
                      /\ step[n - 1].blocks <= step[n].blocks
  <2> SUFFICES ASSUME NEW n \in 1..N
               PROVE  /\ step[n - 1].max <= step[n].max
                      /\ step[n - 1].blocks <= step[n].blocks
    OBVIOUS
  <2>1. step[n - 1] \in PreRecs /\ step[n] = PreNext(step[n - 1], code[n].op)
        /\ step[n] \in PreRecs
    BY <1>3, <1>4
  <2>2. /\ step[n].max >= step[n - 1].max /\ step[n].blocks >= step[n - 1].blocks
    BY <2>1, PreSteps
  <2>3. step[n].max \in Nat /\ step[n - 1].max \in Nat
        /\ step[n].blocks \in Nat /\ step[n - 1].blocks \in Nat
    BY <2>1 DEF PreRecs
  <2>4. QED BY <2>2, <2>3
<1>6. \A n \in 0..N : step[n].max \in Nat /\ step[n].blocks \in Nat /\ step[n].top \in Nat
  BY <1>4 DEF PreRecs
<1>7. \A n \in 0..N : step[n].max <= step[N].max /\ step[n].blocks <= step[N].blocks
  <2> DEFINE Below_(m) == step[N - m].max <= step[N].max
                          /\ step[N - m].blocks <= step[N].blocks
             Under == {m \in 0..N : Below_(m)}
  <2>1. 0 \in Under
    BY <1>6
  <2>2. ASSUME NEW m \in 1..N, m - 1 \in Under PROVE m \in Under
    <3>1. N - m + 1 \in 1..N /\ N - m \in 0..N /\ N - (m - 1) = N - m + 1
          /\ (N - m + 1) - 1 = N - m
      OBVIOUS
    <3>2. step[N - m].max <= step[N - m + 1].max /\ step[N - m].blocks <= step[N - m + 1].blocks
      BY <1>5, <3>1
    <3>3. Below_(m - 1)
      BY <2>2
    <3>4. step[N - m + 1].max <= step[N].max /\ step[N - m + 1].blocks <= step[N].blocks
      BY <3>1, <3>3
    <3>5. QED BY <1>6, <3>1, <3>2, <3>4
  <2>3. \A m \in 1..N : m - 1 \in Under => m \in Under
    BY <2>2
  <2> HIDE DEF Under
  <2>4. \A m \in 0..N : m \in Under
    BY <2>1, <2>3, Reached
  <2>5. ASSUME NEW n \in 0..N PROVE step[n].max <= step[N].max /\ step[n].blocks <= step[N].blocks
    <3>1. N - n \in 0..N /\ N - (N - n) = n
      OBVIOUS
    <3>2. N - n \in Under
      BY <2>4, <3>1
    <3>3. QED BY <3>1, <3>2 DEF Under
  <2>6. QED BY <2>5
<1>8. \A n \in 0..N : step[n].top <= step[N].max
  <2>1. N \in 0..N
    OBVIOUS
  <2>2. \A n \in 0..N : step[n].top <= step[n].max
    BY <1>4
  <2>3. QED BY <1>6, <1>7, <2>1, <2>2
<1>9. QED BY <1>2, <1>3, <1>4, <1>7, <1>8

\* The second pass is where the first one was: it holds no more labels than
\* the first had nested and has written an entry for each block and if.
Follows(step) ==
  /\ scan.pre_max \in Nat /\ step[0] = PreStart
  /\ \A n \in 1..Len(Code) : step[n] = PreNext(step[n - 1], Code[n].op)
  /\ \A n \in 0..Len(Code) :
       /\ step[n] \in PreRecs /\ step[n].top <= scan.pre_max
       /\ step[n].blocks <= scan.pre_blocks
  /\ Len(scan.labels) <= step[scan.ip].top
  /\ Len(scan.jumps) = step[scan.ip].blocks

Measured == phase = "scan" => \E step : Follows(step)

SameScan(s) ==
  /\ DOMAIN s = DOMAIN scan
  /\ s.pre_max = scan.pre_max /\ s.pre_blocks = scan.pre_blocks

LEMMA ScanFields == ASSUME NEW s \in ScanRecs, scan \in ScanRecs PROVE SameScan(s)
BY DEF ScanRecs, SameScan

\* What an instruction does to the number of labels and of jump entries.
LEMMA AdvanceFollows ==
  ASSUME ValInv, Measured, Scanning, NEW s, SameScan(s), s.ip = scan.ip, Advance(s),
         NEW op, op = Instr.op,
         \/ /\ op \in BlockOps \union {"if"}
            /\ Len(s.labels) = Len(scan.labels) + 1
            /\ Len(s.jumps) = IF op = "loop" THEN Len(scan.jumps) ELSE Len(scan.jumps) + 1
         \/ /\ op = "end" /\ Len(s.jumps) = Len(scan.jumps)
            /\ Len(s.labels) = IF Len(scan.labels) > 0 THEN Len(scan.labels) - 1 ELSE 0
         \/ /\ op \notin BlockOps \union {"if", "end"}
            /\ Len(s.labels) = Len(scan.labels) /\ Len(s.jumps) = Len(scan.jumps)
  PROVE  Measured'
<1>1. /\ scan \in ScanRecs /\ phase = "scan" /\ scan.ip < Len(Code)
      /\ func_idx \in DOMAIN functions
  BY DEF ValInv, ValidatorTypeOK, ScanRecs, Scanning, Progress
<1>2. /\ scan.ip \in Nat /\ Len(scan.labels) \in Nat /\ Len(scan.jumps) \in Nat
      /\ Len(Code) \in Nat
  BY <1>1, FunctionFields DEF ScanRecs, Code, ValInv
<1>3. PICK step : Follows(step)
  BY <1>1 DEF Measured
<1>4. /\ scan'.ip = scan.ip + 1 /\ scan'.labels = s.labels /\ scan'.jumps = s.jumps
      /\ scan'.pre_max = scan.pre_max /\ scan'.pre_blocks = scan.pre_blocks
      /\ UNCHANGED <<functions, func_idx, phase>>
  <2>1. scan' = [s EXCEPT !.ip = @ + 1, !.max_depth = Larger(@, scan.depth)]
        /\ UNCHANGED <<functions, func_idx, phase>>
    BY DEF Advance
  <2>2. /\ {"ip", "labels", "jumps", "max_depth", "pre_max", "pre_blocks"} \subseteq DOMAIN s
        /\ s.pre_max = scan.pre_max /\ s.pre_blocks = scan.pre_blocks
    BY <1>1 DEF ScanRecs, SameScan
  <2>3. QED BY <2>1, <2>2
<1> DEFINE n == scan.ip
           r == step[n]
           t == step[n + 1]
<1>5. /\ n \in 0..Len(Code) /\ n + 1 \in 1..Len(Code) /\ (n + 1) - 1 = n
      /\ Code[n + 1].op = op
  BY <1>1, <1>2 DEF Instr
<1>6. /\ r \in PreRecs /\ t = PreNext(r, op)
      /\ Len(scan.labels) <= r.top /\ Len(scan.jumps) = r.blocks
  BY <1>3, <1>5 DEF Follows
<1>7. r.top \in Nat /\ r.blocks \in Nat
  BY <1>6 DEF PreRecs
<1> HIDE DEF r, t
<1>8. Len(s.labels) <= t.top /\ Len(s.jumps) = t.blocks
  <2>1. CASE op \in BlockOps \union {"if"}
    <3>1. op # "end"
      BY <2>1 DEF BlockOps
    <3>2. QED BY <1>2, <1>6, <1>7, <2>1, <3>1, PreSteps
  <2>2. CASE op = "end"
    <3>1. op \notin BlockOps \union {"if"}
      BY <2>2 DEF BlockOps
    <3>2. QED BY <1>2, <1>6, <1>7, <2>2, <3>1, PreSteps
  <2>3. CASE op \notin BlockOps \union {"if", "end"}
    BY <1>2, <1>6, <1>7, <2>3, PreSteps
  <2>4. QED BY <2>1, <2>2, <2>3
<1>9. Follows(step)'
  <2>1. Code' = Code
    BY <1>4 DEF Code
  <2>2. QED BY <1>3, <1>4, <1>8, <2>1 DEF Follows, t
<1>10. QED BY <1>9 DEF Measured

LEMMA ScanBlockFollows == ASSUME ValInv, Measured, ScanBlock PROVE Measured'
<1>1. Scanning /\ Acceptable(Instr) /\ Instr.op \in BlockOps
  BY DEF ScanBlock, Accepting, At
<1>2. PICK entry, l, j :
        /\ entry = PoppedAll(scan.depth, Instr.params)
        /\ l = [entry |-> entry, results |-> Instr.results, jump |-> j]
        /\ \/ /\ Instr.op = "loop" /\ j = 0 /\ Advance(PushLabel(scan, l))
           \/ /\ Instr.op = "block" /\ j = Len(scan.jumps) + 1
              /\ Advance(PushLabel(OpenJump(scan), l))
  BY DEF ScanBlock
<1>3. Instr.params \in Nat /\ Instr.results \in Nat
  BY <1>1, AtInstr, InstructionTypes DEF BlockOps
<1>4. entry \in Int BY <1>1, <1>2, <1>3, AtInstr, PoppedInt
<1>5. CASE Instr.op = "loop" /\ j = 0 /\ Advance(PushLabel(scan, l))
  <2>1. l \in ValLabels /\ l.jump <= Len(scan.jumps)
    BY <1>1, <1>2, <1>3, <1>4, <1>5, AtInstr DEF ValLabels
  <2>2. scan \in ScanRecs /\ LabelsJump(scan) /\ scan.labels \in Seq(ValLabels)
    BY <1>1, AtInstr
  <2> DEFINE s == PushLabel(scan, l)
  <2>3. s \in ScanRecs /\ s.ip = scan.ip /\ s.jumps = scan.jumps
    BY <2>1, <2>2, PushLabelKeeps
  <2>4. s.labels = Append(scan.labels, l)
    BY <2>2 DEF PushLabel, ScanRecs
  <2>5. Len(s.labels) = Len(scan.labels) + 1
    BY <2>1, <2>2, <2>4
  <2>6. Advance(s) BY <1>5
  <2> HIDE DEF s
  <2>7. SameScan(s) BY <2>2, <2>3, ScanFields
  <2>8. QED BY <1>1, <1>5, <2>3, <2>5, <2>6, <2>7, AdvanceFollows
<1>6. CASE /\ Instr.op = "block" /\ j = Len(scan.jumps) + 1
           /\ Advance(PushLabel(OpenJump(scan), l))
  <2>1. l \in ValLabels /\ l.jump = Len(scan.jumps) + 1
    BY <1>1, <1>2, <1>3, <1>4, <1>6, AtInstr DEF ValLabels
  <2> DEFINE o == OpenJump(scan)
             s == PushLabel(o, l)
  <2>2. /\ o \in ScanRecs /\ o.ip = scan.ip /\ Len(o.jumps) = Len(scan.jumps) + 1
        /\ LabelsJump(o) /\ scan.labels \in Seq(ValLabels)
    BY <1>1, AtInstr, OpenJumpKeeps
  <2>3. o.labels = scan.labels
    BY <1>1, AtInstr DEF OpenJump, ScanRecs
  <2>4. Advance(s) BY <1>6
  <2> HIDE DEF o
  <2>5. s \in ScanRecs /\ s.ip = o.ip /\ s.jumps = o.jumps
    BY <2>1, <2>2, PushLabelKeeps
  <2>6. s.labels = Append(o.labels, l)
    BY <2>2 DEF PushLabel, ScanRecs
  <2>7. Len(s.labels) = Len(scan.labels) + 1
    BY <2>1, <2>2, <2>3, <2>6
  <2> HIDE DEF s
  <2>8. SameScan(s) BY <1>1, <2>5, AtInstr, ScanFields
  <2>9. QED BY <1>1, <1>6, <2>2, <2>4, <2>5, <2>7, <2>8, AdvanceFollows
<1>7. QED BY <1>2, <1>5, <1>6

LEMMA ScanIfFollows == ASSUME ValInv, Measured, ScanIf PROVE Measured'
<1>1. Scanning /\ Acceptable(Instr) /\ Instr.op = "if"
  BY DEF ScanIf, Accepting, At
<1> DEFINE d == [scan EXCEPT !.depth = Popped(@, 1)]
           o == OpenJump(d)
           l == [entry |-> d.depth, results |-> Instr.results, jump |-> Len(d.jumps) + 1]
           s == PushLabel(o, l)
<1>2. Advance(s) BY DEF ScanIf
<1>3. Instr.results \in Nat BY <1>1, AtInstr, InstructionTypes
<1>4. Popped(scan.depth, 1) \in Int BY <1>1, AtInstr, PoppedInt
<1>5. d \in ScanRecs /\ d.ip = scan.ip /\ d.jumps = scan.jumps /\ d.labels = scan.labels
      /\ d.depth \in Int /\ scan.labels \in Seq(ValLabels)
  BY <1>1, <1>4, AtInstr DEF ScanRecs
<1>6. JumpsOK(d.jumps, d.ip) /\ LabelsJump(d) /\ Len(d.jumps) \in Nat
  BY <1>1, <1>5, AtInstr DEF LabelsJump
<1> HIDE DEF d
<1>7. /\ o \in ScanRecs /\ o.ip = scan.ip /\ Len(o.jumps) = Len(d.jumps) + 1
      /\ LabelsJump(o)
  BY <1>5, <1>6, OpenJumpKeeps
<1>8. o.labels = d.labels
  BY <1>5 DEF OpenJump, ScanRecs
<1>9. l \in ValLabels /\ l.jump <= Len(o.jumps)
  BY <1>3, <1>5, <1>6, <1>7 DEF ValLabels
<1> HIDE DEF o, l
<1>10. s \in ScanRecs /\ s.ip = o.ip /\ s.jumps = o.jumps
  BY <1>7, <1>9, PushLabelKeeps
<1>11. s.labels = Append(o.labels, l)
  BY <1>7 DEF PushLabel, ScanRecs
<1>12. Len(s.labels) = Len(scan.labels) + 1
  BY <1>5, <1>8, <1>9, <1>11
<1> HIDE DEF s
<1>13. SameScan(s) BY <1>1, <1>10, AtInstr, ScanFields
<1>14. QED BY <1>1, <1>2, <1>5, <1>7, <1>10, <1>12, <1>13, AdvanceFollows

LEMMA ScanElseFollows == ASSUME ValInv, Measured, ScanElse PROVE Measured'
<1>1. Scanning /\ Acceptable(Instr) /\ Instr.op = "else"
      /\ Instr.op \notin BlockOps \union {"if", "end"}
  BY DEF ScanElse, Accepting, At, BlockOps
<1>2. scan \in ScanRecs
  BY <1>1, AtInstr
<1>3. CASE scan.labels = << >> /\ Advance([scan EXCEPT !.unreachable = FALSE])
  <2> DEFINE s == [scan EXCEPT !.unreachable = FALSE]
  <2>1. SameScan(s) /\ s.ip = scan.ip /\ s.jumps = scan.jumps /\ s.labels = scan.labels
    BY <1>2 DEF ScanRecs, SameScan
  <2>2. Advance(s) BY <1>3
  <2> HIDE DEF s
  <2>3. QED BY <1>1, <2>1, <2>2, AdvanceFollows
<1>4. CASE scan.labels # << >> /\ Advance([scan EXCEPT !.depth = LastLabel.entry,
             !.jumps = SetJump("else"), !.unreachable = FALSE])
  <2> DEFINE jumps == SetJump("else")
             s == [scan EXCEPT !.depth = LastLabel.entry,
                               !.jumps = jumps, !.unreachable = FALSE]
  <2>1. Len(jumps) = Len(scan.jumps)
    BY <1>1, <1>4, SetJumpKeeps
  <2>2. Advance(s) BY <1>4
  <2> HIDE DEF jumps
  <2>3. SameScan(s) /\ s.ip = scan.ip /\ s.jumps = jumps /\ s.labels = scan.labels
    BY <1>2 DEF ScanRecs, SameScan
  <2> HIDE DEF s
  <2>4. QED BY <1>1, <2>1, <2>2, <2>3, AdvanceFollows
<1>5. QED BY <1>3, <1>4 DEF ScanElse

LEMMA ScanEndFollows == ASSUME ValInv, Measured, ScanEnd PROVE Measured'
<1>1. Scanning /\ Acceptable(Instr) /\ Instr.op = "end"
      /\ Instr.op \notin BlockOps \union {"if"}
  BY DEF ScanEnd, Accepting, At, BlockOps
<1>2. scan \in ScanRecs /\ scan.labels \in Seq(ValLabels)
  BY <1>1, AtInstr
<1>3. CASE scan.labels = << >> /\ Advance([scan EXCEPT !.unreachable = FALSE])
  <2> DEFINE s == [scan EXCEPT !.unreachable = FALSE]
  <2>1. SameScan(s) /\ s.ip = scan.ip /\ s.jumps = scan.jumps /\ s.labels = scan.labels
    BY <1>2 DEF ScanRecs, SameScan
  <2>2. Advance(s) BY <1>3
  <2>3. Len(scan.labels) = 0 BY <1>3
  <2> HIDE DEF s
  <2>4. QED BY <1>1, <2>1, <2>2, <2>3, AdvanceFollows
<1>4. CASE /\ scan.labels # << >>
           /\ Advance([scan EXCEPT !.labels = SubSeq(@, 1, Len(@) - 1),
                !.depth = LastLabel.entry + LastLabel.results,
                !.jumps = SetJump("end"), !.unreachable = FALSE])
  <2> DEFINE jumps == SetJump("end")
             labels == SubSeq(scan.labels, 1, Len(scan.labels) - 1)
             s == [scan EXCEPT !.labels = labels,
                               !.depth = LastLabel.entry + LastLabel.results,
                               !.jumps = jumps, !.unreachable = FALSE]
  <2>1. Len(jumps) = Len(scan.jumps)
    BY <1>1, <1>4, SetJumpKeeps
  <2>2. Advance(s) BY <1>4
  <2>3. Len(scan.labels) > 0 /\ Len(labels) = Len(scan.labels) - 1
    BY <1>2, <1>4
  <2> HIDE DEF jumps, labels
  <2>4. SameScan(s) /\ s.ip = scan.ip /\ s.jumps = jumps /\ s.labels = labels
    BY <1>2 DEF ScanRecs, SameScan
  <2> HIDE DEF s
  <2>5. QED BY <1>1, <2>1, <2>2, <2>3, <2>4, AdvanceFollows
<1>5. QED BY <1>3, <1>4 DEF ScanEnd

LEMMA HeightFollows ==
  ASSUME ValInv, Measured, Scanning, Instr.op \notin BlockOps \union {"if", "end"},
         NEW d, NEW u, Advance([scan EXCEPT !.unreachable = u, !.depth = d])
  PROVE  Measured'
<1> DEFINE s == [scan EXCEPT !.unreachable = u, !.depth = d]
<1>1. scan \in ScanRecs
  BY AtInstr
<1>2. SameScan(s) /\ s.ip = scan.ip /\ s.jumps = scan.jumps /\ s.labels = scan.labels
  BY <1>1 DEF ScanRecs, SameScan
<1>3. Advance(s) OBVIOUS
<1> HIDE DEF s
<1>4. QED BY <1>2, <1>3, AdvanceFollows

LEMMA DepthFollows ==
  ASSUME ValInv, Measured, Scanning, Instr.op \notin BlockOps \union {"if", "end"},
         NEW d, Advance([scan EXCEPT !.depth = d])
  PROVE  Measured'
<1>1. scan \in ScanRecs BY AtInstr
<1>2. [scan EXCEPT !.depth = d] =
        [scan EXCEPT !.unreachable = scan.unreachable, !.depth = d]
  BY <1>1 DEF ScanRecs
<1>3. QED BY <1>2, HeightFollows

\* The first pass has seen nothing when the second one starts.
LEMMA BeginBodyFollows == ASSUME ValInv, Measured, BeginBody PROVE Measured'
<1>1. /\ phase = "begin" /\ func_idx <= Len(functions)
      /\ functions[func_idx].kind = "local"
  BY DEF BeginBody
<1>2. functions \in Seq(Functions) /\ func_idx \in DOMAIN functions
  BY <1>1 DEF ValInv, ValidatorTypeOK
<1>3. Len(Code) \in Nat
  BY <1>2, FunctionFields DEF ValInv, Code
<1> DEFINE p == PreScan(Code)
           labels == <<FirstLabel(functions[func_idx])>>
           s == [NoScan EXCEPT !.labels = labels, !.max_labels = 1,
                               !.pre_max = p.max, !.pre_blocks = p.blocks]
<1>4. \/ phase' = "done"
      \/ scan' = s /\ phase' = "scan" /\ UNCHANGED <<functions, func_idx>>
  BY DEF BeginBody, Stop
<1>5. CASE phase' = "done"
  BY <1>5 DEF Measured
<1>6. CASE scan' = s /\ phase' = "scan" /\ UNCHANGED <<functions, func_idx>>
  <2>1. PICK step :
          /\ p = step[Len(Code)] /\ step[0] = PreStart
          /\ \A n \in 1..Len(Code) : step[n] = PreNext(step[n - 1], Code[n].op)
          /\ \A n \in 0..Len(Code) :
               /\ step[n] \in PreRecs /\ step[n].top <= p.max
               /\ step[n].blocks <= p.blocks
    BY <1>3, PreScanned
  <2> HIDE DEF p
  <2>2. Len(labels) = 1
    OBVIOUS
  <2> HIDE DEF labels
  <2>3. s.ip = 0 /\ s.jumps = << >> /\ s.labels = labels /\ s.pre_max = p.max
        /\ s.pre_blocks = p.blocks
    BY DEF NoScan
  <2>4. PreStart.top = 1 /\ PreStart.blocks = 0
    BY DEF PreStart
  <2>5. Code' = Code
    BY <1>6 DEF Code
  <2> HIDE DEF s
  <2>6. scan'.ip = 0 /\ Len(scan'.labels) = 1 /\ Len(scan'.jumps) = 0
        /\ scan'.pre_max = p.max /\ scan'.pre_blocks = p.blocks
    BY <1>6, <2>2, <2>3
  <2>7. p.max \in Nat
    BY <1>3, <2>1 DEF PreRecs
  <2>8. Follows(step)'
    BY <2>1, <2>4, <2>5, <2>6, <2>7 DEF Follows
  <2>9. QED BY <2>8 DEF Measured
<1>7. QED BY <1>4, <1>5, <1>6

LEMMA ValidatorFollows == ASSUME ValInv, Measured, ValidatorNext PROVE Measured'
<1>1. CASE SkipFunction
  BY <1>1 DEF SkipFunction, Measured
<1>2. CASE AllValidated
  BY <1>2 DEF AllValidated, Measured
<1>3. CASE RejectInstruction
  BY <1>3 DEF RejectInstruction, Stop, Measured
<1>4. CASE EndBody
  BY <1>4 DEF EndBody, Stop, Measured
<1>5. CASE ScanJump
  <2>1. Scanning /\ Instr.op \notin BlockOps \union {"if", "end"}
    BY <1>5 DEF ScanJump, Accepting, At, BlockOps
  <2>2. QED BY <1>5, <2>1, HeightFollows DEF ScanJump
<1>6. CASE ScanCall
  <2>1. Scanning /\ Instr.op \notin BlockOps \union {"if", "end"}
    BY <1>6 DEF ScanCall, Accepting, At, BlockOps
  <2>2. QED BY <1>6, <2>1, DepthFollows DEF ScanCall
<1>7. CASE ScanCallIndirect
  <2>1. Scanning /\ Instr.op \notin BlockOps \union {"if", "end"}
    BY <1>7 DEF ScanCallIndirect, Accepting, At, BlockOps
  <2>2. QED BY <1>7, <2>1, DepthFollows DEF ScanCallIndirect
<1>8. CASE ScanOperands
  <2>1. Scanning /\ Instr.op \notin BlockOps \union {"if", "end"}
    BY <1>8 DEF ScanOperands, Accepting, At, BlockOps, Operands
  <2>2. QED BY <1>8, <2>1, DepthFollows DEF ScanOperands
<1>9. QED
  BY <1>1, <1>2, <1>3, <1>4, <1>5, <1>6, <1>7, <1>8, BeginBodyFollows, ScanBlockFollows,
     ScanIfFollows, ScanElseFollows, ScanEndFollows DEF ValidatorNext

LEMMA MeasuredFits == ASSUME ValInv, Measured PROVE BuffersFit
<1> SUFFICES ASSUME phase = "scan"
             PROVE  /\ Len(scan.labels) <= scan.pre_max
                    /\ Len(scan.jumps) <= scan.pre_blocks
  BY DEF BuffersFit
<1>1. PICK step : Follows(step)
  BY DEF Measured
<1>2. /\ scan \in ScanRecs /\ scan.ip <= Len(Code) /\ func_idx \in DOMAIN functions
  BY DEF ValInv, ValidatorTypeOK, ScanRecs, Progress
<1>3. scan.ip \in 0..Len(Code) /\ Len(scan.labels) \in Nat
  BY <1>2, FunctionFields DEF ScanRecs, Code, ValInv
<1>4. step[scan.ip].top \in Nat /\ step[scan.ip].top <= scan.pre_max
      /\ step[scan.ip].blocks <= scan.pre_blocks
  BY <1>1, <1>3 DEF Follows, PreRecs
<1>5. QED BY <1>1, <1>3, <1>4 DEF Follows

-----------------------------------------------------------------------------
(* The interpreter: the call stack and the label pool *)

FrameFields ==
  {"func", "ip", "locals", "label_stack_top", "labels", "labels_base",
   "label_capacity"}

FrameOK(g) ==
  /\ DOMAIN g = FrameFields
  /\ g.func \in DOMAIN functions /\ functions[g.func].kind = "local"
  /\ g.labels_base \in Nat /\ g.label_capacity \in Nat

\* The frames of cs hold the slices of the pool up to used.
Stacked(cs, used) ==
  /\ \E S : cs \in Seq(S)
  /\ \A k \in 1..Len(cs) : FrameOK(cs[k])
  /\ Len(cs) <= call_stack_size
  /\ used \in Nat /\ used <= labels_pool_size
  /\ used = IF Len(cs) = 0 THEN 0
            ELSE cs[Len(cs)].labels_base + cs[Len(cs)].label_capacity
  /\ \A k \in 1..Len(cs) :
       cs[k].labels_base = IF k = 1 THEN 0
                           ELSE cs[k - 1].labels_base + cs[k - 1].label_capacity

CtxInv ==
  /\ Stacked(call_stack, labels_pool_top)
  /\ status = "idle" => call_stack = << >> /\ labels_pool_top = 0
  /\ status \in {"running", "yielded"} => call_stack # << >>
  /\ call_stack # << >> => phase = "done" /\ verdict = "kOk"

LEMMA SeqPush ==
  ASSUME NEW S, NEW cs \in Seq(S), NEW e
  PROVE  /\ \E T : Append(cs, e) \in Seq(T)
         /\ Len(Append(cs, e)) = Len(cs) + 1
         /\ \A k \in 1..Len(cs) : Append(cs, e)[k] = cs[k]
         /\ Append(cs, e)[Len(cs) + 1] = e
<1> DEFINE T == S \union {e}
<1>1. cs \in Seq(T) /\ e \in T
  <2>1. Len(cs) \in Nat /\ \A k \in 1..Len(cs) : cs[k] \in T OBVIOUS
  <2>2. cs = [k \in 1..Len(cs) |-> cs[k]] OBVIOUS
  <2> HIDE DEF T
  <2>3. cs \in Seq(T) BY <2>1, <2>2
  <2>4. QED BY <2>3 DEF T
<1> HIDE DEF T
<1>2. Append(cs, e) \in Seq(T) BY <1>1
<1>3. QED BY <1>2

LEMMA SeqSet ==
  ASSUME NEW S, NEW cs \in Seq(S), NEW i \in 1..Len(cs), NEW e
  PROVE  /\ \E T : [cs EXCEPT ![i] = e] \in Seq(T)
         /\ Len([cs EXCEPT ![i] = e]) = Len(cs)
         /\ \A k \in 1..Len(cs) : [cs EXCEPT ![i] = e][k] = IF k = i THEN e ELSE cs[k]
<1> DEFINE T == S \union {e}
           c == [cs EXCEPT ![i] = e]
<1>1. Len(cs) \in Nat /\ DOMAIN c = 1..Len(cs) OBVIOUS
<1>2. \A k \in 1..Len(cs) : c[k] = IF k = i THEN e ELSE cs[k] OBVIOUS
<1>3. \A k \in 1..Len(cs) : c[k] \in T BY <1>2
<1>4. c = [k \in 1..Len(cs) |-> c[k]] BY <1>1
<1> HIDE DEF T, c
<1>5. c \in Seq(T) BY <1>1, <1>3, <1>4
<1>6. Len(c) = Len(cs) BY <1>1, <1>5
<1>7. QED BY <1>2, <1>5, <1>6 DEF c

LEMMA SeqPop ==
  ASSUME NEW S, NEW cs \in Seq(S), Len(cs) > 0
  PROVE  /\ SubSeq(cs, 1, Len(cs) - 1) \in Seq(S)
         /\ Len(SubSeq(cs, 1, Len(cs) - 1)) = Len(cs) - 1
         /\ \A k \in 1..(Len(cs) - 1) : SubSeq(cs, 1, Len(cs) - 1)[k] = cs[k]
<1> DEFINE n == Len(cs) - 1
           ds == SubSeq(cs, 1, n)
<1>1. n \in Nat /\ n \in Int /\ \A i \in 1..n : cs[i] \in S OBVIOUS
<1> HIDE DEF n
<1>2. /\ ds \in Seq(S) /\ Len(ds) = IF 1 <= n THEN n - 1 + 1 ELSE 0
      /\ \A i \in 1..(n - 1 + 1) : ds[i] = cs[1 + i - 1]
  BY <1>1, SubSeqProperties
<1> HIDE DEF ds
<1>3. Len(ds) = n /\ \A k \in 1..n : ds[k] = cs[k] BY <1>1, <1>2
<1>4. QED BY <1>2, <1>3 DEF ds, n

\* A frame may change in everything but its function and its slice.
LEMMA StackedSame ==
  ASSUME NEW cs, NEW used, Stacked(cs, used), NEW ds, \E S : ds \in Seq(S),
         Len(ds) = Len(cs),
         \A k \in 1..Len(cs) :
           /\ DOMAIN ds[k] = DOMAIN cs[k] /\ ds[k].func = cs[k].func
           /\ ds[k].labels_base = cs[k].labels_base
           /\ ds[k].label_capacity = cs[k].label_capacity
  PROVE  Stacked(ds, used)
<1>1. Len(cs) \in Nat BY DEF Stacked
<1>2. \A k \in 1..Len(ds) : FrameOK(ds[k]) BY DEF Stacked, FrameOK
<1>3. Len(cs) # 0 => Len(cs) \in 1..Len(cs) BY <1>1
<1>4. used = IF Len(ds) = 0 THEN 0
             ELSE ds[Len(ds)].labels_base + ds[Len(ds)].label_capacity
  BY <1>3 DEF Stacked
<1>5. \A k \in 1..Len(ds) :
        ds[k].labels_base = IF k = 1 THEN 0
                            ELSE ds[k - 1].labels_base + ds[k - 1].label_capacity
  <2>1. TAKE k \in 1..Len(ds)
  <2>2. k # 1 => k - 1 \in 1..Len(cs) BY <1>1
  <2>3. QED BY <2>2 DEF Stacked
<1>6. QED BY <1>2, <1>4, <1>5 DEF Stacked

LEMMA StackedPush ==
  ASSUME NEW cs, NEW used, Stacked(cs, used), NEW e, FrameOK(e),
         e.labels_base = used, Len(cs) < call_stack_size,
         used + e.label_capacity <= labels_pool_size
  PROVE  Stacked(Append(cs, e), used + e.label_capacity)
<1> DEFINE ds == Append(cs, e)
<1>1. PICK S : cs \in Seq(S) BY DEF Stacked
<1>2. /\ \E T : ds \in Seq(T)
      /\ Len(ds) = Len(cs) + 1 /\ Len(cs) \in Nat
      /\ \A k \in 1..Len(cs) : ds[k] = cs[k]
      /\ ds[Len(cs) + 1] = e
  <2>1. /\ \E T : Append(cs, e) \in Seq(T) /\ Len(Append(cs, e)) = Len(cs) + 1
        /\ \A k \in 1..Len(cs) : Append(cs, e)[k] = cs[k]
        /\ Append(cs, e)[Len(cs) + 1] = e
    BY ONLY <1>1, SeqPush, ZenonT(40)
  <2>2. Len(cs) \in Nat
    BY <1>1
  <2>3. QED BY <2>1, <2>2
<1> HIDE DEF ds
<1>3. e.label_capacity \in Nat /\ used \in Nat /\ call_stack_size \in Nat
  BY ContextLimits DEF FrameOK, Stacked
<1>4. \A k \in 1..Len(ds) : k \in 1..Len(cs) \/ k = Len(cs) + 1 BY <1>2
<1>5. \A k \in 1..Len(ds) : FrameOK(ds[k]) BY <1>2, <1>4 DEF Stacked
<1>6. \A k \in 1..Len(ds) :
        ds[k].labels_base = IF k = 1 THEN 0
                            ELSE ds[k - 1].labels_base + ds[k - 1].label_capacity
  <2>1. TAKE k \in 1..Len(ds)
  <2>2. CASE k \in 1..Len(cs)
    <3>1. k # 1 => k - 1 \in 1..Len(cs) BY <1>2, <2>2
    <3>2. QED BY <1>2, <2>2, <3>1 DEF Stacked
  <2>3. CASE k = Len(cs) + 1
    <3>1. k # 1 => Len(cs) \in 1..Len(cs) /\ k - 1 = Len(cs) BY <1>2, <2>3
    <3>2. QED BY <1>2, <2>3, <3>1 DEF Stacked
  <2>4. QED BY <1>4, <2>2, <2>3
<1>7. Len(ds) # 0 /\ ds[Len(ds)] = e /\ Len(ds) <= call_stack_size BY <1>2, <1>3
<1>8. Stacked(ds, used + e.label_capacity)
  BY <1>2, <1>3, <1>5, <1>6, <1>7 DEF Stacked
<1>9. QED BY <1>8 DEF ds

LEMMA StackedPop ==
  ASSUME NEW cs, NEW used, Stacked(cs, used), Len(cs) > 0
  PROVE  Stacked(SubSeq(cs, 1, Len(cs) - 1), used - cs[Len(cs)].label_capacity)
<1> DEFINE ds == SubSeq(cs, 1, Len(cs) - 1)
           n == Len(cs)
           less == used - cs[n].label_capacity
<1>1. PICK S : cs \in Seq(S) BY DEF Stacked
<1>2. /\ ds \in Seq(S) /\ Len(ds) = n - 1 /\ n \in Nat /\ n \in 1..n
      /\ \A k \in 1..(n - 1) : ds[k] = cs[k]
  BY <1>1, SeqPop
<1> HIDE DEF ds
<1>3. /\ FrameOK(cs[n])
      /\ used = cs[n].labels_base + cs[n].label_capacity
      /\ cs[n].labels_base = IF n = 1 THEN 0
                             ELSE cs[n - 1].labels_base + cs[n - 1].label_capacity
      /\ used <= labels_pool_size /\ n <= call_stack_size
  BY <1>2 DEF Stacked
<1> HIDE DEF n
<1>4. less = cs[n].labels_base BY <1>3 DEF FrameOK
<1>5. less \in Nat /\ less <= labels_pool_size /\ Len(ds) <= call_stack_size
  BY <1>2, <1>3, <1>4, ContextLimits DEF FrameOK
<1> HIDE DEF less
<1>6. \A k \in 1..Len(ds) : FrameOK(ds[k]) BY <1>2 DEF Stacked, n
<1>7. less = IF Len(ds) = 0 THEN 0
             ELSE ds[Len(ds)].labels_base + ds[Len(ds)].label_capacity
  <2>1. CASE n = 1 BY <1>2, <1>3, <1>4, <2>1
  <2>2. CASE n # 1
    <3>1. Len(ds) \in 1..(n - 1) /\ Len(ds) = n - 1 /\ Len(ds) # 0 BY <1>2, <2>2
    <3>2. ds[Len(ds)] = cs[n - 1] BY <1>2, <3>1
    <3>3. QED BY <1>3, <1>4, <2>2, <3>1, <3>2
  <2>3. QED BY <2>1, <2>2
<1>8. \A k \in 1..Len(ds) :
        ds[k].labels_base = IF k = 1 THEN 0
                            ELSE ds[k - 1].labels_base + ds[k - 1].label_capacity
  <2>1. TAKE k \in 1..Len(ds)
  <2>2. k \in 1..(n - 1) /\ k \in 1..n /\ (k # 1 => k - 1 \in 1..(n - 1)) BY <1>2
  <2>3. QED BY <1>2, <2>2 DEF Stacked, n
<1>9. Stacked(ds, less) BY <1>2, <1>5, <1>6, <1>7, <1>8 DEF Stacked
<1>10. QED BY <1>9 DEF ds, less, n

LEMMA TouchFrame ==
  ASSUME NEW cs, NEW used, Stacked(cs, used), Len(cs) > 0,
         NEW g, DOMAIN g = DOMAIN cs[Len(cs)], g.func = cs[Len(cs)].func,
         g.labels_base = cs[Len(cs)].labels_base,
         g.label_capacity = cs[Len(cs)].label_capacity
  PROVE  LET ds == [cs EXCEPT ![Len(cs)] = g]
         IN Stacked(ds, used) /\ Len(ds) = Len(cs)
<1> DEFINE ds == [cs EXCEPT ![Len(cs)] = g]
<1>1. PICK S : cs \in Seq(S) BY DEF Stacked
<1>2. Len(cs) \in 1..Len(cs) BY <1>1
<1> DEFINE n == Len(cs)
<1>3. /\ \E T : [cs EXCEPT ![n] = g] \in Seq(T)
      /\ Len([cs EXCEPT ![n] = g]) = Len(cs)
      /\ \A k \in 1..Len(cs) : [cs EXCEPT ![n] = g][k] = IF k = n THEN g ELSE cs[k]
  <2>1. n \in 1..Len(cs) BY <1>2
  <2> HIDE DEF n
  <2>2. QED BY <1>1, <2>1, SeqSet
<1> HIDE DEF ds
<1>4. Stacked(ds, used) BY <1>3, StackedSame DEF ds
<1>5. QED BY <1>3, <1>4 DEF ds

\* What the interpreter knows at an instruction.
LEMMA RunningFrame ==
  ASSUME ValInv, CtxInv, status = "running"
  PROVE  /\ top \in Nat /\ top > 0 /\ FrameOK(frame) /\ frame = call_stack[top]
         /\ phase = "done" /\ verdict = "kOk"
         /\ Stacked(call_stack, labels_pool_top)
<1>1. call_stack # << >> /\ Stacked(call_stack, labels_pool_top) BY DEF CtxInv
<1>2. PICK S : call_stack \in Seq(S) BY <1>1 DEF Stacked
<1>3. top \in Nat /\ top > 0 BY <1>1, <1>2 DEF top
<1>4. QED BY <1>1, <1>3 DEF CtxInv, Stacked, top, frame

\* IndicesChecked is what makes the target of a call a function.
LEMMA CallTarget ==
  ASSUME ValInv, CtxInv, Running({"call"})
  PROVE  instr.func \in DOMAIN functions
<1>1. FrameOK(frame) /\ phase = "done" /\ verdict = "kOk"
  BY RunningFrame DEF Running
<1>2. /\ frame.func \in DOMAIN functions /\ functions[frame.func].kind = "local"
      /\ func_idx = Len(functions) + 1 /\ functions \in Seq(Functions)
  BY <1>1 DEF FrameOK, ValInv, Progress, ValidatorTypeOK
<1>3. Scanned(frame.func) = Len(body)
  BY <1>1, <1>2 DEF Scanned, body
<1>4. regs.ip + 1 \in 1..Len(body)
  BY <1>2, FunctionFields DEF Running, ValInv, body
<1>5. InRange(frame.func, instr)
  BY <1>2, <1>3, <1>4 DEF ValInv, IndicesChecked, instr, body
<1>6. instr.op = "call" BY DEF Running, instr
<1>7. QED BY <1>5, <1>6 DEF InRange

\* Steps that leave the frames and the pool alone.
LEMMA SameStack ==
  ASSUME CtxInv, UNCHANGED <<valVars, call_stack, labels_pool_top>>,
         status \in {"running", "yielded"}, status' # "idle"
  PROVE  CtxInv'
BY DEF CtxInv, Stacked, FrameOK, valVars

\* Steps after which the frames still hold the pool.
LEMMA NewStack ==
  ASSUME ValInv, CtxInv, status = "running", UNCHANGED valVars,
         Stacked(call_stack', labels_pool_top'), status' # "idle",
         status' \in {"running", "yielded"} => call_stack' # << >>
  PROVE  CtxInv'
<1>1. phase = "done" /\ verdict = "kOk" BY RunningFrame
<1>2. QED BY <1>1 DEF CtxInv, Stacked, FrameOK, valVars

LEMMA NonEmpty ==
  ASSUME NEW cs, NEW used, Stacked(cs, used)
  PROVE  cs # << >> <=> Len(cs) > 0
<1>1. PICK S : cs \in Seq(S) BY DEF Stacked
<1>2. QED BY <1>1

LEMMA EnterLabelKeeps ==
  ASSUME ValInv, CtxInv, status = "running", UNCHANGED valVars,
         NEW l, EnterLabel(l)
  PROVE  CtxInv'
<1>1. /\ top \in Nat /\ top > 0 /\ FrameOK(call_stack[top])
      /\ Stacked(call_stack, labels_pool_top)
  BY RunningFrame
<1> DEFINE labels == SubSeq(call_stack[top].labels, 1, regs.label_top) \o <<l>>
           g == [call_stack[top] EXCEPT !.labels = labels]
           ds == [call_stack EXCEPT ![top] = g]
<1>2. call_stack' = ds BY DEF EnterLabel
<1> HIDE DEF labels
<1>3. /\ DOMAIN g = DOMAIN call_stack[top] /\ g.func = call_stack[top].func
      /\ g.labels_base = call_stack[top].labels_base
      /\ g.label_capacity = call_stack[top].label_capacity
  BY <1>1 DEF FrameOK, FrameFields
<1> HIDE DEF g
<1>4. Stacked(ds, labels_pool_top) /\ Len(ds) = top
  BY <1>1, <1>3, TouchFrame DEF top
<1> HIDE DEF ds
<1>5. ds # << >> BY <1>1, <1>4, NonEmpty
<1>6. QED BY <1>2, <1>4, <1>5, NewStack DEF EnterLabel

\* Writing ip and label_stack_top back to the frame.
LEMMA WriteBack ==
  ASSUME ValInv, CtxInv, status = "running", NEW i, NEW t, NEW ds,
         ds = [call_stack EXCEPT ![top].ip = i, ![top].label_stack_top = t]
  PROVE  Stacked(ds, labels_pool_top) /\ Len(ds) = top /\ ds # << >>
<1>1. /\ top \in Nat /\ top > 0 /\ FrameOK(call_stack[top])
      /\ Stacked(call_stack, labels_pool_top)
  BY RunningFrame
<1> DEFINE g == [call_stack[top] EXCEPT !.ip = i, !.label_stack_top = t]
           es == [call_stack EXCEPT ![top] = g]
<1>2. PICK S : call_stack \in Seq(S) BY <1>1 DEF Stacked
<1>3. top \in DOMAIN call_stack BY <1>1, <1>2 DEF top
<1>4. ds = es BY <1>3
<1>5. /\ DOMAIN g = DOMAIN call_stack[top] /\ g.func = call_stack[top].func
      /\ g.labels_base = call_stack[top].labels_base
      /\ g.label_capacity = call_stack[top].label_capacity
  BY <1>1 DEF FrameOK, FrameFields
<1> HIDE DEF g
<1>6. Stacked(es, labels_pool_top) /\ Len(es) = top
  BY <1>1, <1>5, TouchFrame DEF top
<1> HIDE DEF es
<1>7. es # << >> BY <1>1, <1>6, NonEmpty
<1>8. QED BY <1>4, <1>6, <1>7

LEMMA ExecuteKeeps ==
  ASSUME ValInv, CtxInv, NEW f \in DOMAIN functions, NEW args, Execute(f, args)
  PROVE  CtxInv'
<1>1. /\ status = "idle" /\ phase = "done" /\ verdict = "kOk"
      /\ functions[f].kind = "local" /\ call_stack = << >> /\ labels_pool_top = 0
      /\ Stacked(call_stack, 0)
  BY DEF Execute, CtxInv
<1> DEFINE g == NewFrame(f, 0)
           m == functions[f].max_label_depth
<1>2. m \in Nat
  <2>1. functions[f] \in Functions BY FunctionFields DEF ValInv
  <2>2. QED BY <2>1 DEF Functions
<1>3. /\ FrameOK(g) /\ g.labels_base = 0 /\ g.label_capacity = m
  BY <1>1, <1>2 DEF NewFrame, FrameOK, FrameFields
<1>4. Append(call_stack, g) = <<g>> BY <1>1
<1>5. CASE status' = "kErrorExecuteTrapLabelStackOverflow"
           /\ UNCHANGED <<valVars, call_stack, labels_pool_top>>
  BY <1>1, <1>5 DEF CtxInv, Stacked, FrameOK, valVars
<1>6. CASE /\ labels_pool_top + m <= labels_pool_size /\ call_stack' = <<g>>
           /\ labels_pool_top' = labels_pool_top + m /\ status' = "running"
           /\ UNCHANGED valVars
  <2>1. Len(call_stack) < call_stack_size BY <1>1, ContextLimits
  <2>2. 0 + m <= labels_pool_size BY <1>1, <1>6
  <2> HIDE DEF g, m
  <2>3. Stacked(Append(call_stack, g), 0 + m)
    BY <1>1, <1>3, <2>1, <2>2, StackedPush
  <2>4. Stacked(call_stack', labels_pool_top')
    BY <1>1, <1>4, <1>6, <2>3
  <2>5. call_stack' # << >> BY <1>6
  <2>6. QED BY <1>1, <1>6, <2>4, <2>5 DEF CtxInv, Stacked, FrameOK, valVars
<1>7. QED BY <1>5, <1>6 DEF Execute

LEMMA BranchKeeps ==
  ASSUME ValInv, CtxInv, status = "running", NEW s, NEW l, BranchTo(s, l)
  PROVE  CtxInv'
<1>1. PICK i, t :
        /\ call_stack' = [call_stack EXCEPT ![top].ip = i, ![top].label_stack_top = t]
        /\ UNCHANGED <<valVars, labels_pool_top, status>>
  BY DEF BranchTo
<1>2. Stacked(call_stack', labels_pool_top) /\ call_stack' # << >>
  BY <1>1, WriteBack
<1>3. QED BY <1>1, <1>2, NewStack

LEMMA LeaveKeeps ==
  ASSUME ValInv, CtxInv, status = "running", LeaveFrame
  PROVE  CtxInv'
<1>1. /\ top \in Nat /\ top > 0 /\ frame = call_stack[top]
      /\ Stacked(call_stack, labels_pool_top)
  BY RunningFrame
<1>2. /\ labels_pool_top' = labels_pool_top - frame.label_capacity
      /\ call_stack' = SubSeq(call_stack, 1, top - 1)
      /\ \/ top = 1 /\ status' = "returned"
         \/ top > 1 /\ status' = status
      /\ UNCHANGED valVars
  BY DEF LeaveFrame
<1>3. Stacked(call_stack', labels_pool_top')
  BY <1>1, <1>2, StackedPop DEF top
<1>4. top > 1 => call_stack' # << >>
  <2>1. PICK S : call_stack \in Seq(S) BY <1>1 DEF Stacked
  <2>2. Len(call_stack') = top - 1 BY <1>1, <1>2, <2>1, SeqPop DEF top
  <2>3. QED BY <1>1, <1>3, <2>2, NonEmpty
<1>5. QED BY <1>2, <1>3, <1>4, NewStack

LEMMA SaveKeeps ==
  ASSUME ValInv, CtxInv, status = "running"
  PROVE  Stacked(SaveFrame, labels_pool_top) /\ Len(SaveFrame) = top /\ SaveFrame # << >>
BY WriteBack DEF SaveFrame

LEMMA PushKeeps ==
  ASSUME ValInv, CtxInv, status = "running", UNCHANGED valVars,
         NEW s, NEW f \in DOMAIN functions, functions[f].kind = "local",
         NEW r \in {"kErrorExecuteTrapStackOverflow",
                    "kErrorExecuteTrapCallStackOverflow"},
         PushCallFrame(s, f, r)
  PROVE  CtxInv'
<1> DEFINE m == functions[f].max_label_depth
           base == Len(s) - functions[f].params
           g == NewFrame(f, base)
<1>1. \/ /\ call_stack' = SaveFrame /\ labels_pool_top' = labels_pool_top
         /\ status' \in {r, "kErrorExecuteTrapStackOverflow",
                         "kErrorExecuteTrapLabelStackOverflow"}
      \/ /\ ~(top >= call_stack_size) /\ ~(labels_pool_top + m > labels_pool_size)
         /\ call_stack' = Append(SaveFrame, g)
         /\ labels_pool_top' = labels_pool_top + m /\ status' = status
  BY DEF PushCallFrame
<1>2. Stacked(SaveFrame, labels_pool_top) /\ Len(SaveFrame) = top /\ SaveFrame # << >>
  BY SaveKeeps
<1>3. CASE /\ call_stack' = SaveFrame /\ labels_pool_top' = labels_pool_top
           /\ status' \in {r, "kErrorExecuteTrapStackOverflow",
                           "kErrorExecuteTrapLabelStackOverflow"}
  BY <1>2, <1>3, NewStack
<1>4. CASE /\ ~(top >= call_stack_size) /\ ~(labels_pool_top + m > labels_pool_size)
           /\ call_stack' = Append(SaveFrame, g)
           /\ labels_pool_top' = labels_pool_top + m /\ status' = status
  <2>1. m \in Nat
    <3>1. functions[f] \in Functions BY FunctionFields DEF ValInv
    <3>2. QED BY <3>1 DEF Functions
  <2> HIDE DEF base
  <2>2. labels_pool_top \in Nat /\ top \in Nat BY <1>2, RunningFrame DEF Stacked
  <2>3. FrameOK(g) /\ g.labels_base = labels_pool_top /\ g.label_capacity = m
    BY <2>1, <2>2 DEF NewFrame, FrameOK, FrameFields
  <2> HIDE DEF g, m
  <2>4. Len(SaveFrame) < call_stack_size /\ labels_pool_top + m <= labels_pool_size
    BY <1>2, <1>4, <2>1, <2>2, ContextLimits
  <2>5. Stacked(call_stack', labels_pool_top')
    BY <1>2, <1>4, <2>3, <2>4, StackedPush
  <2>6. call_stack' # << >>
    <3>1. PICK S : SaveFrame \in Seq(S) BY <1>2 DEF Stacked
    <3>2. Len(call_stack') = top + 1 BY <1>2, <1>4, <3>1, SeqPush
    <3>3. QED BY <2>2, <2>5, <3>2, NonEmpty
  <2>7. QED BY <1>4, <2>5, <2>6, NewStack
<1>5. QED BY <1>1, <1>3, <1>4

LEMMA InvokeKeeps ==
  ASSUME ValInv, CtxInv, status = "running", NEW s, NEW f \in DOMAIN functions,
         NEW r \in {"kErrorExecuteTrapStackOverflow",
                    "kErrorExecuteTrapCallStackOverflow"},
         Invoke(s, f, r)
  PROVE  CtxInv'
<1>1. CASE CallHost(s, f)
  <2>1. UNCHANGED valVars BY DEF Invoke
  <2>2. \/ UNCHANGED <<call_stack, labels_pool_top, status>>
        \/ status' = "yielded" /\ call_stack' = SaveFrame /\ UNCHANGED labels_pool_top
        \/ status' = "kErrorExecuteRuntimeError"
           /\ UNCHANGED <<call_stack, labels_pool_top>>
    BY <1>1 DEF CallHost, Trap
  <2>3. CASE status' = "yielded" /\ call_stack' = SaveFrame /\ UNCHANGED labels_pool_top
    BY <2>1, <2>3, SaveKeeps, NewStack
  <2>4. QED BY <2>1, <2>2, <2>3, SameStack
<1>2. CASE functions[f].kind = "local" /\ PushCallFrame(s, f, r)
  BY <1>2, PushKeeps DEF Invoke
<1>3. QED BY <1>1, <1>2 DEF Invoke

LEMMA CallIndirectKeeps ==
  ASSUME ValInv, CtxInv, CallIndirect
  PROVE  CtxInv'
<1> DEFINE s == Below(stack, 1)
           elem == stack[sp] + 1
<1>1. status = "running" BY DEF CallIndirect, Running
<1>2. \/ \E r \in {"kErrorExecuteTrapTableOutOfBounds",
                   "kErrorExecuteTrapTableUninitializedElement",
                   "kErrorExecuteTrapIndirectCallSignatureMismatch"} :
           Trap(r) /\ UNCHANGED valVars
      \/ /\ elem \in DOMAIN table /\ table[elem] # 0
         /\ Invoke(s, table[elem], "kErrorExecuteTrapCallStackOverflow")
  BY DEF CallIndirect
<1> HIDE DEF s, elem
<1>3. CASE \E r \in {"kErrorExecuteTrapTableOutOfBounds",
                     "kErrorExecuteTrapTableUninitializedElement",
                     "kErrorExecuteTrapIndirectCallSignatureMismatch"} :
             Trap(r) /\ UNCHANGED valVars
  BY <1>1, <1>3, SameStack DEF Trap
<1>4. CASE /\ elem \in DOMAIN table /\ table[elem] # 0
           /\ Invoke(s, table[elem], "kErrorExecuteTrapCallStackOverflow")
  <2>1. functions \in Seq(Functions) /\ table[elem] \in 0..Len(functions)
    BY <1>4 DEF ValInv, ValidatorTypeOK, Progress
  <2>2. table[elem] \in DOMAIN functions BY <1>4, <2>1
  <2>3. QED BY <1>1, <1>4, <2>2, InvokeKeeps
<1>5. QED BY <1>2, <1>3, <1>4

-----------------------------------------------------------------------------
(* The specification *)

LEMMA InitHolds == ASSUME InterpreterInit PROVE ValInv /\ CtxInv
<1>1. /\ functions \in Seq(Functions) /\ func_idx = 1 /\ phase = "begin"
      /\ scan = NoScan /\ verdict = "kOk"
      /\ \A f \in DOMAIN functions : functions[f].block_jump_table = << >>
      /\ \A k \in DOMAIN table : table[k] \in 0..Len(functions)
      /\ call_stack = << >> /\ labels_pool_top = 0 /\ status = "idle"
  BY DEF InterpreterInit, ValidatorInit
<1>2. ValidatorTypeOK BY <1>1, NoScanFits DEF ValidatorTypeOK
<1>3. JumpTablesAscend BY <1>1, NoScanFits DEF JumpTablesAscend, Ascending
<1>4. Behind BY <1>1, NoScanFits DEF Behind, JumpsOK, Ascending, LabelsJump
<1>5. Progress BY <1>1 DEF Progress
<1>6. IndicesChecked
  <2>1. \A f \in DOMAIN functions : Scanned(f) = 0 BY <1>1 DEF Scanned
  <2>2. QED BY <2>1 DEF IndicesChecked
<1>7. CtxInv
  <2>1. << >> \in Seq({}) /\ Len(<< >>) = 0 OBVIOUS
  <2>2. Stacked(<< >>, 0) BY <2>1, ContextLimits DEF Stacked
  <2>3. QED BY <1>1, <2>2 DEF CtxInv
<1>8. QED BY <1>2, <1>3, <1>4, <1>5, <1>6, <1>7 DEF ValInv

LEMMA StepKeeps == ASSUME ValInv, CtxInv, [Next]_vars PROVE ValInv' /\ CtxInv'
<1>1. CASE ValidatorNext /\ UNCHANGED ctxVars
  <2>1. phase # "done"
    BY <1>1 DEF ValidatorNext, SkipFunction, AllValidated, BeginBody,
       RejectInstruction, ScanBlock, ScanIf, ScanElse, ScanEnd, ScanJump, ScanCall,
       ScanCallIndirect, ScanOperands, EndBody, Accepting, At, Scanning
  <2>2. call_stack = << >> BY <2>1 DEF CtxInv
  <2>3. CtxInv' BY <1>1, <2>2 DEF CtxInv, Stacked, ctxVars
  <2>4. QED BY <1>1, <2>3, ValidatorKeeps
<1>2. ASSUME UNCHANGED valVars PROVE ValInv'
  <2>1. UNCHANGED <<functions, func_idx, phase, scan, verdict>> BY <1>2 DEF valVars
  <2>2. ValidatorTypeOK' BY <2>1 DEF ValInv, ValidatorTypeOK
  <2>3. JumpTablesAscend' BY <2>1 DEF ValInv, JumpTablesAscend
  <2>4. Behind' BY <2>1 DEF ValInv, Behind, LabelsJump
  <2>5. Progress' BY <2>1 DEF ValInv, Progress, Code
  <2>6. SameCode BY <2>1 DEF SameCode
  <2>7. \A f \in DOMAIN functions : \A k \in 1..Scanned(f)' : k \in 1..Scanned(f)
    BY <2>1 DEF Scanned
  <2>8. IndicesChecked' BY <2>6, <2>7, IndicesStay DEF ValInv
  <2>9. QED BY <2>2, <2>3, <2>4, <2>5, <2>8 DEF ValInv
<1>3. CASE \E f \in DOMAIN functions :
             \E args \in Tuples(functions[f].params) : Execute(f, args)
  <2>1. PICK f \in DOMAIN functions :
          \E args \in Tuples(functions[f].params) : Execute(f, args)
    BY <1>3
  <2>2. PICK args \in Tuples(functions[f].params) : Execute(f, args) BY <2>1
  <2>3. UNCHANGED valVars BY <2>2 DEF Execute
  <2>4. QED BY <1>2, <2>2, <2>3, ExecuteKeeps
<1>4. CASE Operand
  BY <1>2, <1>4, SameStack DEF Operand, Running
<1>5. CASE Unreachable
  BY <1>2, <1>5, SameStack DEF Unreachable, Running, Trap
<1>6. CASE Block
  BY <1>2, <1>6, EnterLabelKeeps DEF Block, Running
<1>7. CASE If
  BY <1>2, <1>7, EnterLabelKeeps DEF If, Running
<1>8. CASE Else
  BY <1>2, <1>8, SameStack DEF Else, Running, Trap
<1>9. CASE Br
  <2>1. status = "running" /\ BranchTo(stack, instr.label) BY <1>9 DEF Br, Running
  <2>2. UNCHANGED valVars BY <2>1 DEF BranchTo
  <2>3. QED BY <1>2, <2>1, <2>2, BranchKeeps
<1>10. CASE BrIf
  <2>1. status = "running" BY <1>10 DEF BrIf, Running
  <2>2. CASE BranchTo(Below(stack, 1), instr.label)
    <3>1. UNCHANGED valVars BY <2>2 DEF BranchTo
    <3>2. QED BY <1>2, <2>1, <2>2, <3>1, BranchKeeps
  <2>3. CASE UNCHANGED <<valVars, call_stack, labels_pool_top, status>>
    BY <1>2, <2>1, <2>3, SameStack
  <2>4. QED BY <1>10, <2>2, <2>3 DEF BrIf
<1>11. CASE BrTable
  <2>1. PICK l : status = "running" /\ BranchTo(Below(stack, 1), l)
    BY <1>11 DEF BrTable, Running
  <2>2. UNCHANGED valVars BY <2>1 DEF BranchTo
  <2>3. QED BY <1>2, <2>1, <2>2, BranchKeeps
<1>12. CASE End
  <2>1. status = "running" BY <1>12 DEF End, Running
  <2>2. CASE LeaveFrame BY <1>2, <2>1, <2>2, LeaveKeeps DEF LeaveFrame
  <2>3. CASE UNCHANGED <<valVars, call_stack, labels_pool_top, status>>
    BY <1>2, <2>1, <2>3, SameStack
  <2>4. QED BY <1>12, <2>2, <2>3 DEF End
<1>13. CASE Return
  BY <1>2, <1>13, LeaveKeeps DEF Return, Running, LeaveFrame
<1>14. CASE Call
  <2>1. status = "running" /\ instr.func \in DOMAIN functions
    BY <1>14, CallTarget DEF Call, Running
  <2>2. UNCHANGED valVars BY <1>14 DEF Call, Invoke
  <2>3. QED BY <1>2, <1>14, <2>1, <2>2, InvokeKeeps DEF Call
<1>15. CASE CallIndirect
  <2>1. UNCHANGED valVars BY <1>15 DEF CallIndirect, Invoke
  <2>2. QED BY <1>2, <1>15, <2>1, CallIndirectKeeps
<1>16. CASE Resume
  <2>1. UNCHANGED <<valVars, call_stack, labels_pool_top>> /\ status = "yielded"
        /\ status' = "running"
    BY <1>16 DEF Resume
  <2>2. QED BY <1>2, <2>1, SameStack
<1>17. CASE Done \/ UNCHANGED vars
  <2>1. UNCHANGED valVars /\ UNCHANGED ctxVars BY <1>17 DEF Done, vars
  <2>2. CtxInv'
    <3>1. UNCHANGED <<functions, phase, verdict, call_stack, labels_pool_top, status>>
      BY <2>1 DEF valVars, ctxVars
    <3>2. QED BY <3>1 DEF CtxInv, Stacked, FrameOK
  <2>3. QED BY <1>2, <2>1, <2>2
<1>18. QED
  BY <1>1, <1>3, <1>4, <1>5, <1>6, <1>7, <1>8, <1>9, <1>10, <1>11, <1>12, <1>13,
     <1>14, <1>15, <1>16, <1>17 DEF Next

\* The interpreter changes nothing of the validator's.
LEMMA ValidatorOrNot == ASSUME [Next]_vars PROVE ValidatorNext \/ UNCHANGED valVars
<1>1. CASE Operand \/ Unreachable \/ Block \/ If \/ Else \/ Br \/ BrIf \/ BrTable
  BY <1>1 DEF Operand, Unreachable, Block, If, Else, Br, BrIf, BrTable, BranchTo
<1>2. CASE End \/ Return \/ Call \/ CallIndirect \/ Resume
  BY <1>2 DEF End, Return, Call, CallIndirect, Resume, LeaveFrame, Invoke
<1>3. CASE \E f \in DOMAIN functions :
             \E args \in Tuples(functions[f].params) : Execute(f, args)
  BY <1>3 DEF Execute
<1>4. CASE Done \/ UNCHANGED vars
  BY <1>4 DEF Done, vars
<1>5. QED BY <1>1, <1>2, <1>3, <1>4 DEF Next

\* The inductive invariant: what the validator has established so far, and
\* what the frames hold of the call stack and the label pool.
THEOREM InterpreterInvariant == Spec => [](ValInv /\ CtxInv)
<1>1. InterpreterInit => ValInv /\ CtxInv BY InitHolds
<1>2. ValInv /\ CtxInv /\ [Next]_vars => (ValInv /\ CtxInv)' BY StepKeeps
<1>3. QED BY <1>1, <1>2, PTL DEF Spec

\* ValidateFunctionBody never reads a label or an entry it did not write.
THEOREM ValidatorTypes == Spec => []ValidatorTypeOK
<1>1. ValInv /\ CtxInv => ValidatorTypeOK BY DEF ValInv
<1>2. QED BY <1>1, InterpreterInvariant, PTL

\* The second pass never leaves the buffers that the first one measured,
\* whatever the bytes of the body are.
THEOREM BuffersCorrect == Spec => []BuffersFit
<1>1. InterpreterInit => Measured
  BY DEF InterpreterInit, ValidatorInit, Measured
<1>2. ValInv /\ Measured /\ [Next]_vars => Measured'
  <2> SUFFICES ASSUME ValInv, Measured, [Next]_vars PROVE Measured'
    OBVIOUS
  <2>1. CASE UNCHANGED valVars
    BY <2>1 DEF valVars, Measured, Follows, Code
  <2>2. CASE ValidatorNext
    BY <2>2, ValidatorFollows
  <2>3. ValidatorNext \/ UNCHANGED valVars
    BY ValidatorOrNot
  <2>4. QED BY <2>1, <2>2, <2>3
<1>3. ValInv /\ Measured => BuffersFit
  BY MeasuredFits
<1>4. QED BY <1>1, <1>2, <1>3, InterpreterInvariant, PTL DEF Spec

\* The tables that FindBlockJump halves are in ascending order, and every
\* offset in them lies behind the block it belongs to.
THEOREM JumpTablesCorrect == Spec => []JumpTablesAscend
<1>1. ValInv /\ CtxInv => JumpTablesAscend BY DEF ValInv
<1>2. QED BY <1>1, InterpreterInvariant, PTL

\* Whatever function is executed, the indices in its body were checked.
THEOREM IndicesCorrect == Spec => []IndicesChecked
<1>1. ValInv /\ CtxInv => IndicesChecked BY DEF ValInv
<1>2. QED BY <1>1, InterpreterInvariant, PTL

\* The slices of the label pool are consecutive and inside the pool, across
\* calls, returns, traps, calls that fail half way and suspensions.
THEOREM LabelSlicesCorrect == Spec => []LabelSlices
<1>1. ValInv /\ CtxInv => LabelSlices
  BY DEF CtxInv, Stacked, LabelSlices, top, frame
<1>2. QED BY <1>1, InterpreterInvariant, PTL


-----------------------------------------------------------------------------
(* The checker of valid bodies *)

CtrlRecs == [op : {"func", "block", "loop", "if", "else"}, height : Nat, params : Nat,
             results : Nat, dead : BOOLEAN]
States == [ok : BOOLEAN, h : Nat, ctrls : Seq(CtrlRecs)]

\* Some block is open and the height is not below where it starts.
Upright(s) == s \in States /\ s.ctrls # << >> /\ InnerCtrl(s).height <= s.h

\* r has the k outermost blocks of s, and maybe others.
Agree(s, r, k) == \A j \in 1..k : r.ctrls[j] = s.ctrls[j]

LEMMA InnerFacts ==
  ASSUME NEW s \in States, s.ctrls # << >>
  PROVE  /\ Len(s.ctrls) \in Nat \ {0} /\ InnerCtrl(s) = s.ctrls[Len(s.ctrls)]
         /\ InnerCtrl(s) \in CtrlRecs /\ InnerCtrl(s).height \in Nat
         /\ InnerCtrl(s).results \in Nat /\ InnerCtrl(s).params \in Nat
         /\ InnerCtrl(s).dead \in BOOLEAN /\ s.h \in Nat
         /\ \A j \in 1..Len(s.ctrls) :
              /\ s.ctrls[j] \in CtrlRecs /\ s.ctrls[j].height \in Nat
              /\ s.ctrls[j].results \in Nat /\ s.ctrls[j].params \in Nat
         /\ Live(s) => ~InnerCtrl(s).dead
<1>1. s.ctrls \in Seq(CtrlRecs) /\ s.h \in Nat
  BY DEF States
<1>2. Len(s.ctrls) \in Nat \ {0} /\ Len(s.ctrls) \in 1..Len(s.ctrls)
      /\ \A j \in 1..Len(s.ctrls) : s.ctrls[j] \in CtrlRecs
  BY <1>1
<1>3. \A c \in CtrlRecs : c.height \in Nat /\ c.results \in Nat /\ c.params \in Nat
                          /\ c.dead \in BOOLEAN
  BY DEF CtrlRecs
<1>4. QED BY <1>1, <1>2, <1>3 DEF Live, InnerCtrl

\* What removing and adding operands does to a state, in dead code and live.
LEMMA PopFacts ==
  ASSUME NEW s, Upright(s), NEW n \in Nat
  PROVE  /\ Upright(PopN(s, n)) /\ PopN(s, n).ctrls = s.ctrls
         /\ PopN(s, n).ok => s.ok
         /\ PopN(s, n).ok /\ ~InnerCtrl(s).dead =>
              /\ n <= s.h - InnerCtrl(s).height /\ PopN(s, n).h = s.h - n
<1> DEFINE c == InnerCtrl(s)
           r == PopN(s, n)
<1>1. /\ s \in States /\ s.h \in Nat /\ s.ok \in BOOLEAN /\ s.ctrls # << >>
      /\ c.height <= s.h
  BY DEF Upright, States
<1>2. c.height \in Nat
  BY <1>1, InnerFacts
<1> HIDE DEF c
<1>3. CASE s.h - c.height >= n
  <2>1. r = [s EXCEPT !.h = s.h - n]
    BY <1>3 DEF PopN, c
  <2>2. s.h - n \in Nat /\ c.height <= s.h - n
    BY <1>1, <1>2, <1>3
  <2>3. r \in States /\ r.h = s.h - n /\ r.ctrls = s.ctrls /\ r.ok = s.ok
    BY <1>1, <2>1, <2>2 DEF States
  <2>4. InnerCtrl(r) = c
    BY <2>3 DEF InnerCtrl, c
  <2> HIDE DEF r
  <2>5. QED BY <1>1, <1>2, <1>3, <2>2, <2>3, <2>4 DEF Upright, c, r
<1>4. CASE ~(s.h - c.height >= n) /\ c.dead
  <2>1. r = [s EXCEPT !.h = c.height]
    BY <1>4 DEF PopN, c
  <2>2. r \in States /\ r.h = c.height /\ r.ctrls = s.ctrls /\ r.ok = s.ok
    BY <1>1, <1>2, <2>1 DEF States
  <2>3. InnerCtrl(r) = c
    BY <2>2 DEF InnerCtrl, c
  <2> HIDE DEF r
  <2>4. QED BY <1>1, <1>2, <1>4, <2>2, <2>3 DEF Upright, c, r
<1>5. CASE ~(s.h - c.height >= n) /\ ~c.dead
  <2>1. r = [s EXCEPT !.ok = FALSE]
    BY <1>5 DEF PopN, Bad, c
  <2>2. r \in States /\ r.h = s.h /\ r.ctrls = s.ctrls /\ r.ok = FALSE
    BY <1>1, <2>1 DEF States
  <2>3. InnerCtrl(r) = c
    BY <2>2 DEF InnerCtrl, c
  <2> HIDE DEF r
  <2>4. QED BY <1>1, <1>2, <2>2, <2>3 DEF Upright, c, r
<1>6. QED BY <1>3, <1>4, <1>5

LEMMA PushFacts ==
  ASSUME NEW s, Upright(s), NEW n \in Nat
  PROVE  /\ Upright(PushN(s, n)) /\ PushN(s, n).ctrls = s.ctrls
         /\ PushN(s, n).ok = s.ok /\ PushN(s, n).h = s.h + n
<1> DEFINE r == PushN(s, n)
<1>1. /\ s \in States /\ s.h \in Nat /\ s.ctrls # << >> /\ InnerCtrl(s).height <= s.h
      /\ InnerCtrl(s).height \in Nat
  BY InnerFacts DEF Upright, States
<1>2. r \in States /\ r.h = s.h + n /\ r.ctrls = s.ctrls /\ r.ok = s.ok
  BY <1>1 DEF PushN, States
<1> HIDE DEF r
<1>3. InnerCtrl(r) = InnerCtrl(s)
  BY <1>2 DEF InnerCtrl
<1>4. QED BY <1>1, <1>2, <1>3 DEF Upright, r

-----------------------------------------------------------------------------
(* What the instructions of each kind do in a valid body *)

\* An instruction that takes n operands and leaves m.
Moves(s, r, n, m) ==
  /\ Upright(r) /\ r.ctrls = s.ctrls
  /\ ~InnerCtrl(s).dead => /\ n <= s.h - InnerCtrl(s).height /\ r.h = s.h - n + m

\* A block opens over its p parameters when n operands are gone.
Opens(s, r, op, n, p, q) ==
  /\ Upright(r) /\ InnerCtrl(s).height <= InnerCtrl(r).height
  /\ r.ctrls = Append(s.ctrls, Ctrl(op, InnerCtrl(r).height, p, q))
  /\ r.h = InnerCtrl(r).height + p
  /\ ~InnerCtrl(s).dead => /\ n <= s.h - InnerCtrl(s).height
                           /\ InnerCtrl(r).height = s.h - n

\* A branch that is taken with n operands, and what is left of the block.
Dies(s, r, n) ==
  /\ Upright(r) /\ Len(r.ctrls) = Len(s.ctrls) /\ Agree(s, r, Len(s.ctrls) - 1)
  /\ InnerCtrl(r) = [InnerCtrl(s) EXCEPT !.dead = TRUE]
  /\ ~InnerCtrl(s).dead => n <= s.h - InnerCtrl(s).height

\* The then-branch is over.
Turns(s, r) ==
  LET c == InnerCtrl(s)
  IN /\ Upright(r) /\ Len(r.ctrls) = Len(s.ctrls) /\ Agree(s, r, Len(s.ctrls) - 1)
     /\ c.op = "if" /\ InnerCtrl(r) = Ctrl("else", c.height, c.params, c.results)
     /\ r.h = c.height + c.params
     /\ ~c.dead => s.h = c.height + c.results

\* The innermost block is over.
Closes(s, r) ==
  LET c == InnerCtrl(s)
  IN /\ r \in States /\ r.ctrls = SubSeq(s.ctrls, 1, Len(s.ctrls) - 1)
     /\ r.h = c.height + c.results
     /\ c.op = "if" => c.params = c.results
     /\ ~c.dead => s.h = c.height + c.results

LEMMA PopPush ==
  ASSUME NEW s, Upright(s), NEW n \in Nat, NEW m \in Nat,
         NEW r, r = PushN(PopN(s, n), m), r.ok
  PROVE  Moves(s, r, n, m)
<1> DEFINE q == PopN(s, n)
<1>1. /\ Upright(q) /\ q.ctrls = s.ctrls
      /\ q.ok /\ ~InnerCtrl(s).dead => n <= s.h - InnerCtrl(s).height /\ q.h = s.h - n
  BY PopFacts
<1> HIDE DEF q
<1>2. Upright(r) /\ r.ctrls = q.ctrls /\ r.ok = q.ok /\ r.h = q.h + m
  BY <1>1, PushFacts DEF q
<1>3. QED BY <1>1, <1>2 DEF Moves

LEMMA PopPopPush ==
  ASSUME NEW s, Upright(s), NEW n \in Nat, NEW m \in Nat,
         NEW r, r = PushN(PopN(PopN(s, 1), n), m), r.ok
  PROVE  Moves(s, r, n + 1, m)
<1> DEFINE p == PopN(s, 1)
           q == PopN(p, n)
<1>0. r = PushN(q, m)
  OBVIOUS
<1>1. /\ Upright(p) /\ p.ctrls = s.ctrls
      /\ p.ok /\ ~InnerCtrl(s).dead => 1 <= s.h - InnerCtrl(s).height /\ p.h = s.h - 1
  BY PopFacts
<1> HIDE DEF p
<1>2. InnerCtrl(p) = InnerCtrl(s)
  BY <1>1 DEF InnerCtrl
<1>3. /\ Upright(q) /\ q.ctrls = p.ctrls
      /\ q.ok => p.ok
      /\ q.ok /\ ~InnerCtrl(p).dead => n <= p.h - InnerCtrl(p).height /\ q.h = p.h - n
  BY <1>1, PopFacts
<1> HIDE DEF q
<1>4. Upright(r) /\ r.ctrls = q.ctrls /\ r.ok = q.ok /\ r.h = q.h + m
  <2>1. Upright(q)
    BY <1>3
  <2>2. QED BY <1>0, <2>1, PushFacts
<1>5. s \in States /\ s.ctrls # << >>
  BY DEF Upright
<1>6. s.h \in Nat /\ InnerCtrl(s).height \in Nat
  BY <1>5, InnerFacts
<1>7. QED BY <1>1, <1>2, <1>3, <1>4, <1>6 DEF Moves

\* Nest adds the frame and its parameters.
LEMMA NestOpens ==
  ASSUME NEW s, Upright(s), NEW op \in {"block", "loop", "if"}, NEW n \in Nat,
         NEW p \in Nat, NEW q \in Nat, NEW r, r = Nest(PopN(s, n), op, p, q), r.ok
  PROVE  Opens(s, r, op, n, p, q)
<1> DEFINE t == PopN(s, n)
<1>1. /\ Upright(t) /\ t.ctrls = s.ctrls
      /\ t.ok /\ ~InnerCtrl(s).dead => n <= s.h - InnerCtrl(s).height /\ t.h = s.h - n
  BY PopFacts
<1> HIDE DEF t
<1>2. t \in States /\ t.h \in Nat /\ t.ok \in BOOLEAN /\ t.ctrls \in Seq(CtrlRecs)
      /\ InnerCtrl(t) = InnerCtrl(s) /\ InnerCtrl(t).height <= t.h
  BY <1>1 DEF Upright, States, InnerCtrl
<1> DEFINE c == Ctrl(op, t.h, p, q)
           cs == Append(t.ctrls, c)
           u == [t EXCEPT !.ctrls = cs]
<1>3. c \in CtrlRecs /\ c.height = t.h
  BY <1>2 DEF Ctrl, CtrlRecs
<1> HIDE DEF c
<1>4. cs \in Seq(CtrlRecs) /\ Len(cs) = Len(t.ctrls) + 1 /\ cs[Len(cs)] = c /\ cs # << >>
  BY <1>2, <1>3
<1> HIDE DEF cs
<1>5. u \in States /\ u.ctrls = cs /\ u.h = t.h /\ u.ok = t.ok
  BY <1>2, <1>4 DEF States
<1>6. r = PushN(u, p)
  BY DEF Nest, cs, c, t
<1> HIDE DEF u
<1>7. InnerCtrl(u) = c
  BY <1>4, <1>5 DEF InnerCtrl
<1>8. Upright(u)
  BY <1>2, <1>3, <1>4, <1>5, <1>7 DEF Upright
<1>9. Upright(r) /\ r.ctrls = cs /\ r.ok = t.ok /\ r.h = t.h + p
  <2>1. Upright(r) /\ r.ctrls = u.ctrls /\ r.ok = u.ok /\ r.h = u.h + p
    BY <1>6, <1>8, PushFacts
  <2>2. QED BY <1>5, <2>1
<1>10. InnerCtrl(r) = c
  BY <1>4, <1>9 DEF InnerCtrl
<1>11. r.ctrls = Append(s.ctrls, Ctrl(op, InnerCtrl(r).height, p, q))
  BY <1>1, <1>3, <1>9, <1>10 DEF c, cs
<1>12. QED BY <1>1, <1>2, <1>3, <1>9, <1>10, <1>11 DEF Opens

\* Die removes the operands of the block and marks it.
LEMMA DieDies ==
  ASSUME NEW t, Upright(t), NEW s, Upright(s), t.ctrls = s.ctrls, NEW n \in Nat,
         ~InnerCtrl(s).dead => n <= s.h - InnerCtrl(s).height,
         NEW r, r = Die(t)
  PROVE  Dies(s, r, n) /\ r.ok = t.ok
<1>1. t \in States /\ t.ctrls # << >> /\ t.ok \in BOOLEAN /\ t.ctrls \in Seq(CtrlRecs)
  BY DEF Upright, States
<1> DEFINE N == Len(t.ctrls)
           c == InnerCtrl(t)
           d == [c EXCEPT !.dead = TRUE]
           cs == [t.ctrls EXCEPT ![N] = d]
<1>2. N \in Nat \ {0} /\ c = t.ctrls[N] /\ c \in CtrlRecs /\ c.height \in Nat
      /\ N \in 1..N
  BY <1>1, InnerFacts
<1>3. d \in CtrlRecs /\ d.height = c.height
  BY <1>2 DEF CtrlRecs
<1>4. r = [t EXCEPT !.h = c.height, !.ctrls = cs]
  BY <1>2 DEF Die
<1> HIDE DEF d
<1>5. cs \in Seq(CtrlRecs) /\ Len(cs) = N /\ cs[N] = d /\ cs # << >>
      /\ \A j \in 1..(N - 1) : cs[j] = t.ctrls[j]
  BY <1>1, <1>2, <1>3
<1> HIDE DEF cs
<1>6. r \in States /\ r.ctrls = cs /\ r.h = c.height /\ r.ok = t.ok
  BY <1>1, <1>2, <1>4, <1>5 DEF States
<1>7. InnerCtrl(r) = d
  BY <1>5, <1>6 DEF InnerCtrl
<1>8. Upright(r)
  BY <1>2, <1>3, <1>5, <1>6, <1>7 DEF Upright
<1>9. c = InnerCtrl(s)
  BY DEF InnerCtrl
<1>10. QED BY <1>5, <1>6, <1>7, <1>8, <1>9 DEF Dies, Agree, d

\* The states before and after one instruction of a valid body.
Checks(s, r, i, sigs) ==
  /\ i.op \in DOMAIN Effect => Moves(s, r, Effect[i.op][1], Effect[i.op][2])
  /\ i.op \in BlockOps => Opens(s, r, i.op, i.params, i.params, i.results)
  /\ i.op = "if" => i.params = 0 /\ Opens(s, r, "if", 1, 0, i.results)
  /\ i.op = "else" => Turns(s, r)
  /\ i.op = "end" => Closes(s, r)
  /\ i.op = "br" => LabelOk(s, i.label) /\ Dies(s, r, Arity(s, i.label))
  /\ i.op = "br_if" => /\ LabelOk(s, i.label)
                       /\ Moves(s, r, Arity(s, i.label) + 1, Arity(s, i.label))
  /\ i.op = "br_table" =>
       /\ \A k \in DOMAIN i.labels : LabelOk(s, i.labels[k])
                                    /\ Arity(s, i.labels[k]) = Arity(s, i.labels[1])
       /\ Dies(s, r, Arity(s, i.labels[1]) + 1)
  /\ i.op = "return" => Dies(s, r, s.ctrls[1].results)
  /\ i.op = "unreachable" => Dies(s, r, 0)
  /\ i.op = "call" => /\ i.func \in DOMAIN sigs
                      /\ Moves(s, r, sigs[i.func].params, sigs[i.func].results)
  /\ i.op = "call_indirect" => Moves(s, r, i.params + 1, i.results)

AllOps == DOMAIN Effect \union BlockOps \union
          {"if", "else", "end", "br", "br_if", "br_table", "return", "unreachable",
           "call", "call_indirect"}

LEMMA EffectOps ==
  /\ DOMAIN Effect = {"nop", "const", "unary", "binary", "drop", "select", "store",
                      "local_get", "local_set", "local_tee"}
  /\ \A op \in DOMAIN Effect : Effect[op][1] \in Nat /\ Effect[op][2] \in Nat
<1>1. DOMAIN Effect = {"nop", "const", "unary", "binary", "drop", "select", "store",
                       "local_get", "local_set", "local_tee"}
  BY DEF Effect
<1>2. QED BY <1>1 DEF Effect

\* The cases of Check.
LEMMA CheckCases ==
  ASSUME NEW s, NEW i, NEW sigs, NEW r, r = Check(s, i, sigs)
  PROVE  /\ i.op \in DOMAIN Effect => r = PushN(PopN(s, Effect[i.op][1]), Effect[i.op][2])
         /\ i.op \in BlockOps => r = Nest(PopN(s, i.params), i.op, i.params, i.results)
         /\ i.op = "if" =>
              r = IF i.params = 0 THEN Nest(PopN(s, 1), "if", 0, i.results) ELSE Bad(s)
         /\ i.op = "return" => r = Die(PopN(s, s.ctrls[1].results))
         /\ i.op = "unreachable" => r = Die(s)
         /\ i.op = "br" =>
              r = IF LabelOk(s, i.label) THEN Die(PopN(s, Arity(s, i.label))) ELSE Bad(s)
         /\ i.op = "call_indirect" => r = PushN(PopN(PopN(s, 1), i.params), i.results)
         /\ i.op = "br_if" =>
              r = IF LabelOk(s, i.label)
                  THEN PushN(PopN(PopN(s, 1), Arity(s, i.label)), Arity(s, i.label))
                  ELSE Bad(s)
         /\ i.op = "br_table" =>
              r = IF /\ \A k \in DOMAIN i.labels : LabelOk(s, i.labels[k])
                     /\ \A k \in DOMAIN i.labels :
                          Arity(s, i.labels[k]) = Arity(s, i.labels[1])
                  THEN Die(PopN(PopN(s, 1), Arity(s, i.labels[1]))) ELSE Bad(s)
         /\ i.op = "call" =>
              r = IF i.func \in DOMAIN sigs
                  THEN PushN(PopN(s, sigs[i.func].params), sigs[i.func].results)
                  ELSE Bad(s)
         /\ i.op \notin AllOps => r = Bad(s)
<1>1. DOMAIN Effect = {"nop", "const", "unary", "binary", "drop", "select", "store",
                       "local_get", "local_set", "local_tee"}
  BY EffectOps
<1>2. BlockOps = {"block", "loop"}
  BY DEF BlockOps
<1>3. CASE i.op \in DOMAIN Effect
  <2>1. r = PushN(PopN(s, Effect[i.op][1]), Effect[i.op][2])
    BY <1>1, <1>2, <1>3 DEF Check
  <2>2. QED BY <1>1, <1>2, <1>3, <2>1 DEF AllOps
<1>4. CASE i.op \in BlockOps
  <2>1. r = Nest(PopN(s, i.params), i.op, i.params, i.results)
    BY <1>1, <1>2, <1>4 DEF Check
  <2>2. QED BY <1>1, <1>2, <1>4, <2>1 DEF AllOps
<1>5. CASE i.op \notin DOMAIN Effect \union BlockOps
  BY <1>1, <1>2, <1>5 DEF Check, AllOps
<1>6. QED BY <1>3, <1>4, <1>5

LEMMA BadFails == ASSUME NEW s \in States PROVE ~Bad(s).ok
BY DEF Bad, States

LEMMA ElseTurns ==
  ASSUME NEW s, Upright(s), NEW i, i.op = "else", NEW sigs,
         NEW r, r = Check(s, i, sigs), r.ok
  PROVE  Turns(s, r) /\ s.ok
<1> DEFINE c == InnerCtrl(s)
           N == Len(s.ctrls)
           q == PopN(s, c.results)
           e == Ctrl("else", c.height, c.params, c.results)
           cs == [q.ctrls EXCEPT ![N] = e]
<1>1. s \in States /\ s.ctrls # << >>
  BY DEF Upright
<1>2. /\ N \in Nat \ {0} /\ c = s.ctrls[N] /\ c \in CtrlRecs /\ c.height \in Nat
      /\ c.params \in Nat /\ c.results \in Nat /\ s.h \in Nat /\ N \in 1..N
  BY <1>1, InnerFacts
<1>3. /\ Upright(q) /\ q.ctrls = s.ctrls
      /\ q.ok => s.ok
      /\ q.ok /\ ~c.dead => c.results <= s.h - c.height /\ q.h = s.h - c.results
  BY <1>2, PopFacts
<1>4. r = IF c.op = "if" /\ q.h = c.height
          THEN [q EXCEPT !.h = c.height + c.params, !.ctrls = cs] ELSE Bad(s)
  BY EffectOps DEF Check, BlockOps
<1> HIDE DEF q
<1>5. /\ c.op = "if" /\ q.h = c.height
      /\ r = [q EXCEPT !.h = c.height + c.params, !.ctrls = cs]
  BY <1>1, <1>4, BadFails
<1>6. q \in States /\ q.ctrls \in Seq(CtrlRecs)
  BY <1>3 DEF Upright, States
<1>7. e \in CtrlRecs /\ e.height = c.height
  BY <1>2 DEF Ctrl, CtrlRecs
<1> HIDE DEF e, c
<1>8. cs \in Seq(CtrlRecs) /\ Len(cs) = N /\ cs[N] = e /\ cs # << >>
      /\ \A j \in 1..(N - 1) : cs[j] = s.ctrls[j]
  BY <1>2, <1>3, <1>6, <1>7
<1> HIDE DEF cs
<1> DEFINE h == c.height + c.params
<1>h. h \in Nat /\ r = [q EXCEPT !.h = h, !.ctrls = cs]
  BY <1>2, <1>5
<1> HIDE DEF h
<1>9. r \in States /\ r.ctrls = cs /\ r.h = h /\ r.ok = q.ok
  BY <1>h, <1>6, <1>8 DEF States
<1>10. InnerCtrl(r) = e
  BY <1>8, <1>9 DEF InnerCtrl
<1>11. Upright(r)
  BY <1>2, <1>7, <1>8, <1>9, <1>10 DEF Upright, h
<1>12. ~c.dead => s.h = c.height + c.results
  BY <1>2, <1>3, <1>5, <1>9
<1>13. QED BY <1>3, <1>5, <1>8, <1>9, <1>10, <1>11, <1>12 DEF Turns, Agree, c, e, h

LEMMA EndCloses ==
  ASSUME NEW s, Upright(s), NEW i, i.op = "end", NEW sigs,
         NEW r, r = Check(s, i, sigs), r.ok
  PROVE  Closes(s, r) /\ s.ok
<1> DEFINE c == InnerCtrl(s)
           N == Len(s.ctrls)
           q == PopN(s, c.results)
           cs == SubSeq(q.ctrls, 1, Len(q.ctrls) - 1)
<1>1. s \in States /\ s.ctrls # << >>
  BY DEF Upright
<1>2. /\ N \in Nat \ {0} /\ c = s.ctrls[N] /\ c \in CtrlRecs /\ c.height \in Nat
      /\ c.params \in Nat /\ c.results \in Nat /\ s.h \in Nat /\ N \in 1..N
  BY <1>1, InnerFacts
<1>3. /\ Upright(q) /\ q.ctrls = s.ctrls
      /\ q.ok => s.ok
      /\ q.ok /\ ~c.dead => c.results <= s.h - c.height /\ q.h = s.h - c.results
  BY <1>2, PopFacts
<1>4. r = IF q.h = c.height /\ (c.op = "if" => c.params = c.results)
          THEN [q EXCEPT !.h = c.height + c.results, !.ctrls = cs] ELSE Bad(s)
  BY EffectOps DEF Check, BlockOps
<1> HIDE DEF q
<1>5. /\ q.h = c.height /\ (c.op = "if" => c.params = c.results)
      /\ r = [q EXCEPT !.h = c.height + c.results, !.ctrls = cs]
  BY <1>1, <1>4, BadFails
<1>6. q \in States /\ q.ctrls \in Seq(CtrlRecs)
  BY <1>3 DEF Upright, States
<1> HIDE DEF c
<1>7. cs \in Seq(CtrlRecs) /\ cs = SubSeq(s.ctrls, 1, N - 1)
  BY <1>2, <1>3, <1>6
<1> HIDE DEF cs
<1> DEFINE h == c.height + c.results
<1>h. h \in Nat /\ r = [q EXCEPT !.h = h, !.ctrls = cs]
  BY <1>2, <1>5
<1> HIDE DEF h
<1>8. r \in States /\ r.ctrls = cs /\ r.h = h /\ r.ok = q.ok
  BY <1>h, <1>6, <1>7 DEF States
<1>9. ~c.dead => s.h = c.height + c.results
  BY <1>2, <1>3, <1>5, <1>8
<1>10. QED BY <1>3, <1>5, <1>7, <1>8, <1>9 DEF Closes, c, h

\* Two ways to die: with the operands of a label, or with an index below them.
LEMMA PopDie ==
  ASSUME NEW s, Upright(s), NEW n \in Nat, NEW r, r = Die(PopN(s, n)), r.ok
  PROVE  Dies(s, r, n) /\ s.ok
<1> DEFINE q == PopN(s, n)
<1>1. /\ Upright(q) /\ q.ctrls = s.ctrls
      /\ q.ok => s.ok
      /\ q.ok /\ ~InnerCtrl(s).dead => n <= s.h - InnerCtrl(s).height /\ q.h = s.h - n
  BY PopFacts
<1>2. r = Die(q)
  OBVIOUS
<1> HIDE DEF q
<1>3. r.ok = q.ok
  BY <1>1, <1>2 DEF Die, Upright, States
<1>4. QED BY <1>1, <1>2, <1>3, DieDies

LEMMA PopPopDie ==
  ASSUME NEW s, Upright(s), NEW n \in Nat, NEW r, r = Die(PopN(PopN(s, 1), n)), r.ok
  PROVE  Dies(s, r, n + 1) /\ s.ok
<1> DEFINE p == PopN(s, 1)
           q == PopN(p, n)
<1>0. r = Die(q)
  OBVIOUS
<1>1. /\ Upright(p) /\ p.ctrls = s.ctrls
      /\ p.ok => s.ok
      /\ p.ok /\ ~InnerCtrl(s).dead => 1 <= s.h - InnerCtrl(s).height /\ p.h = s.h - 1
  BY PopFacts
<1> HIDE DEF p
<1>2. InnerCtrl(p) = InnerCtrl(s)
  BY <1>1 DEF InnerCtrl
<1>3. /\ Upright(q) /\ q.ctrls = p.ctrls
      /\ q.ok => p.ok
      /\ q.ok /\ ~InnerCtrl(p).dead => n <= p.h - InnerCtrl(p).height /\ q.h = p.h - n
  BY <1>1, PopFacts
<1> HIDE DEF q
<1>4. s \in States /\ s.ctrls # << >>
  BY DEF Upright
<1>5. s.h \in Nat /\ InnerCtrl(s).height \in Nat
  BY <1>4, InnerFacts
<1>6. r.ok = q.ok
  BY <1>0, <1>3 DEF Die, Upright, States
<1>7. ~InnerCtrl(s).dead => n + 1 <= s.h - InnerCtrl(s).height
  BY <1>1, <1>2, <1>3, <1>5, <1>6
<1>8. q.ctrls = s.ctrls /\ n + 1 \in Nat
  BY <1>1, <1>3
<1>9. QED BY <1>0, <1>1, <1>3, <1>6, <1>7, <1>8, DieDies

SigsOK(sigs) == \A f \in DOMAIN sigs : sigs[f].params \in Nat /\ sigs[f].results \in Nat

LEMMA ArityNat ==
  ASSUME NEW s, Upright(s), NEW l \in Nat, LabelOk(s, l)
  PROVE  Arity(s, l) \in Nat
<1>1. s \in States /\ s.ctrls # << >>
  BY DEF Upright
<1>2. Len(s.ctrls) - l \in 1..Len(s.ctrls)
  BY <1>1, InnerFacts DEF LabelOk
<1>3. Target(s, l).params \in Nat /\ Target(s, l).results \in Nat
  BY <1>1, <1>2, InnerFacts DEF Target
<1>4. QED BY <1>3 DEF Arity

\* Every instruction of a valid body does what the relation of its kind says.
LEMMA CheckRight ==
  ASSUME NEW s, Upright(s), NEW i \in Instructions, NEW sigs, SigsOK(sigs),
         NEW r, r = Check(s, i, sigs), r.ok
  PROVE  Checks(s, r, i, sigs) /\ i.op \in AllOps
<1>0. s \in States /\ s.ctrls # << >>
  BY DEF Upright
<1>b. ~Bad(s).ok
  BY <1>0, BadFails
<1>1. i.op \in DOMAIN Effect => Moves(s, r, Effect[i.op][1], Effect[i.op][2])
  <2> SUFFICES ASSUME i.op \in DOMAIN Effect
               PROVE  Moves(s, r, Effect[i.op][1], Effect[i.op][2])
    OBVIOUS
  <2>1. r = PushN(PopN(s, Effect[i.op][1]), Effect[i.op][2])
    BY CheckCases
  <2>2. QED BY <2>1, EffectOps, PopPush
<1>2. i.op \in BlockOps => Opens(s, r, i.op, i.params, i.params, i.results)
  <2> SUFFICES ASSUME i.op \in BlockOps
               PROVE  Opens(s, r, i.op, i.params, i.params, i.results)
    OBVIOUS
  <2>1. r = Nest(PopN(s, i.params), i.op, i.params, i.results)
    BY CheckCases
  <2>2. i.params \in Nat /\ i.results \in Nat /\ i.op \in {"block", "loop", "if"}
    BY InstructionTypes DEF BlockOps
  <2>3. QED BY <2>1, <2>2, NestOpens
<1>3. i.op = "if" => i.params = 0 /\ Opens(s, r, "if", 1, 0, i.results)
  <2> SUFFICES ASSUME i.op = "if"
               PROVE  i.params = 0 /\ Opens(s, r, "if", 1, 0, i.results)
    OBVIOUS
  <2>1. r = IF i.params = 0 THEN Nest(PopN(s, 1), "if", 0, i.results) ELSE Bad(s)
    BY CheckCases
  <2>2. i.params = 0 /\ r = Nest(PopN(s, 1), "if", 0, i.results)
    BY <1>b, <2>1
  <2>3. i.results \in Nat
    BY InstructionTypes
  <2>4. QED BY <2>2, <2>3, NestOpens
<1>4. i.op = "else" => Turns(s, r)
  BY ElseTurns
<1>5. i.op = "end" => Closes(s, r)
  BY EndCloses
<1>6. i.op = "br" => LabelOk(s, i.label) /\ Dies(s, r, Arity(s, i.label))
  <2> SUFFICES ASSUME i.op = "br"
               PROVE  LabelOk(s, i.label) /\ Dies(s, r, Arity(s, i.label))
    OBVIOUS
  <2>1. r = IF LabelOk(s, i.label) THEN Die(PopN(s, Arity(s, i.label))) ELSE Bad(s)
    BY CheckCases
  <2>2. LabelOk(s, i.label) /\ r = Die(PopN(s, Arity(s, i.label)))
    BY <1>b, <2>1
  <2>3. Arity(s, i.label) \in Nat
    BY <2>2, InstructionTypes, ArityNat
  <2>4. QED BY <2>2, <2>3, PopDie
<1>7. i.op = "br_if" => /\ LabelOk(s, i.label)
                        /\ Moves(s, r, Arity(s, i.label) + 1, Arity(s, i.label))
  <2> SUFFICES ASSUME i.op = "br_if"
               PROVE  /\ LabelOk(s, i.label)
                      /\ Moves(s, r, Arity(s, i.label) + 1, Arity(s, i.label))
    OBVIOUS
  <2>1. r = IF LabelOk(s, i.label)
            THEN PushN(PopN(PopN(s, 1), Arity(s, i.label)), Arity(s, i.label))
            ELSE Bad(s)
    BY CheckCases
  <2>2. /\ LabelOk(s, i.label)
        /\ r = PushN(PopN(PopN(s, 1), Arity(s, i.label)), Arity(s, i.label))
    BY <1>b, <2>1
  <2>3. Arity(s, i.label) \in Nat
    BY <2>2, InstructionTypes, ArityNat
  <2>4. QED BY <2>2, <2>3, PopPopPush
<1>8. i.op = "br_table" =>
        /\ \A k \in DOMAIN i.labels : LabelOk(s, i.labels[k])
                                     /\ Arity(s, i.labels[k]) = Arity(s, i.labels[1])
        /\ Dies(s, r, Arity(s, i.labels[1]) + 1)
  <2> SUFFICES ASSUME i.op = "br_table"
               PROVE  /\ \A k \in DOMAIN i.labels :
                           /\ LabelOk(s, i.labels[k])
                           /\ Arity(s, i.labels[k]) = Arity(s, i.labels[1])
                      /\ Dies(s, r, Arity(s, i.labels[1]) + 1)
    OBVIOUS
  <2>1. r = IF /\ \A k \in DOMAIN i.labels : LabelOk(s, i.labels[k])
               /\ \A k \in DOMAIN i.labels :
                    Arity(s, i.labels[k]) = Arity(s, i.labels[1])
            THEN Die(PopN(PopN(s, 1), Arity(s, i.labels[1]))) ELSE Bad(s)
    BY CheckCases
  <2>2. /\ \A k \in DOMAIN i.labels : LabelOk(s, i.labels[k])
        /\ \A k \in DOMAIN i.labels : Arity(s, i.labels[k]) = Arity(s, i.labels[1])
        /\ r = Die(PopN(PopN(s, 1), Arity(s, i.labels[1])))
    BY <1>b, <2>1
  <2>3. i.labels \in Seq(Nat) /\ i.labels # << >>
    BY InstructionTypes
  <2>4. 1 \in DOMAIN i.labels /\ i.labels[1] \in Nat
    BY <2>3
  <2>5. Arity(s, i.labels[1]) \in Nat
    BY <2>2, <2>4, ArityNat
  <2>6. QED BY <2>2, <2>5, PopPopDie
<1>9. i.op = "return" => Dies(s, r, s.ctrls[1].results)
  <2> SUFFICES ASSUME i.op = "return" PROVE Dies(s, r, s.ctrls[1].results)
    OBVIOUS
  <2>1. r = Die(PopN(s, s.ctrls[1].results))
    BY CheckCases
  <2>2. s.ctrls[1].results \in Nat
    BY <1>0, InnerFacts
  <2>3. QED BY <2>1, <2>2, PopDie
<1>10. i.op = "unreachable" => Dies(s, r, 0)
  <2> SUFFICES ASSUME i.op = "unreachable" PROVE Dies(s, r, 0)
    OBVIOUS
  <2>1. r = Die(s)
    BY CheckCases
  <2>2. 0 <= s.h - InnerCtrl(s).height
    BY <1>0, InnerFacts DEF Upright
  <2>3. QED BY <2>1, <2>2, DieDies
<1>11. i.op = "call" => /\ i.func \in DOMAIN sigs
                        /\ Moves(s, r, sigs[i.func].params, sigs[i.func].results)
  <2> SUFFICES ASSUME i.op = "call"
               PROVE  /\ i.func \in DOMAIN sigs
                      /\ Moves(s, r, sigs[i.func].params, sigs[i.func].results)
    OBVIOUS
  <2>1. r = IF i.func \in DOMAIN sigs
            THEN PushN(PopN(s, sigs[i.func].params), sigs[i.func].results)
            ELSE Bad(s)
    BY CheckCases
  <2>2. i.func \in DOMAIN sigs
        /\ r = PushN(PopN(s, sigs[i.func].params), sigs[i.func].results)
    BY <1>b, <2>1
  <2>3. QED BY <2>2, PopPush DEF SigsOK
<1>12. i.op = "call_indirect" => Moves(s, r, i.params + 1, i.results)
  <2> SUFFICES ASSUME i.op = "call_indirect" PROVE Moves(s, r, i.params + 1, i.results)
    OBVIOUS
  <2>1. r = PushN(PopN(PopN(s, 1), i.params), i.results)
    BY CheckCases
  <2>2. i.params \in Nat /\ i.results \in Nat
    BY InstructionTypes
  <2>3. QED BY <2>1, <2>2, PopPopPush
<1>13. i.op \in AllOps
  BY <1>b, CheckCases
<1>14. QED
  BY <1>1, <1>2, <1>3, <1>4, <1>5, <1>6, <1>7, <1>8, <1>9, <1>10, <1>11, <1>12, <1>13
     DEF Checks

-----------------------------------------------------------------------------
(* The states of a valid body *)

\* Blocks start at ascending heights inside the function that was entered.
Formed(s, results) ==
  /\ s \in States /\ (s.ctrls # << >> => Upright(s))
  /\ \A i, j \in 1..Len(s.ctrls) : i <= j => s.ctrls[i].height <= s.ctrls[j].height
  /\ \A j \in 1..Len(s.ctrls) : s.ctrls[j].op = "func" <=> j = 1
  /\ \A j \in 1..Len(s.ctrls) : s.ctrls[j].op = "if" => s.ctrls[j].params = 0
  /\ s.ctrls # << >> => s.ctrls[1].height = 0 /\ s.ctrls[1].results = results

LEMMA EnteredFormed ==
  ASSUME NEW results \in Nat
  PROVE  /\ Formed(Entered(results), results) /\ Live(Entered(results))
         /\ Entered(results).h = 0 /\ Len(Entered(results).ctrls) = 1
<1> DEFINE c == Ctrl("func", 0, 0, results)
           cs == <<c>>
           s == Entered(results)
<1>1. c \in CtrlRecs /\ c.height = 0 /\ c.op = "func" /\ c.results = results /\ ~c.dead
  BY DEF Ctrl, CtrlRecs
<1> HIDE DEF c
<1>2. cs \in Seq(CtrlRecs) /\ Len(cs) = 1 /\ cs[1] = c /\ cs # << >>
  BY <1>1
<1>3. s = [ok |-> TRUE, h |-> 0, ctrls |-> cs]
  BY DEF Entered, c
<1> HIDE DEF cs
<1>4. s \in States /\ s.ctrls = cs /\ s.h = 0
  BY <1>2, <1>3 DEF States
<1>5. InnerCtrl(s) = c
  BY <1>2, <1>4 DEF InnerCtrl
<1> HIDE DEF s
<1>e. \A j \in 1..Len(s.ctrls) : j = 1 /\ s.ctrls[j] = c
  <2>1. Len(s.ctrls) = 1 /\ s.ctrls[1] = c
    BY <1>2, <1>4
  <2>2. QED BY <2>1
<1>f. Upright(s)
  BY <1>1, <1>2, <1>4, <1>5 DEF Upright
<1>6. Formed(s, results) /\ Live(s)
  <2>1. \A j \in 1..Len(s.ctrls) : s.ctrls[j].op = "func" <=> j = 1
    BY <1>1, <1>e
  <2>2. \A i, j \in 1..Len(s.ctrls) : i <= j => s.ctrls[i].height <= s.ctrls[j].height
    BY <1>1, <1>e
  <2>3. s.ctrls[1].height = 0 /\ s.ctrls[1].results = results
    BY <1>1, <1>2, <1>4
  <2>4. \A j \in 1..Len(s.ctrls) : s.ctrls[j].op # "if"
    BY <1>1, <1>e
  <2>5. QED BY <1>1, <1>4, <1>e, <1>f, <2>1, <2>2, <2>3, <2>4 DEF Formed, Live
<1>7. QED BY <1>2, <1>4, <1>6 DEF s

LEMMA MovesFormed ==
  ASSUME NEW results, NEW s, Formed(s, results), NEW r, r.ctrls = s.ctrls, Upright(r)
  PROVE  Formed(r, results)
BY DEF Formed, Upright

\* A block that replaces the innermost one at the same height.
LEMMA ReplacesFormed ==
  ASSUME NEW results, NEW s, Formed(s, results), NEW r, Upright(r), s.ctrls # << >>,
         Len(r.ctrls) = Len(s.ctrls), Agree(s, r, Len(s.ctrls) - 1),
         InnerCtrl(r).height = InnerCtrl(s).height,
         \/ /\ InnerCtrl(r).op = InnerCtrl(s).op /\ InnerCtrl(r).results = InnerCtrl(s).results
            /\ InnerCtrl(r).params = InnerCtrl(s).params
         \/ InnerCtrl(s).op # "func" /\ InnerCtrl(r).op = "else"
  PROVE  Formed(r, results)
<1> DEFINE N == Len(s.ctrls)
<1>1. s \in States /\ r \in States /\ r.ctrls # << >>
  BY DEF Formed, Upright
<1>2. /\ N \in Nat \ {0} /\ InnerCtrl(s) = s.ctrls[N] /\ InnerCtrl(r) = r.ctrls[N]
  BY <1>1, InnerFacts
<1> HIDE DEF N
<1>3. \A j \in 1..N : IF j = N THEN r.ctrls[j] = InnerCtrl(r) /\ s.ctrls[j] = InnerCtrl(s)
                      ELSE r.ctrls[j] = s.ctrls[j]
  BY <1>2 DEF Agree, N
<1>4. \A j \in 1..N : r.ctrls[j].height = s.ctrls[j].height
  BY <1>3
<1>5. /\ \A i, j \in 1..N : i <= j => s.ctrls[i].height <= s.ctrls[j].height
      /\ \A j \in 1..N : s.ctrls[j].op = "func" <=> j = 1
      /\ \A j \in 1..N : s.ctrls[j].op = "if" => s.ctrls[j].params = 0
      /\ s.ctrls[1].height = 0 /\ s.ctrls[1].results = results /\ 1 \in 1..N
  BY <1>2 DEF Formed, N
<1>6. \A i, j \in 1..N : i <= j => r.ctrls[i].height <= r.ctrls[j].height
  BY <1>4, <1>5
<1>7. \A j \in 1..N : r.ctrls[j].op = "func" <=> j = 1
  BY <1>3, <1>5
<1>8. r.ctrls[1].height = 0 /\ r.ctrls[1].results = results
  BY <1>3, <1>4, <1>5
<1>9. \A j \in 1..N : r.ctrls[j].op = "if" => r.ctrls[j].params = 0
  BY <1>3, <1>5
<1>10. QED BY <1>1, <1>6, <1>7, <1>8, <1>9 DEF Formed, N

LEMMA OpensFormed ==
  ASSUME NEW results, NEW s, Formed(s, results), s.ctrls # << >>,
         NEW r, NEW op \in {"block", "loop", "if"}, NEW n, NEW p, NEW q, Opens(s, r, op, n, p, q),
         op = "if" => p = 0
  PROVE  /\ Formed(r, results) /\ Len(r.ctrls) = Len(s.ctrls) + 1
         /\ Agree(s, r, Len(s.ctrls))
         /\ InnerCtrl(r) = Ctrl(op, InnerCtrl(r).height, p, q)
<1> DEFINE N == Len(s.ctrls)
           c == Ctrl(op, InnerCtrl(r).height, p, q)
<1>1. s \in States /\ r \in States /\ r.ctrls # << >> /\ Upright(r)
      /\ InnerCtrl(s).height <= InnerCtrl(r).height /\ r.ctrls = Append(s.ctrls, c)
  BY DEF Formed, Upright, Opens
<1>2. /\ N \in Nat \ {0} /\ InnerCtrl(s) = s.ctrls[N] /\ InnerCtrl(s).height \in Nat
      /\ InnerCtrl(r).height \in Nat /\ InnerCtrl(r) = r.ctrls[Len(r.ctrls)]
      /\ \A j \in 1..N : s.ctrls[j].height \in Nat
  BY <1>1, InnerFacts
<1>3. c.op = op /\ c.height = InnerCtrl(r).height /\ c.params = p
  BY DEF Ctrl
<1> HIDE DEF c
<1>4. s.ctrls \in Seq(CtrlRecs)
  BY <1>1 DEF States
<1>5. /\ Len(r.ctrls) = N + 1 /\ \A j \in 1..N : r.ctrls[j] = s.ctrls[j]
      /\ r.ctrls[N + 1] = c /\ InnerCtrl(r) = c
  BY <1>1, <1>2, <1>4
<1>6. /\ \A i, j \in 1..N : i <= j => s.ctrls[i].height <= s.ctrls[j].height
      /\ \A j \in 1..N : s.ctrls[j].op = "func" <=> j = 1
      /\ s.ctrls[1].height = 0 /\ s.ctrls[1].results = results /\ 1 \in 1..N
      /\ N \in 1..N
  BY <1>2 DEF Formed
<1> HIDE DEF N
<1>7. \A i \in 1..N : s.ctrls[i].height <= c.height
  <2> SUFFICES ASSUME NEW i \in 1..N PROVE s.ctrls[i].height <= c.height
    OBVIOUS
  <2>1. s.ctrls[i].height <= s.ctrls[N].height
    BY <1>6
  <2>2. s.ctrls[i].height \in Nat /\ s.ctrls[N].height \in Nat /\ c.height \in Nat
        /\ s.ctrls[N].height <= c.height
    BY <1>1, <1>2, <1>3, <1>6
  <2>3. QED BY <2>1, <2>2
<1>8. \A i, j \in 1..(N + 1) : i <= j => r.ctrls[i].height <= r.ctrls[j].height
  <2> SUFFICES ASSUME NEW i \in 1..(N + 1), NEW j \in 1..(N + 1), i <= j
               PROVE  r.ctrls[i].height <= r.ctrls[j].height
    OBVIOUS
  <2>1. CASE j \in 1..N
    <3>1. i \in 1..N
      BY <1>2, <2>1
    <3>2. QED BY <1>5, <1>6, <2>1, <3>1
  <2>2. CASE j = N + 1 /\ i \in 1..N
    BY <1>5, <1>7, <2>2
  <2>3. CASE j = N + 1 /\ i = N + 1
    BY <1>2, <1>3, <1>5, <2>3
  <2>4. QED BY <1>2, <2>1, <2>2, <2>3
<1>9. \A j \in 1..(N + 1) : r.ctrls[j].op = "func" <=> j = 1
  <2> SUFFICES ASSUME NEW j \in 1..(N + 1) PROVE r.ctrls[j].op = "func" <=> j = 1
    OBVIOUS
  <2>1. CASE j \in 1..N
    BY <1>5, <1>6, <2>1
  <2>2. CASE j = N + 1
    BY <1>2, <1>3, <1>5, <2>2
  <2>3. QED BY <1>2, <2>1, <2>2
<1>10. r.ctrls[1].height = 0 /\ r.ctrls[1].results = results
  BY <1>5, <1>6
<1>i. \A j \in 1..(N + 1) : r.ctrls[j].op = "if" => r.ctrls[j].params = 0
  <2>1. \A j \in 1..N : s.ctrls[j].op = "if" => s.ctrls[j].params = 0
    BY DEF Formed, N
  <2>2. \A j \in 1..(N + 1) : j \in 1..N \/ j = N + 1
    BY <1>2
  <2>3. QED BY <1>3, <1>5, <2>1, <2>2
<1>11. Formed(r, results)
  BY <1>1, <1>5, <1>8, <1>9, <1>10, <1>i DEF Formed
<1>12. QED BY <1>5, <1>11 DEF Agree, N, c

LEMMA ClosesFormed ==
  ASSUME NEW results, NEW s, Formed(s, results), s.ctrls # << >>, NEW r, Closes(s, r)
  PROVE  /\ Formed(r, results) /\ Len(r.ctrls) = Len(s.ctrls) - 1
         /\ Agree(s, r, Len(s.ctrls) - 1)
<1> DEFINE N == Len(s.ctrls)
           c == InnerCtrl(s)
<1>1. s \in States /\ r \in States /\ r.ctrls = SubSeq(s.ctrls, 1, N - 1)
      /\ r.h = c.height + c.results
  BY DEF Formed, Closes
<1>2. /\ N \in Nat \ {0} /\ c = s.ctrls[N] /\ c.height \in Nat /\ c.results \in Nat
      /\ \A j \in 1..N : s.ctrls[j].height \in Nat
  BY <1>1, InnerFacts
<1>3. s.ctrls \in Seq(CtrlRecs)
  BY <1>1 DEF States
<1>4. Len(r.ctrls) = N - 1 /\ \A j \in 1..(N - 1) : r.ctrls[j] = s.ctrls[j]
  BY <1>1, <1>2, <1>3
<1>5. /\ \A i, j \in 1..N : i <= j => s.ctrls[i].height <= s.ctrls[j].height
      /\ \A j \in 1..N : s.ctrls[j].op = "func" <=> j = 1
      /\ s.ctrls[1].height = 0 /\ s.ctrls[1].results = results /\ 1 \in 1..N
      /\ N \in 1..N
  BY <1>2 DEF Formed
<1> HIDE DEF N, c
<1>6. r.ctrls # << >> => Upright(r)
  <2> SUFFICES ASSUME r.ctrls # << >> PROVE Upright(r)
    OBVIOUS
  <2>1. Len(r.ctrls) \in Nat \ {0} /\ InnerCtrl(r) = r.ctrls[Len(r.ctrls)]
    BY <1>1, InnerFacts
  <2>2. N - 1 \in 1..N /\ InnerCtrl(r) = s.ctrls[N - 1]
    BY <1>2, <1>4, <2>1
  <2>3. s.ctrls[N - 1].height <= c.height /\ s.ctrls[N - 1].height \in Nat
    BY <1>2, <1>5, <2>2
  <2>4. InnerCtrl(r).height <= r.h
    <3>1. c.height <= c.height + c.results /\ s.ctrls[N - 1].height <= c.height + c.results
      BY <1>2, <2>3
    <3>2. QED BY <1>1, <2>2, <3>1
  <2>5. QED BY <1>1, <2>4 DEF Upright
<1>7. \A j \in 1..(N - 1) : j \in 1..N
  BY <1>2
<1>8. \A i, j \in 1..(N - 1) : i <= j => r.ctrls[i].height <= r.ctrls[j].height
  BY <1>4, <1>5, <1>7
<1>9. \A j \in 1..(N - 1) : r.ctrls[j].op = "func" <=> j = 1
  BY <1>4, <1>5, <1>7
<1>10. r.ctrls # << >> => r.ctrls[1].height = 0 /\ r.ctrls[1].results = results
  <2> SUFFICES ASSUME r.ctrls # << >>
               PROVE  r.ctrls[1].height = 0 /\ r.ctrls[1].results = results
    OBVIOUS
  <2>1. Len(r.ctrls) \in Nat \ {0}
    BY <1>1, InnerFacts
  <2>2. 1 \in 1..(N - 1)
    BY <1>2, <1>4, <2>1
  <2>3. QED BY <1>4, <1>5, <2>2
<1>11. \A j \in 1..(N - 1) : r.ctrls[j].op = "if" => r.ctrls[j].params = 0
  <2>1. \A j \in 1..N : s.ctrls[j].op = "if" => s.ctrls[j].params = 0
    BY DEF Formed, N
  <2>2. QED BY <1>4, <1>7, <2>1
<1>12. QED BY <1>1, <1>4, <1>6, <1>8, <1>9, <1>10, <1>11 DEF Formed, Agree, N

LEMMA DiesFormed ==
  ASSUME NEW results, NEW s, Formed(s, results), s.ctrls # << >>, NEW r, NEW n, Dies(s, r, n)
  PROVE  Formed(r, results)
<1>1. s \in States
  BY DEF Formed
<1>2. InnerCtrl(s) \in CtrlRecs
  BY <1>1, InnerFacts
<1>3. /\ InnerCtrl(r).height = InnerCtrl(s).height /\ InnerCtrl(r).op = InnerCtrl(s).op
      /\ InnerCtrl(r).results = InnerCtrl(s).results
      /\ InnerCtrl(r).params = InnerCtrl(s).params
  BY <1>2 DEF Dies, CtrlRecs
<1>4. QED BY <1>3, ReplacesFormed DEF Dies

LEMMA TurnsFormed ==
  ASSUME NEW results, NEW s, Formed(s, results), s.ctrls # << >>, NEW r, Turns(s, r)
  PROVE  Formed(r, results)
<1>1. /\ InnerCtrl(r).height = InnerCtrl(s).height /\ InnerCtrl(r).op = "else"
      /\ InnerCtrl(s).op # "func"
  BY DEF Turns, Ctrl
<1>2. QED BY <1>1, ReplacesFormed DEF Turns

LEMMA ChecksFormed ==
  ASSUME NEW results, NEW s, Formed(s, results), s.ctrls # << >>, NEW r, NEW i, NEW sigs,
         Checks(s, r, i, sigs), i.op \in AllOps
  PROVE  Formed(r, results)
<1>1. CASE \E n, m : Moves(s, r, n, m)
  BY <1>1, MovesFormed DEF Moves
<1>2. CASE \E n : Dies(s, r, n)
  BY <1>2, DiesFormed
<1>3. CASE i.op \in BlockOps \union {"if"}
  <2>1. i.op \in {"block", "loop", "if"}
    BY <1>3 DEF BlockOps
  <2>2. \E n, p, q : Opens(s, r, i.op, n, p, q) /\ (i.op = "if" => p = 0)
    BY <1>3 DEF Checks, BlockOps
  <2>3. QED BY <2>1, <2>2, OpensFormed
<1>4. CASE Turns(s, r)
  BY <1>4, TurnsFormed
<1>5. CASE Closes(s, r)
  BY <1>5, ClosesFormed
<1>6. \/ i.op \in DOMAIN Effect \/ i.op \in BlockOps \union {"if"} \/ i.op = "else"
      \/ i.op = "end" \/ i.op = "br" \/ i.op = "br_if" \/ i.op = "br_table"
      \/ i.op = "return" \/ i.op = "unreachable" \/ i.op = "call" \/ i.op = "call_indirect"
  BY DEF AllOps
<1>7. QED BY <1>1, <1>2, <1>3, <1>4, <1>5, <1>6 DEF Checks

\* The checker behind an instruction, unless the body was closed before it.
CheckNext(s, i, sigs) == IF s.ctrls = << >> THEN Bad(s) ELSE Check(s, i, sigs)

TypingTable(code, results, sigs, state) ==
  state = [n \in 0..Len(code) |->
             IF n = 0 THEN Entered(results) ELSE CheckNext(state[n - 1], code[n], sigs)]

LEMMA TypingTableExists ==
  ASSUME NEW code, Len(code) \in Nat, NEW results, NEW sigs
  PROVE  \E state : TypingTable(code, results, sigs, state)
<1> DEFINE n == Len(code)
           Upto(m, state) == state = [k \in 0..m |->
             IF k = 0 THEN Entered(results) ELSE CheckNext(state[k - 1], code[k], sigs)]
           Has(m) == \E state : Upto(m, state)
           Built == {m \in 0..n : Has(m)}
<1>1. Has(0)
  <2> DEFINE state == [k \in 0..0 |-> Entered(results)]
  <2>1. Upto(0, state) OBVIOUS
  <2>2. QED BY <2>1
<1>2. ASSUME NEW m \in 1..n, Has(m - 1) PROVE Has(m)
  <2>1. PICK s : Upto(m - 1, s)
    BY <1>2
  <2> DEFINE state == [k \in 0..m |->
               IF k = m THEN CheckNext(s[m - 1], code[m], sigs) ELSE s[k]]
  <2>2. \A k \in 0..(m - 1) :
          s[k] = IF k = 0 THEN Entered(results) ELSE CheckNext(s[k - 1], code[k], sigs)
    BY <2>1
  <2>3. \A k \in 0..m :
          state[k] = IF k = 0 THEN Entered(results) ELSE CheckNext(state[k - 1], code[k], sigs)
    BY <2>2
  <2>4. state = [k \in 0..m |-> state[k]]
    OBVIOUS
  <2> HIDE DEF state
  <2>5. Upto(m, state)
    BY <2>3, <2>4
  <2>6. QED BY <2>5
<1> HIDE DEF Has
<1>3. \A m \in 0..n : m \in Built
  <2>1. 0 \in Built /\ \A m \in 1..n : m - 1 \in Built => m \in Built
    BY <1>1, <1>2
  <2> HIDE DEF Built
  <2>2. QED BY <2>1, Reached
<1>4. QED BY <1>3 DEF Has, TypingTable

LEMMA TypingSteps ==
  ASSUME NEW f, Len(functions[f].code) \in Nat
  PROVE  /\ Typing(f)[0] = Entered(functions[f].results)
         /\ \A n \in 1..Len(functions[f].code) :
              Typing(f)[n] = CheckNext(Typing(f)[n - 1], functions[f].code[n], Signatures)
<1> DEFINE code == functions[f].code
           results == functions[f].results
           sigs == Signatures
           T == CHOOSE state : TypingTable(code, results, sigs, state)
<1>1. TypingTable(code, results, sigs, T)
  BY TypingTableExists
<1>2. Typing(f) = T
  BY DEF Typing, TypingOf, TypingTable, CheckNext
<1> HIDE DEF T, code, results, sigs
<1>3. /\ T[0] = Entered(results)
      /\ \A n \in 1..Len(code) : T[n] = CheckNext(T[n - 1], code[n], sigs)
  <2>1. Len(code) \in Nat
    BY DEF code
  <2>2. \A n \in 0..Len(code) :
          T[n] = IF n = 0 THEN Entered(results) ELSE CheckNext(T[n - 1], code[n], sigs)
    BY <1>1 DEF TypingTable
  <2>3. QED BY <2>1, <2>2
<1>4. QED BY <1>2, <1>3 DEF code, results, sigs

\* What is known of a valid body between its instructions.
Body(f) ==
  LET N == Len(functions[f].code)
      T == Typing(f)
  IN /\ N \in Nat /\ T[0] = Entered(functions[f].results)
     /\ \A n \in 0..N : Formed(T[n], functions[f].results)
     /\ \A n \in 0..N : T[n].ctrls = << >> <=> n = N
     /\ \A n \in 0..N : n < N =>
          /\ Checks(T[n], T[n + 1], functions[f].code[n + 1], Signatures)
          /\ functions[f].code[n + 1].op \in AllOps

LEMMA SignaturesOK == ASSUME ValidatorTypeOK PROVE SigsOK(Signatures)
<1>1. \A f \in DOMAIN functions : functions[f].params \in Nat /\ functions[f].results \in Nat
  <2>1. \A f \in DOMAIN functions : functions[f] \in Functions
    BY FunctionFields
  <2>2. QED BY <2>1 DEF Functions
<1>2. QED BY <1>1 DEF SigsOK, Signatures

LEMMA ValidBody ==
  ASSUME ValidatorTypeOK, NEW f \in DOMAIN functions, WellTyped(f)
  PROVE  Body(f)
<1> DEFINE code == functions[f].code
           results == functions[f].results
           N == Len(code)
           T == Typing(f)
<1>1. N \in Nat /\ code \in Seq(Instructions) /\ results \in Nat
  BY FunctionFields DEF Functions
<1>2. /\ T[0] = Entered(results)
      /\ \A n \in 1..N : T[n] = CheckNext(T[n - 1], code[n], Signatures)
  BY <1>1, TypingSteps
<1>3. (\A k \in 0..N : T[k].ok) /\ (\A k \in 0..N : T[k].ctrls = << >> <=> k = N)
  BY DEF WellTyped
<1>4. \A n \in 1..N : code[n] \in Instructions
  BY <1>1
<1> HIDE DEF T, N, code, results
<1>5. ASSUME NEW n \in 1..N, Formed(T[n - 1], results)
      PROVE  /\ Checks(T[n - 1], T[n], code[n], Signatures) /\ code[n].op \in AllOps
             /\ Formed(T[n], results)
  <2>1. T[n - 1].ctrls # << >> /\ T[n].ok /\ T[n] = Check(T[n - 1], code[n], Signatures)
    BY <1>1, <1>2, <1>3 DEF CheckNext
  <2>2. Upright(T[n - 1]) /\ code[n] \in Instructions
    BY <1>4, <1>5, <2>1 DEF Formed
  <2>3. Checks(T[n - 1], T[n], code[n], Signatures) /\ code[n].op \in AllOps
    BY <2>1, <2>2, SignaturesOK, CheckRight
  <2>4. QED BY <1>5, <2>1, <2>3, ChecksFormed
<1>6. \A n \in 0..N : Formed(T[n], results)
  <2> DEFINE Ones == {n \in 0..N : Formed(T[n], results)}
  <2>1. 0 \in Ones
    BY <1>1, <1>2, EnteredFormed
  <2>2. \A n \in 1..N : n - 1 \in Ones => n \in Ones
    BY <1>5
  <2> HIDE DEF Ones
  <2>3. \A n \in 0..N : n \in Ones
    BY <1>1, <2>1, <2>2, Reached
  <2>4. QED BY <2>3 DEF Ones
<1>7. ASSUME NEW n \in 0..N, n < N
      PROVE  Checks(T[n], T[n + 1], code[n + 1], Signatures) /\ code[n + 1].op \in AllOps
  <2>1. n + 1 \in 1..N /\ (n + 1) - 1 = n
    BY <1>1, <1>7
  <2>2. Formed(T[(n + 1) - 1], results)
    BY <1>6, <2>1
  <2>3. /\ Checks(T[(n + 1) - 1], T[n + 1], code[n + 1], Signatures)
        /\ code[n + 1].op \in AllOps
    BY <1>5, <2>1, <2>2
  <2>4. QED BY <2>1, <2>3
<1>8. QED BY <1>1, <1>2, <1>3, <1>6, <1>7 DEF Body, T, N, code, results

-----------------------------------------------------------------------------
(* What the second pass knows of a valid body *)

LiveBelow(s, j) == \A i \in 1..(j - 1) : ~s.ctrls[i].dead

\* The labels are the open blocks; where code is live the heights agree.
HeadFits(s, labels, d) ==
  /\ Len(labels) = Len(s.ctrls)
  /\ \A j \in 1..Len(s.ctrls) :
       /\ labels[j].results = s.ctrls[j].results
       /\ LiveBelow(s, j) => labels[j].entry = s.ctrls[j].height
  /\ Live(s) => d = s.h

LEMMA MovesHead ==
  ASSUME NEW s, Upright(s), NEW r, NEW n \in Nat, NEW m \in Nat, Moves(s, r, n, m),
         NEW labels, NEW d, HeadFits(s, labels, d), NEW e,
         d \in Nat /\ d >= n => e = d - n + m
  PROVE  HeadFits(r, labels, e)
<1>1. r.ctrls = s.ctrls
  BY DEF Moves
<1>2. Live(r) => e = r.h
  <2> SUFFICES ASSUME Live(r) PROVE e = r.h
    OBVIOUS
  <2>1. Live(s)
    BY <1>1 DEF Live
  <2>2. s \in States /\ s.ctrls # << >>
    BY DEF Upright
  <2>3. ~InnerCtrl(s).dead /\ InnerCtrl(s).height \in Nat /\ s.h \in Nat
    BY <2>1, <2>2, InnerFacts
  <2>4. n <= s.h - InnerCtrl(s).height /\ r.h = s.h - n + m /\ d = s.h
    BY <2>1, <2>3 DEF Moves, HeadFits
  <2>5. QED BY <2>3, <2>4
<1>3. QED BY <1>1, <1>2 DEF HeadFits, LiveBelow

\* The n outermost blocks are the same, and so is what is known of them.
LEMMA SameBelow ==
  ASSUME NEW s, NEW r, NEW n \in Nat, Agree(s, r, n), NEW j \in 1..(n + 1)
  PROVE  LiveBelow(r, j) <=> LiveBelow(s, j)
BY DEF LiveBelow, Agree

LEMMA OpensHead ==
  ASSUME NEW results, NEW s, Formed(s, results), s.ctrls # << >>, NEW r,
         NEW op \in {"block", "loop", "if"}, NEW n, NEW p, NEW q,
         n \in Nat, p \in Nat, q \in Nat,
         op = "if" => p = 0, Opens(s, r, op, n, p, q),
         NEW labels \in Seq(ValLabels), NEW d, HeadFits(s, labels, d),
         NEW l \in ValLabels, NEW e, l.results = q,
         d \in Nat /\ d >= n => l.entry = d - n /\ e = d - n + p
  PROVE  HeadFits(r, Append(labels, l), e)
<1> DEFINE N == Len(s.ctrls)
           ls == Append(labels, l)
<1>1. /\ Formed(r, results) /\ Len(r.ctrls) = N + 1 /\ Agree(s, r, N)
      /\ InnerCtrl(r) = Ctrl(op, InnerCtrl(r).height, p, q)
  BY OpensFormed
<1>2. s \in States /\ r \in States /\ r.ctrls # << >> /\ Upright(s)
  BY DEF Formed, Upright, Opens
<1>3. /\ N \in Nat \ {0} /\ s.h \in Nat /\ InnerCtrl(s).height \in Nat
      /\ Live(s) => ~InnerCtrl(s).dead
  BY <1>2, InnerFacts
<1>4. InnerCtrl(r) = r.ctrls[N + 1] /\ InnerCtrl(r).results = q /\ InnerCtrl(r).height \in Nat
      /\ r.h = InnerCtrl(r).height + p
  <2>1. InnerCtrl(r) = r.ctrls[N + 1] /\ InnerCtrl(r).height \in Nat
    BY <1>1, <1>2, InnerFacts
  <2>2. InnerCtrl(r).results = q
    BY <1>1 DEF Ctrl
  <2>3. QED BY <2>1, <2>2 DEF Opens
<1>5. Len(labels) = N
  BY DEF HeadFits
<1>6. Len(ls) = N + 1 /\ ls[N + 1] = l /\ \A j \in 1..N : ls[j] = labels[j]
  BY <1>3, <1>5
<1>7. Live(s) => l.entry = InnerCtrl(r).height /\ e = r.h
  <2> SUFFICES ASSUME Live(s) PROVE l.entry = InnerCtrl(r).height /\ e = r.h
    OBVIOUS
  <2>1. d = s.h /\ n <= s.h - InnerCtrl(s).height /\ InnerCtrl(r).height = s.h - n
    BY <1>3 DEF HeadFits, Opens
  <2>2. QED BY <1>3, <1>4, <2>1
<1>8. LiveBelow(r, N + 1) => Live(s)
  <2>1. \A j \in 1..N : r.ctrls[j] = s.ctrls[j]
    BY <1>1 DEF Agree
  <2> SUFFICES ASSUME LiveBelow(r, N + 1), NEW j \in 1..N PROVE ~s.ctrls[j].dead
    BY DEF Live
  <2>2. j \in 1..(N + 1 - 1)
    BY <1>3
  <2>3. ~r.ctrls[j].dead
    BY <2>2 DEF LiveBelow
  <2>4. QED BY <2>1, <2>3
<1>9. Live(r) => Live(s)
  <2>1. \A j \in 1..N : j \in 1..(N + 1) /\ r.ctrls[j] = s.ctrls[j]
    BY <1>1, <1>3 DEF Agree
  <2>2. QED BY <1>1, <2>1 DEF Live
<1> HIDE DEF ls
<1>10. ASSUME NEW j \in 1..(N + 1)
       PROVE  /\ ls[j].results = r.ctrls[j].results
              /\ LiveBelow(r, j) => ls[j].entry = r.ctrls[j].height
  <2>1. CASE j = N + 1
    BY <1>4, <1>6, <1>7, <1>8, <2>1
  <2>2. CASE j # N + 1
    <3>1. j \in 1..N
      BY <1>3, <2>2
    <3>2. LiveBelow(r, j) <=> LiveBelow(s, j)
      BY <1>1, <1>3, <1>10, SameBelow
    <3>3. r.ctrls[j] = s.ctrls[j] /\ ls[j] = labels[j]
      BY <1>1, <1>6, <3>1 DEF Agree
    <3>4. QED BY <3>1, <3>2, <3>3 DEF HeadFits, N
  <2>3. QED BY <2>1, <2>2
<1>11. QED BY <1>1, <1>6, <1>7, <1>9, <1>10 DEF HeadFits, ls

\* The innermost block changes but not where it starts.
LEMMA ReplacesHead ==
  ASSUME NEW s, NEW r, s \in States, s.ctrls # << >>, Len(r.ctrls) = Len(s.ctrls),
         Agree(s, r, Len(s.ctrls) - 1), r.ctrls # << >>, r \in States,
         InnerCtrl(r).height = InnerCtrl(s).height,
         InnerCtrl(r).results = InnerCtrl(s).results,
         NEW labels, NEW d, HeadFits(s, labels, d), NEW e, Live(r) => e = r.h
  PROVE  HeadFits(r, labels, e)
<1> DEFINE N == Len(s.ctrls)
<1>1. /\ N \in Nat \ {0} /\ InnerCtrl(s) = s.ctrls[N] /\ InnerCtrl(r) = r.ctrls[N]
  BY InnerFacts
<1>2. ASSUME NEW j \in 1..N
      PROVE  /\ labels[j].results = r.ctrls[j].results
             /\ LiveBelow(r, j) => labels[j].entry = r.ctrls[j].height
  <2>1. r.ctrls[j].results = s.ctrls[j].results /\ r.ctrls[j].height = s.ctrls[j].height
    <3>1. CASE j = N
      BY <1>1, <3>1
    <3>2. CASE j # N
      <4>1. j \in 1..(N - 1)
        BY <1>1, <3>2
      <4>2. QED BY <4>1 DEF Agree
    <3>3. QED BY <3>1, <3>2
  <2>2. LiveBelow(r, j) <=> LiveBelow(s, j)
    <3>1. j \in 1..(N - 1 + 1) /\ N - 1 \in Nat
      BY <1>1
    <3>2. QED BY <3>1, SameBelow
  <2>3. QED BY <2>1, <2>2 DEF HeadFits
<1>3. QED BY <1>2 DEF HeadFits

LEMMA DiesHead ==
  ASSUME NEW s, Upright(s), NEW r, NEW n, Dies(s, r, n),
         NEW labels, NEW d, HeadFits(s, labels, d), NEW e
  PROVE  HeadFits(r, labels, e)
<1>1. s \in States /\ s.ctrls # << >> /\ r \in States /\ r.ctrls # << >>
  BY DEF Upright, Dies
<1>2. InnerCtrl(s) \in CtrlRecs
  BY <1>1, InnerFacts
<1>3. /\ InnerCtrl(r).height = InnerCtrl(s).height /\ InnerCtrl(r).dead
      /\ InnerCtrl(r).results = InnerCtrl(s).results
  BY <1>2 DEF Dies, CtrlRecs
<1>4. ~Live(r)
  BY <1>1, <1>3, InnerFacts
<1>5. QED BY <1>1, <1>3, <1>4, ReplacesHead DEF Dies

\* What is open below the innermost block is live when what follows it is.
LEMMA LiveOutside ==
  ASSUME NEW s \in States, s.ctrls # << >>, NEW r,
         Len(r.ctrls) >= Len(s.ctrls) - 1, Len(r.ctrls) \in Nat,
         Agree(s, r, Len(s.ctrls) - 1), Live(r)
  PROVE  LiveBelow(s, Len(s.ctrls))
<1>1. Len(s.ctrls) \in Nat \ {0}
  BY InnerFacts
<1>2. QED BY <1>1 DEF LiveBelow, Agree, Live

LEMMA TurnsHead ==
  ASSUME NEW results, NEW s, Formed(s, results), s.ctrls # << >>, NEW r, Turns(s, r),
         NEW labels, NEW d, HeadFits(s, labels, d)
  PROVE  HeadFits(r, labels, labels[Len(labels)].entry)
<1>1. s \in States /\ r \in States /\ r.ctrls # << >>
  BY DEF Formed, Turns, Upright
<1>2. /\ Len(s.ctrls) \in Nat \ {0} /\ InnerCtrl(s) = s.ctrls[Len(s.ctrls)]
      /\ InnerCtrl(s).height \in Nat /\ Len(s.ctrls) \in 1..Len(s.ctrls)
  BY <1>1, InnerFacts
<1>3. Live(r) => labels[Len(labels)].entry = r.h
  <2> SUFFICES ASSUME Live(r) PROVE labels[Len(labels)].entry = r.h
    OBVIOUS
  <2>1. LiveBelow(s, Len(s.ctrls))
    BY <1>1, <1>2, LiveOutside DEF Turns
  <2>2. labels[Len(labels)].entry = InnerCtrl(s).height
    BY <1>2, <2>1 DEF HeadFits
  <2>3. InnerCtrl(s).params = 0
    BY <1>2 DEF Formed, Turns
  <2>4. QED BY <1>2, <2>2, <2>3 DEF Turns
<1>4. /\ InnerCtrl(r).height = InnerCtrl(s).height
      /\ InnerCtrl(r).results = InnerCtrl(s).results
  BY DEF Turns, Ctrl
<1>5. QED BY <1>1, <1>3, <1>4, ReplacesHead DEF Turns

LEMMA ClosesHead ==
  ASSUME NEW results, NEW s, Formed(s, results), s.ctrls # << >>, NEW r, Closes(s, r),
         NEW labels \in Seq(ValLabels), NEW d, HeadFits(s, labels, d), NEW l,
         l = labels[Len(labels)]
  PROVE  HeadFits(r, SubSeq(labels, 1, Len(labels) - 1), l.entry + l.results)
<1> DEFINE N == Len(s.ctrls)
           ls == SubSeq(labels, 1, Len(labels) - 1)
<1>1. Formed(r, results) /\ Len(r.ctrls) = N - 1 /\ Agree(s, r, N - 1)
  BY ClosesFormed
<1>2. s \in States /\ r \in States
  BY DEF Formed, Closes
<1>3. N \in Nat \ {0} /\ InnerCtrl(s) = s.ctrls[N] /\ N \in 1..N
  BY <1>2, InnerFacts
<1>4. Len(labels) = N
  BY DEF HeadFits
<1>5. Len(ls) = N - 1 /\ \A j \in 1..(N - 1) : ls[j] = labels[j]
  BY <1>3, <1>4
<1> HIDE DEF ls
<1>6. Live(r) => l.entry + l.results = r.h
  <2> SUFFICES ASSUME Live(r) PROVE l.entry + l.results = r.h
    OBVIOUS
  <2>1. LiveBelow(s, N)
    BY <1>1, <1>2, <1>3, LiveOutside
  <2>2. l.entry = InnerCtrl(s).height /\ l.results = InnerCtrl(s).results
    BY <1>3, <1>4, <2>1 DEF HeadFits
  <2>3. QED BY <2>2 DEF Closes
<1>7. ASSUME NEW j \in 1..(N - 1)
      PROVE  /\ ls[j].results = r.ctrls[j].results
             /\ LiveBelow(r, j) => ls[j].entry = r.ctrls[j].height
  <2>1. j \in 1..N /\ j \in 1..(N - 1 + 1) /\ N - 1 \in Nat
    BY <1>3
  <2>2. LiveBelow(r, j) <=> LiveBelow(s, j)
    BY <1>1, <2>1, SameBelow
  <2>3. r.ctrls[j] = s.ctrls[j] /\ ls[j] = labels[j]
    BY <1>1, <1>5 DEF Agree
  <2>4. QED BY <2>1, <2>2, <2>3 DEF HeadFits, N
<1>8. QED BY <1>1, <1>5, <1>6, <1>7 DEF HeadFits, ls

-----------------------------------------------------------------------------
(* What the second pass has written of a valid body *)

\* A jump entry says how the body goes on: behind the block with its results,
\* or in the else-branch.
EntryFits(T, N, e) ==
  LET s == T[e.body]
      c == InnerCtrl(s)
      n == Len(s.ctrls)
  IN /\ e.body \in 1..N /\ s \in States /\ s.ctrls # << >> /\ c.op \in {"block", "if"}
     /\ e.end # 0 =>
          /\ e.end \in 1..N /\ Len(T[e.end].ctrls) = n - 1 /\ Agree(s, T[e.end], n - 1)
          /\ T[e.end].h = c.height + c.results
          /\ c.op = "if" /\ e.else = 0 => c.results = 0
     /\ e.else # 0 =>
          /\ e.else \in 1..N /\ Len(T[e.else].ctrls) = n /\ Agree(s, T[e.else], n - 1)
          /\ InnerCtrl(T[e.else]) = Ctrl("else", c.height, c.params, c.results)
          /\ T[e.else].h = c.height

\* Every block and if of the first n instructions has an entry.
Covered(code, n, jumps) ==
  \A q \in 1..n : code[q].op \in {"block", "if"} =>
    \E j \in 1..Len(jumps) : jumps[j].body = q

\* The entry e is not complete: it belongs to the block k, which is open.
Open(T, n, k, e) ==
  LET s == T[e.body]
      c == InnerCtrl(s)
      now == T[n].ctrls[k]
  IN /\ e.end = 0 /\ Len(s.ctrls) = k /\ Agree(T[n], s, k - 1)
     /\ now.height = c.height /\ now.params = c.params /\ now.results = c.results
     /\ now.op = IF e.else = 0 THEN c.op ELSE "else"

\* Up to n nothing closed the block of e, and an else in it is the one of e.
Spans(T, code, e, n) ==
  LET k == Len(T[e.body].ctrls)
  IN /\ e.body <= n
     /\ \A m \in e.body..n : Len(T[m].ctrls) >= k
     /\ \A m \in e.body..n : code[m].op = "else" /\ Len(T[m].ctrls) = k => m = e.else
     /\ e.else # 0 => e.else \in e.body..n /\ code[e.else].op = "else"

TableSpans(T, code, n, jumps) ==
  \A j \in 1..Len(jumps) :
    Spans(T, code, jumps[j], IF jumps[j].end = 0 THEN n ELSE jumps[j].end - 1)

TableFits(T, N, code, n, labels, jumps) ==
  /\ Len(labels) = Len(T[n].ctrls)
  /\ \A j \in 1..Len(jumps) : EntryFits(T, N, jumps[j])
  /\ Covered(code, n, jumps)
  /\ \A k \in 1..Len(labels) : labels[k].jump # 0 =>
       labels[k].jump \in 1..Len(jumps) /\ Open(T, n, k, jumps[labels[k].jump])
  /\ \A j \in 1..Len(jumps) : jumps[j].end = 0 =>
       \E k \in 1..Len(labels) : labels[k].jump = j
  /\ TableSpans(T, code, n, jumps)

LEMMA SpansNext ==
  ASSUME NEW T, NEW code, NEW e, NEW n \in Nat, Spans(T, code, e, n),
         e.body \in Nat, e.body > 0,
         Len(T[n + 1].ctrls) >= Len(T[e.body].ctrls),
         code[n + 1].op = "else" => Len(T[n + 1].ctrls) # Len(T[e.body].ctrls)
  PROVE  Spans(T, code, e, n + 1)
<1> DEFINE k == Len(T[e.body].ctrls)
<1>1. /\ e.body <= n /\ \A m \in e.body..n : Len(T[m].ctrls) >= k
      /\ \A m \in e.body..n : code[m].op = "else" /\ Len(T[m].ctrls) = k => m = e.else
      /\ e.else # 0 => e.else \in e.body..n /\ code[e.else].op = "else"
  BY DEF Spans
<1>2. Len(T[n + 1].ctrls) >= k /\ (code[n + 1].op = "else" => Len(T[n + 1].ctrls) # k)
  OBVIOUS
<1> HIDE DEF k
<1>3. \A m \in e.body..(n + 1) : m \in e.body..n \/ m = n + 1
  OBVIOUS
<1>4. \A m \in e.body..(n + 1) : Len(T[m].ctrls) >= k
  BY <1>1, <1>2, <1>3
<1>5. \A m \in e.body..(n + 1) : code[m].op = "else" /\ Len(T[m].ctrls) = k => m = e.else
  BY <1>1, <1>2, <1>3
<1>6. \A m \in e.body..n : m \in e.body..(n + 1)
  OBVIOUS
<1>7. QED BY <1>1, <1>4, <1>5, <1>6 DEF Spans, k

\* Where the body of an incomplete entry is.
LEMMA OpenBody ==
  ASSUME NEW T, NEW N, NEW code, NEW n, NEW labels, NEW jumps,
         TableFits(T, N, code, n, labels, jumps),
         NEW j \in 1..Len(jumps), jumps[j].end = 0
  PROVE  /\ jumps[j].body \in Nat /\ jumps[j].body > 0
         /\ Spans(T, code, jumps[j], n)
         /\ \E k \in 1..Len(labels) : labels[k].jump = j /\ Len(T[jumps[j].body].ctrls) = k
<1>1. EntryFits(T, N, jumps[j]) /\ Spans(T, code, jumps[j], n)
  BY DEF TableFits, TableSpans
<1>2. jumps[j].body \in 1..N
  BY <1>1 DEF EntryFits
<1>3. PICK k \in 1..Len(labels) : labels[k].jump = j
  BY DEF TableFits
<1>4. Open(T, n, k, jumps[j])
  <2>1. labels[k].jump # 0
    BY <1>3
  <2>2. QED BY <1>3, <2>1 DEF TableFits
<1>5. Len(T[jumps[j].body].ctrls) = k
  BY <1>4 DEF Open
<1>6. QED BY <1>1, <1>2, <1>3, <1>5

\* No block closes, and no else is met that belongs to an open entry.
LEMMA SpansStay ==
  ASSUME NEW T, NEW N, NEW code, NEW n \in Nat, NEW labels, NEW jumps,
         TableFits(T, N, code, n, labels, jumps), Len(labels) \in Nat,
         Len(T[n + 1].ctrls) \in Nat, Len(T[n + 1].ctrls) >= Len(labels),
         code[n + 1].op # "else" \/ Len(T[n + 1].ctrls) > Len(labels)
  PROVE  TableSpans(T, code, n + 1, jumps)
<1> SUFFICES ASSUME NEW j \in 1..Len(jumps)
             PROVE  Spans(T, code, jumps[j],
                          IF jumps[j].end = 0 THEN n + 1 ELSE jumps[j].end - 1)
  BY DEF TableSpans
<1>1. CASE jumps[j].end # 0
  <2>1. TableSpans(T, code, n, jumps)
    BY DEF TableFits
  <2>2. QED BY <1>1, <2>1 DEF TableSpans
<1>2. CASE jumps[j].end = 0
  <2> DEFINE e == jumps[j]
             h == Len(T[n + 1].ctrls)
             L == Len(labels)
  <2>1. /\ e.body \in Nat /\ e.body > 0 /\ Spans(T, code, e, n)
        /\ \E k \in 1..L : labels[k].jump = j /\ Len(T[e.body].ctrls) = k
    BY <1>2, OpenBody
  <2>2. PICK k \in 1..L : Len(T[e.body].ctrls) = k
    BY <2>1
  <2>3. h \in Nat /\ L \in Nat /\ h >= L /\ (code[n + 1].op # "else" \/ h > L)
    OBVIOUS
  <2> HIDE DEF e, h, L
  <2>4. h >= k /\ (code[n + 1].op = "else" => h # k)
    BY <2>2, <2>3
  <2>5. /\ Len(T[n + 1].ctrls) >= Len(T[e.body].ctrls)
        /\ code[n + 1].op = "else" => Len(T[n + 1].ctrls) # Len(T[e.body].ctrls)
    BY <2>2, <2>4 DEF h
  <2>6. Spans(T, code, e, n + 1)
    BY <2>1, <2>5, SpansNext
  <2>7. QED BY <1>2, <2>6 DEF e
<1>3. QED BY <1>1, <1>2

\* A block below the innermost one stays open.
LEMMA OpenStays ==
  ASSUME NEW T, NEW n \in Nat, NEW m \in Nat, NEW k \in 1..m, NEW e, Open(T, n, k, e),
         Agree(T[n], T[n + 1], m)
  PROVE  Open(T, n + 1, k, e)
<1>1. T[n + 1].ctrls[k] = T[n].ctrls[k]
  BY DEF Agree
<1>2. Agree(T[n + 1], T[e.body], k - 1)
  BY DEF Agree, Open
<1>3. QED BY <1>1, <1>2 DEF Open

LEMMA CoveredNext ==
  ASSUME NEW code, NEW n \in Nat, NEW jumps, NEW jumps2, Covered(code, n, jumps),
         \A j \in 1..Len(jumps) : j \in 1..Len(jumps2) /\ jumps2[j].body = jumps[j].body,
         code[n + 1].op \in {"block", "if"} =>
           \E j \in 1..Len(jumps2) : jumps2[j].body = n + 1
  PROVE  Covered(code, n + 1, jumps2)
<1> SUFFICES ASSUME NEW q \in 1..(n + 1), code[q].op \in {"block", "if"}
             PROVE  \E j \in 1..Len(jumps2) : jumps2[j].body = q
  BY DEF Covered
<1>1. CASE q = n + 1
  BY <1>1
<1>2. CASE q # n + 1
  <2>1. q \in 1..n
    BY <1>2
  <2>2. PICK j \in 1..Len(jumps) : jumps[j].body = q
    BY <2>1 DEF Covered
  <2>3. QED BY <2>2
<1>3. QED BY <1>1, <1>2

\* Nothing opens and nothing closes.
LEMMA StaysTable ==
  ASSUME NEW T, NEW N, NEW code, NEW n \in Nat, NEW labels, NEW jumps,
         TableFits(T, N, code, n, labels, jumps), T[n] \in States, T[n].ctrls # << >>,
         NEW r, r = T[n + 1], r \in States, r.ctrls # << >>,
         Len(r.ctrls) = Len(T[n].ctrls), Agree(T[n], r, Len(T[n].ctrls) - 1),
         InnerCtrl(r).op = InnerCtrl(T[n]).op,
         InnerCtrl(r).height = InnerCtrl(T[n]).height,
         InnerCtrl(r).params = InnerCtrl(T[n]).params,
         InnerCtrl(r).results = InnerCtrl(T[n]).results,
         code[n + 1].op \notin {"block", "if", "else"}
  PROVE  TableFits(T, N, code, n + 1, labels, jumps)
<1> DEFINE s == T[n]
           L == Len(s.ctrls)
<1>1. L \in Nat \ {0} /\ InnerCtrl(s) = s.ctrls[L] /\ InnerCtrl(r) = r.ctrls[L]
  BY InnerFacts
<1>2. Len(labels) = L
  BY DEF TableFits
<1> HIDE DEF L, s
<1>3. ASSUME NEW k \in 1..L, NEW e, Open(T, n, k, e)
      PROVE  Open(T, n + 1, k, e)
  <2>1. CASE k \in 1..(L - 1)
    <3>1. L - 1 \in Nat /\ Agree(T[n], T[n + 1], L - 1)
      BY <1>1 DEF L, s
    <3>2. QED BY <1>3, <2>1, <3>1, OpenStays
  <2>2. CASE k = L
    <3>1. Agree(T[n + 1], T[e.body], k - 1)
      BY <1>1, <1>3, <2>2 DEF Agree, Open, L, s
    <3>2. QED BY <1>1, <1>3, <2>2, <3>1 DEF Open, s
  <2>3. QED BY <1>1, <2>1, <2>2
<1>4. Covered(code, n + 1, jumps)
  BY CoveredNext DEF TableFits
<1>5. Len(labels) = Len(T[n + 1].ctrls)
  BY <1>2 DEF L, s
<1>6. TableSpans(T, code, n + 1, jumps)
  <2>1. Len(labels) \in Nat /\ Len(T[n + 1].ctrls) \in Nat
        /\ Len(T[n + 1].ctrls) >= Len(labels) /\ code[n + 1].op # "else"
    BY <1>1, <1>2, <1>5
  <2>2. QED BY <2>1, SpansStay
<1>7. QED BY <1>2, <1>3, <1>4, <1>5, <1>6 DEF TableFits

\* A block opens, and with it an entry unless it is a loop.
LEMMA OpensTable ==
  ASSUME NEW T, NEW N \in Nat, NEW code, NEW n \in Nat, n < N,
         NEW labels \in Seq(ValLabels), NEW jumps \in Seq(JumpEntries),
         TableFits(T, N, code, n, labels, jumps), T[n] \in States, T[n].ctrls # << >>,
         NEW r, r = T[n + 1], r \in States, Len(r.ctrls) = Len(T[n].ctrls) + 1,
         Agree(T[n], r, Len(T[n].ctrls)), NEW l \in ValLabels, code[n + 1].op # "else",
         NEW jumps2 \in Seq(JumpEntries),
         \/ l.jump = 0 /\ jumps2 = jumps /\ code[n + 1].op \notin {"block", "if"}
         \/ /\ l.jump = Len(jumps) + 1 /\ InnerCtrl(r).op \in {"block", "if"}
            /\ jumps2 = Append(jumps, [body |-> n + 1, else |-> 0, end |-> 0])
  PROVE  TableFits(T, N, code, n + 1, Append(labels, l), jumps2)
<1> DEFINE L == Len(T[n].ctrls)
           J == Len(jumps)
           ls == Append(labels, l)
           e == [body |-> n + 1, else |-> 0, end |-> 0]
<1>1. L \in Nat \ {0} /\ J \in Nat /\ Len(labels) = L /\ Len(r.ctrls) = L + 1
  BY InnerFacts DEF TableFits
<1>2. Len(ls) = L + 1 /\ ls[L + 1] = l /\ \A k \in 1..L : ls[k] = labels[k]
  BY <1>1
<1>3. e.body = n + 1 /\ e.end = 0 /\ e.else = 0 /\ e \in JumpEntries
  BY DEF JumpEntries
<1> HIDE DEF ls, e
<1>4. /\ \A j \in 1..J : j \in 1..Len(jumps2) /\ jumps2[j] = jumps[j]
      /\ \/ Len(jumps2) = J /\ l.jump = 0 /\ code[n + 1].op \notin {"block", "if"}
         \/ /\ Len(jumps2) = J + 1 /\ l.jump = J + 1 /\ jumps2[J + 1] = e
            /\ InnerCtrl(r).op \in {"block", "if"}
  <2>1. CASE l.jump = 0 /\ jumps2 = jumps /\ code[n + 1].op \notin {"block", "if"}
    BY <2>1
  <2>2. CASE l.jump = J + 1 /\ jumps2 = Append(jumps, e) /\ InnerCtrl(r).op \in {"block", "if"}
    BY <1>1, <1>3, <2>2
  <2>3. QED BY <2>1, <2>2 DEF e
<1>5. r.ctrls # << >> /\ InnerCtrl(r) = r.ctrls[L + 1]
  <2>1. r.ctrls # << >>
    BY <1>1
  <2>2. QED BY <1>1, <2>1, InnerFacts
<1> HIDE DEF L, J
<1>6. InnerCtrl(r).op \in {"block", "if"} => EntryFits(T, N, e) /\ Open(T, n + 1, L + 1, e)
  <2> SUFFICES ASSUME InnerCtrl(r).op \in {"block", "if"}
               PROVE  EntryFits(T, N, e) /\ Open(T, n + 1, L + 1, e)
    OBVIOUS
  <2>1. n + 1 \in 1..N /\ T[e.body] = r
    BY <1>3
  <2>2. EntryFits(T, N, e)
    BY <1>3, <1>5, <2>1 DEF EntryFits
  <2>3. Agree(T[n + 1], r, L + 1 - 1)
    BY DEF Agree
  <2>4. Open(T, n + 1, L + 1, e)
    BY <1>1, <1>3, <1>5, <2>1, <2>3 DEF Open
  <2>5. QED BY <2>2, <2>4
<1>7. \A j \in 1..J : EntryFits(T, N, jumps[j])
  BY DEF TableFits, J
<1>8. \A j \in 1..Len(jumps2) : EntryFits(T, N, jumps2[j])
  <2> SUFFICES ASSUME NEW j \in 1..Len(jumps2) PROVE EntryFits(T, N, jumps2[j])
    OBVIOUS
  <2>1. j \in 1..J \/ (j = J + 1 /\ jumps2[j] = e /\ InnerCtrl(r).op \in {"block", "if"})
    BY <1>1, <1>4
  <2>2. QED BY <1>4, <1>6, <1>7, <2>1
<1>9. Covered(code, n + 1, jumps2)
  <2>1. code[n + 1].op \in {"block", "if"} =>
          \E j \in 1..Len(jumps2) : jumps2[j].body = n + 1
    BY <1>1, <1>3, <1>4
  <2>2. Covered(code, n, jumps)
    BY DEF TableFits
  <2>3. QED BY <1>4, <2>1, <2>2, CoveredNext DEF J
<1>10. ASSUME NEW k \in 1..(L + 1), ls[k].jump # 0
       PROVE  ls[k].jump \in 1..Len(jumps2) /\ Open(T, n + 1, k, jumps2[ls[k].jump])
  <2>1. CASE k = L + 1
    BY <1>1, <1>2, <1>4, <1>6, <1>10, <2>1
  <2>2. CASE k \in 1..L
    <3>1. labels[k].jump \in 1..J /\ Open(T, n, k, jumps[labels[k].jump])
      BY <1>1, <1>2, <1>10, <2>2 DEF TableFits, J
    <3>2. L \in Nat /\ Agree(T[n], T[n + 1], L)
      BY <1>1 DEF L
    <3>3. Open(T, n + 1, k, jumps[labels[k].jump])
      BY <2>2, <3>1, <3>2, OpenStays
    <3>4. QED BY <1>2, <1>4, <2>2, <3>1, <3>3
  <2>3. QED BY <1>1, <2>1, <2>2
<1>11. ASSUME NEW j \in 1..Len(jumps2), jumps2[j].end = 0
       PROVE  \E k \in 1..(L + 1) : ls[k].jump = j
  <2>1. CASE j \in 1..J
    <3>1. jumps[j].end = 0
      BY <1>4, <1>11, <2>1
    <3>2. PICK k \in 1..L : labels[k].jump = j
      BY <1>1, <2>1, <3>1 DEF TableFits, J
    <3>3. k \in 1..(L + 1) /\ ls[k].jump = j
      BY <1>1, <1>2, <3>2
    <3>4. QED BY <3>3
  <2>2. CASE j \notin 1..J
    <3>1. j = J + 1 /\ l.jump = j
      BY <1>1, <1>4, <2>2
    <3>2. L + 1 \in 1..(L + 1)
      BY <1>1
    <3>3. QED BY <1>2, <3>1, <3>2
  <2>3. QED BY <2>1, <2>2
<1>12. TableSpans(T, code, n + 1, jumps)
  <2>1. Len(labels) \in Nat /\ Len(T[n + 1].ctrls) \in Nat
        /\ Len(T[n + 1].ctrls) >= Len(labels) /\ Len(T[n + 1].ctrls) > Len(labels)
    BY <1>1
  <2>2. QED BY <2>1, SpansStay
<1>13. Spans(T, code, e, n + 1)
  <2>1. \A m \in e.body..(n + 1) : m = n + 1
    BY <1>3
  <2>2. \A m \in e.body..(n + 1) : Len(T[m].ctrls) >= Len(T[e.body].ctrls)
    <3>1. Len(T[n + 1].ctrls) >= Len(T[n + 1].ctrls)
      BY <1>1
    <3>2. QED BY <1>3, <2>1, <3>1
  <2>3. QED BY <1>3, <2>1, <2>2 DEF Spans
<1>14. TableSpans(T, code, n + 1, jumps2)
  <2> SUFFICES ASSUME NEW j \in 1..Len(jumps2)
               PROVE  Spans(T, code, jumps2[j],
                            IF jumps2[j].end = 0 THEN n + 1 ELSE jumps2[j].end - 1)
    BY DEF TableSpans
  <2>1. CASE j \in 1..J
    BY <1>4, <1>12, <2>1 DEF TableSpans, J
  <2>2. CASE j \notin 1..J
    <3>1. j = J + 1 /\ jumps2[j] = e
      BY <1>1, <1>4, <2>2
    <3>2. QED BY <1>3, <1>13, <3>1
  <2>3. QED BY <2>1, <2>2
<1>15. QED BY <1>1, <1>2, <1>8, <1>9, <1>10, <1>11, <1>14 DEF TableFits, ls

\* Writing the else or the end of entry i.
SetTo(jumps, jumps2, i, field, n) ==
  \/ i = 0 /\ jumps2 = jumps
  \/ i \in 1..Len(jumps) /\ jumps2 = [jumps EXCEPT ![i] = [@ EXCEPT ![field] = n]]

LEMMA SetElse ==
  ASSUME NEW jumps \in Seq(JumpEntries), NEW jumps2, NEW i, NEW n,
         SetTo(jumps, jumps2, i, "else", n)
  PROVE  /\ Len(jumps2) = Len(jumps)
         /\ \A j \in 1..Len(jumps) : j # i => jumps2[j] = jumps[j]
         /\ \A j \in 1..Len(jumps) : jumps2[j].body = jumps[j].body
         /\ i # 0 => /\ i \in 1..Len(jumps)
                     /\ jumps2[i].else = n /\ jumps2[i].end = jumps[i].end
<1>1. CASE i = 0
  BY <1>1 DEF SetTo
<1>2. CASE i # 0
  <2> DEFINE e == [jumps[i] EXCEPT !["else"] = n]
  <2>1. i \in 1..Len(jumps) /\ jumps2 = [jumps EXCEPT ![i] = e]
    BY <1>2 DEF SetTo
  <2>2. jumps[i] \in JumpEntries
    BY <2>1
  <2>3. e.body = jumps[i].body /\ e.else = n /\ e.end = jumps[i].end
    BY <2>2 DEF JumpEntries
  <2> HIDE DEF e
  <2>4. jumps2[i] = e /\ \A j \in 1..Len(jumps) : j # i => jumps2[j] = jumps[j]
    BY <2>1
  <2>5. Len(jumps2) = Len(jumps)
    BY <2>1
  <2>6. QED BY <1>2, <2>1, <2>3, <2>4, <2>5
<1>3. QED BY <1>1, <1>2

LEMMA SetEnd ==
  ASSUME NEW jumps \in Seq(JumpEntries), NEW jumps2, NEW i, NEW n,
         SetTo(jumps, jumps2, i, "end", n)
  PROVE  /\ Len(jumps2) = Len(jumps)
         /\ \A j \in 1..Len(jumps) : j # i => jumps2[j] = jumps[j]
         /\ \A j \in 1..Len(jumps) : jumps2[j].body = jumps[j].body
         /\ i # 0 => /\ i \in 1..Len(jumps)
                     /\ jumps2[i].end = n /\ jumps2[i].else = jumps[i].else
<1>1. CASE i = 0
  BY <1>1 DEF SetTo
<1>2. CASE i # 0
  <2> DEFINE e == [jumps[i] EXCEPT !["end"] = n]
  <2>1. i \in 1..Len(jumps) /\ jumps2 = [jumps EXCEPT ![i] = e]
    BY <1>2 DEF SetTo
  <2>2. jumps[i] \in JumpEntries
    BY <2>1
  <2>3. e.body = jumps[i].body /\ e.end = n /\ e.else = jumps[i].else
    BY <2>2 DEF JumpEntries
  <2> HIDE DEF e
  <2>4. jumps2[i] = e /\ \A j \in 1..Len(jumps) : j # i => jumps2[j] = jumps[j]
    BY <2>1
  <2>5. Len(jumps2) = Len(jumps)
    BY <2>1
  <2>6. QED BY <1>2, <2>1, <2>3, <2>4, <2>5
<1>3. QED BY <1>1, <1>2

LEMMA TurnsTable ==
  ASSUME NEW T, NEW N \in Nat, NEW code, NEW n \in Nat, n < N,
         NEW labels \in Seq(ValLabels), NEW jumps \in Seq(JumpEntries),
         TableFits(T, N, code, n, labels, jumps), NEW results, Formed(T[n], results),
         T[n].ctrls # << >>, NEW r, r = T[n + 1], Turns(T[n], r), code[n + 1].op = "else",
         NEW jumps2, SetTo(jumps, jumps2, labels[Len(labels)].jump, "else", n + 1)
  PROVE  TableFits(T, N, code, n + 1, labels, jumps2)
<1> DEFINE s == T[n]
           L == Len(s.ctrls)
           J == Len(jumps)
           c == InnerCtrl(s)
           i == labels[Len(labels)].jump
<1>1. s \in States /\ r \in States /\ r.ctrls # << >>
  BY DEF Formed, Turns, Upright
<1>2. /\ L \in Nat \ {0} /\ c = s.ctrls[L] /\ InnerCtrl(r) = r.ctrls[L]
      /\ Len(r.ctrls) = L /\ Agree(s, r, L - 1) /\ c.op = "if" /\ c.params = 0
      /\ InnerCtrl(r) = Ctrl("else", c.height, c.params, c.results)
      /\ r.h = c.height + c.params /\ c.height \in Nat
  <2>1. /\ Len(r.ctrls) = L /\ Agree(s, r, L - 1) /\ c.op = "if"
        /\ InnerCtrl(r) = Ctrl("else", c.height, c.params, c.results)
        /\ r.h = c.height + c.params
    BY DEF Turns
  <2>2. L \in Nat \ {0} /\ c = s.ctrls[L] /\ c.height \in Nat
    BY <1>1, InnerFacts
  <2>3. InnerCtrl(r) = r.ctrls[L]
    BY <2>1 DEF InnerCtrl
  <2>4. L \in 1..L
    BY <2>2
  <2>5. c.params = 0
    BY <2>1, <2>2, <2>4 DEF Formed
  <2>6. QED BY <2>1, <2>2, <2>3, <2>5
<1>3. Len(labels) = L /\ labels[L] \in ValLabels /\ i = labels[L].jump /\ i \in Nat
  <2>1. Len(labels) = L
    BY DEF TableFits
  <2>2. labels[L] \in ValLabels
    BY <1>2, <2>1
  <2>3. QED BY <2>1, <2>2 DEF ValLabels
<1>s. SetTo(jumps, jumps2, i, "else", n + 1) /\ n + 1 \in Nat
  OBVIOUS
<1>4. /\ Len(jumps2) = J
      /\ \A j \in 1..J : j # i => jumps2[j] = jumps[j]
      /\ \A j \in 1..J : jumps2[j].body = jumps[j].body
      /\ i # 0 => i \in 1..J /\ jumps2[i].else = n + 1 /\ jumps2[i].end = jumps[i].end
  <2> HIDE DEF i
  <2> DEFINE now == n + 1
  <2>1. i \in Nat /\ now \in Nat /\ SetTo(jumps, jumps2, i, "else", now)
    BY <1>3, <1>s
  <2> HIDE DEF now
  <2>2. /\ Len(jumps2) = Len(jumps)
        /\ \A j \in 1..Len(jumps) : j # i => jumps2[j] = jumps[j]
        /\ \A j \in 1..Len(jumps) : jumps2[j].body = jumps[j].body
        /\ i # 0 => /\ i \in 1..Len(jumps)
                    /\ jumps2[i].else = now /\ jumps2[i].end = jumps[i].end
    BY <2>1, SetElse
  <2>3. QED BY <2>2 DEF now
<1> HIDE DEF L, J, c, i, s
<1>5. i # 0 => Open(T, n, L, jumps[i]) /\ EntryFits(T, N, jumps[i])
  BY <1>2, <1>3, <1>4 DEF TableFits, J
<1>6. i # 0 => EntryFits(T, N, jumps2[i]) /\ Open(T, n + 1, L, jumps2[i])
  <2> SUFFICES ASSUME i # 0 PROVE EntryFits(T, N, jumps2[i]) /\ Open(T, n + 1, L, jumps2[i])
    OBVIOUS
  <2> DEFINE b == T[jumps[i].body]
             d == InnerCtrl(b)
  <2>1. /\ Open(T, n, L, jumps[i]) /\ EntryFits(T, N, jumps[i]) /\ jumps2[i].else = n + 1
        /\ jumps2[i].end = jumps[i].end /\ jumps2[i].body = jumps[i].body
    BY <1>4, <1>5
  <2>2. /\ jumps[i].end = 0 /\ Len(b.ctrls) = L /\ Agree(s, b, L - 1)
        /\ c.height = d.height /\ c.params = d.params /\ c.results = d.results
        /\ d.op = "if" /\ jumps[i].else = 0
    BY <1>2, <2>1 DEF Open, s
  <2>3. Agree(b, r, L - 1) /\ Agree(r, b, L - 1)
    BY <1>2, <2>2 DEF Agree
  <2>4. jumps[i].body \in 1..N /\ b \in States /\ b.ctrls # << >>
    BY <2>1 DEF EntryFits
  <2>5. n + 1 \in 1..N /\ n + 1 # 0
    OBVIOUS
  <2> HIDE DEF b, d
  <2>6. r.h = d.height /\ InnerCtrl(r) = Ctrl("else", d.height, d.params, d.results)
        /\ Len(r.ctrls) = Len(b.ctrls)
    BY <1>2, <2>2
  <2>7. EntryFits(T, N, jumps2[i])
    BY <2>1, <2>2, <2>3, <2>4, <2>5, <2>6 DEF EntryFits, b, d
  <2>8. r.ctrls[L].op = "else" /\ r.ctrls[L].height = c.height
        /\ r.ctrls[L].params = c.params /\ r.ctrls[L].results = c.results
    BY <1>2 DEF Ctrl
  <2>9. Open(T, n + 1, L, jumps2[i])
    BY <2>1, <2>2, <2>3, <2>5, <2>8 DEF Open, b, d
  <2>10. QED BY <2>7, <2>9
<1>7. \A j \in 1..J : EntryFits(T, N, jumps2[j])
  <2>1. \A j \in 1..J : EntryFits(T, N, jumps[j])
    BY DEF TableFits, J
  <2>2. QED BY <1>4, <1>6, <2>1
<1>8. Covered(code, n + 1, jumps2)
  <2>1. Covered(code, n, jumps)
    BY DEF TableFits
  <2>2. QED BY <1>4, <2>1, CoveredNext DEF J
<1>9. ASSUME NEW k \in 1..L, labels[k].jump # 0
      PROVE  labels[k].jump \in 1..J /\ Open(T, n + 1, k, jumps2[labels[k].jump])
  <2>1. CASE k = L
    BY <1>3, <1>4, <1>6, <1>9, <2>1
  <2>2. CASE k # L
    <3>1. k \in 1..(L - 1) /\ L - 1 \in Nat
      BY <1>2, <2>2
    <3>2. labels[k].jump \in 1..J /\ Open(T, n, k, jumps[labels[k].jump])
      BY <1>3, <1>9 DEF TableFits, J
    <3>3. labels[k].jump # i
      <4>1. ASSUME i # 0, labels[k].jump = i PROVE FALSE
        BY <1>2, <1>5, <3>1, <3>2, <4>1 DEF Open
      <4>2. QED BY <1>9, <4>1
    <3>4. Open(T, n + 1, k, jumps[labels[k].jump])
      BY <1>2, <3>1, <3>2, OpenStays DEF s
    <3>5. QED BY <1>4, <3>2, <3>3, <3>4
  <2>3. QED BY <2>1, <2>2
<1>10. ASSUME NEW j \in 1..J, jumps2[j].end = 0
       PROVE  \E k \in 1..L : labels[k].jump = j
  <2>1. jumps[j].end = 0
    BY <1>4, <1>10
  <2>2. QED BY <1>3, <2>1 DEF TableFits, J
<1>11. i # 0 => Spans(T, code, jumps2[i], n + 1) /\ jumps2[i].end = 0
  <2> SUFFICES ASSUME i # 0 PROVE Spans(T, code, jumps2[i], n + 1) /\ jumps2[i].end = 0
    OBVIOUS
  <2> DEFINE e == jumps[i]
             e2 == jumps2[i]
             b == e.body
             k == Len(T[b].ctrls)
  <2>1. e.end = 0 /\ e.else = 0 /\ k = L
    <3>1. Open(T, n, L, e) /\ EntryFits(T, N, e) /\ c = T[n].ctrls[L] /\ c.op = "if"
      BY <1>2, <1>5 DEF s
    <3>2. QED BY <3>1 DEF Open
  <2>2. e2.body = b /\ e2.else = n + 1 /\ e2.end = 0
    BY <1>4, <2>1
  <2>3. b \in Nat /\ b > 0 /\ Spans(T, code, e, n)
    <3>1. i \in 1..Len(jumps)
      BY <1>4 DEF J
    <3>2. QED BY <2>1, <3>1, OpenBody
  <2>4. b <= n
    BY <2>3 DEF Spans
  <2>5. Len(T[n + 1].ctrls) = L /\ code[n + 1].op = "else"
    BY <1>2
  <2>6. /\ \A m \in b..n : Len(T[m].ctrls) >= k
        /\ \A m \in b..n : ~(code[m].op = "else" /\ Len(T[m].ctrls) = k)
    <3>1. /\ \A m \in b..n : Len(T[m].ctrls) >= k
          /\ \A m \in b..n : code[m].op = "else" /\ Len(T[m].ctrls) = k => m = 0
      BY <2>1, <2>3 DEF Spans
    <3>2. \A m \in b..n : m # 0
      BY <2>3
    <3>3. QED BY <3>1, <3>2
  <2> HIDE DEF e, e2, b, k
  <2>7. \A m \in b..(n + 1) : m \in b..n \/ m = n + 1
    BY <2>3
  <2>8. \A m \in b..(n + 1) : Len(T[m].ctrls) >= k
    BY <1>2, <2>1, <2>5, <2>6, <2>7
  <2>9. \A m \in b..(n + 1) : code[m].op = "else" /\ Len(T[m].ctrls) = k => m = n + 1
    BY <2>6, <2>7
  <2>10. n + 1 \in b..(n + 1)
    BY <2>3, <2>4
  <2>11. Spans(T, code, e2, n + 1)
    BY <2>2, <2>5, <2>8, <2>9, <2>10 DEF Spans, k
  <2>12. QED BY <2>2, <2>11 DEF e2
<1>12. TableSpans(T, code, n + 1, jumps2)
  <2> SUFFICES ASSUME NEW j \in 1..J
               PROVE  Spans(T, code, jumps2[j],
                            IF jumps2[j].end = 0 THEN n + 1 ELSE jumps2[j].end - 1)
    BY <1>4 DEF TableSpans
  <2>1. CASE j = i
    BY <1>11, <2>1
  <2>2. CASE j # i /\ jumps[j].end # 0
    <3>1. TableSpans(T, code, n, jumps)
      BY DEF TableFits
    <3>2. QED BY <1>4, <2>2, <3>1 DEF TableSpans, J
  <2>3. CASE j # i /\ jumps[j].end = 0
    <3> DEFINE e == jumps[j]
    <3>1. /\ e.body \in Nat /\ e.body > 0 /\ Spans(T, code, e, n)
          /\ \E k \in 1..Len(labels) : labels[k].jump = j /\ Len(T[e.body].ctrls) = k
      BY <2>3, OpenBody DEF J
    <3>2. PICK k \in 1..L : labels[k].jump = j /\ Len(T[e.body].ctrls) = k
      BY <1>3, <3>1
    <3>3. k # L
      BY <1>3, <2>3, <3>2
    <3>4. L >= k /\ L # k /\ Len(T[n + 1].ctrls) = L
      BY <1>2, <3>2, <3>3
    <3> HIDE DEF e
    <3>5. Spans(T, code, e, n + 1)
      BY <3>1, <3>2, <3>4, SpansNext
    <3>6. jumps2[j] = e /\ jumps2[j].end = 0
      BY <1>4, <2>3 DEF e
    <3>7. QED BY <3>5, <3>6
  <2>4. QED BY <2>1, <2>2, <2>3
<1>13. QED BY <1>2, <1>3, <1>4, <1>7, <1>8, <1>9, <1>10, <1>12 DEF TableFits

LEMMA ClosesTable ==
  ASSUME NEW T, NEW N \in Nat, NEW code, NEW n \in Nat, n < N,
         NEW labels \in Seq(ValLabels), NEW jumps \in Seq(JumpEntries),
         TableFits(T, N, code, n, labels, jumps), NEW results, Formed(T[n], results),
         T[n].ctrls # << >>, NEW r, r = T[n + 1], Closes(T[n], r), code[n + 1].op = "end",
         NEW jumps2, SetTo(jumps, jumps2, labels[Len(labels)].jump, "end", n + 1)
  PROVE  TableFits(T, N, code, n + 1, SubSeq(labels, 1, Len(labels) - 1), jumps2)
<1> DEFINE s == T[n]
           L == Len(s.ctrls)
           J == Len(jumps)
           c == InnerCtrl(s)
           i == labels[Len(labels)].jump
           ls == SubSeq(labels, 1, Len(labels) - 1)
<1>1. s \in States /\ r \in States
  BY DEF Formed, Closes
<1>2. /\ L \in Nat \ {0} /\ c = s.ctrls[L]
      /\ c.op = "if" => c.params = 0 /\ c.params = c.results
      /\ Len(r.ctrls) = L - 1 /\ Agree(s, r, L - 1) /\ r.h = c.height + c.results
      /\ c.height \in Nat /\ c.results \in Nat
  <2>1. L \in Nat \ {0} /\ c = s.ctrls[L] /\ c.height \in Nat /\ c.results \in Nat
    BY <1>1, InnerFacts
  <2>2. Len(r.ctrls) = L - 1 /\ Agree(s, r, L - 1)
    BY ClosesFormed
  <2>3. L \in 1..L
    BY <2>1
  <2>4. c.op = "if" => c.params = 0
    BY <2>1, <2>3 DEF Formed
  <2>5. r.h = c.height + c.results /\ (c.op = "if" => c.params = c.results)
    BY DEF Closes
  <2>6. QED BY <2>1, <2>2, <2>4, <2>5
<1>3. Len(labels) = L /\ labels[L] \in ValLabels /\ i = labels[L].jump /\ i \in Nat
  <2>1. Len(labels) = L
    BY DEF TableFits
  <2>2. labels[L] \in ValLabels
    BY <1>2, <2>1
  <2>3. QED BY <2>1, <2>2 DEF ValLabels
<1>s. SetTo(jumps, jumps2, i, "end", n + 1) /\ n + 1 \in Nat
  OBVIOUS
<1>4. /\ Len(jumps2) = J
      /\ \A j \in 1..J : j # i => jumps2[j] = jumps[j]
      /\ \A j \in 1..J : jumps2[j].body = jumps[j].body
      /\ i # 0 => i \in 1..J /\ jumps2[i].end = n + 1 /\ jumps2[i].else = jumps[i].else
  <2> HIDE DEF i
  <2> DEFINE now == n + 1
  <2>1. i \in Nat /\ now \in Nat /\ SetTo(jumps, jumps2, i, "end", now)
    BY <1>3, <1>s
  <2> HIDE DEF now
  <2>2. /\ Len(jumps2) = Len(jumps)
        /\ \A j \in 1..Len(jumps) : j # i => jumps2[j] = jumps[j]
        /\ \A j \in 1..Len(jumps) : jumps2[j].body = jumps[j].body
        /\ i # 0 => /\ i \in 1..Len(jumps)
                    /\ jumps2[i].end = now /\ jumps2[i].else = jumps[i].else
    BY <2>1, SetEnd
  <2>3. QED BY <2>2 DEF now
<1>5. Len(ls) = L - 1 /\ \A k \in 1..(L - 1) : ls[k] = labels[k]
  BY <1>2, <1>3
<1> HIDE DEF L, J, c, i, s, ls
<1>6. i # 0 => Open(T, n, L, jumps[i]) /\ EntryFits(T, N, jumps[i])
  BY <1>2, <1>3, <1>4 DEF TableFits, J
<1>7. i # 0 => EntryFits(T, N, jumps2[i])
  <2> SUFFICES ASSUME i # 0 PROVE EntryFits(T, N, jumps2[i])
    OBVIOUS
  <2> DEFINE b == T[jumps[i].body]
             d == InnerCtrl(b)
  <2>1. /\ Open(T, n, L, jumps[i]) /\ EntryFits(T, N, jumps[i]) /\ jumps2[i].end = n + 1
        /\ jumps2[i].else = jumps[i].else /\ jumps2[i].body = jumps[i].body
    BY <1>4, <1>6
  <2>2. /\ Len(b.ctrls) = L /\ Agree(s, b, L - 1)
        /\ c.height = d.height /\ c.params = d.params /\ c.results = d.results
        /\ c.op = IF jumps[i].else = 0 THEN d.op ELSE "else"
    BY <1>2, <2>1 DEF Open, s
  <2>3. Agree(b, r, L - 1) /\ Len(r.ctrls) = Len(b.ctrls) - 1 /\ r.h = d.height + d.results
    BY <1>2, <2>2 DEF Agree
  <2>4. d.op = "if" /\ jumps[i].else = 0 => d.results = 0
    BY <1>2, <2>2
  <2>5. n + 1 \in 1..N /\ n + 1 # 0
    OBVIOUS
  <2>6. /\ jumps[i].body \in 1..N /\ b \in States /\ b.ctrls # << >> /\ d.op \in {"block", "if"}
        /\ jumps[i].else # 0 =>
             /\ jumps[i].else \in 1..N /\ Len(T[jumps[i].else].ctrls) = Len(b.ctrls)
             /\ Agree(b, T[jumps[i].else], Len(b.ctrls) - 1)
             /\ InnerCtrl(T[jumps[i].else]) = Ctrl("else", d.height, d.params, d.results)
             /\ T[jumps[i].else].h = d.height
    BY <2>1 DEF EntryFits
  <2> HIDE DEF b, d
  <2>7. Agree(b, r, Len(b.ctrls) - 1)
    BY <2>2, <2>3
  <2>8. QED BY <2>1, <2>3, <2>4, <2>5, <2>6, <2>7 DEF EntryFits, b, d
<1>8. \A j \in 1..J : EntryFits(T, N, jumps2[j])
  <2>1. \A j \in 1..J : EntryFits(T, N, jumps[j])
    BY DEF TableFits, J
  <2>2. QED BY <1>4, <1>7, <2>1
<1>9. Covered(code, n + 1, jumps2)
  <2>1. Covered(code, n, jumps)
    BY DEF TableFits
  <2>2. QED BY <1>4, <2>1, CoveredNext DEF J
<1>10. ASSUME NEW k \in 1..(L - 1), ls[k].jump # 0
      PROVE  ls[k].jump \in 1..J /\ Open(T, n + 1, k, jumps2[ls[k].jump])
  <2>1. k \in 1..L /\ L - 1 \in Nat /\ ls[k] = labels[k]
    BY <1>2, <1>5
  <2>2. labels[k].jump \in 1..J /\ Open(T, n, k, jumps[labels[k].jump])
    BY <1>3, <1>10, <2>1 DEF TableFits, J
  <2>3. labels[k].jump # i
    <3>1. ASSUME i # 0, labels[k].jump = i PROVE FALSE
      BY <1>2, <1>6, <2>1, <2>2, <3>1 DEF Open
    <3>2. QED BY <1>10, <2>1, <3>1
  <2>4. Open(T, n + 1, k, jumps[labels[k].jump])
    BY <1>2, <2>1, <2>2, OpenStays DEF s
  <2>5. QED BY <1>4, <2>1, <2>2, <2>3, <2>4
<1>11. ASSUME NEW j \in 1..J, jumps2[j].end = 0
       PROVE  \E k \in 1..(L - 1) : ls[k].jump = j
  <2>1. j # i /\ jumps[j].end = 0
    BY <1>4, <1>11
  <2>2. PICK k \in 1..L : labels[k].jump = j
    BY <1>3, <2>1 DEF TableFits, J
  <2>3. k # L
    BY <1>3, <2>1, <2>2
  <2>4. k \in 1..(L - 1)
    BY <1>2, <2>3
  <2>5. QED BY <1>5, <2>2, <2>4
<1>12. TableSpans(T, code, n + 1, jumps2)
  <2> SUFFICES ASSUME NEW j \in 1..J
               PROVE  Spans(T, code, jumps2[j],
                            IF jumps2[j].end = 0 THEN n + 1 ELSE jumps2[j].end - 1)
    BY <1>4 DEF TableSpans
  <2>1. CASE j = i
    <3>1. i # 0 /\ i \in 1..Len(jumps)
      BY <2>1 DEF J
    <3>2. jumps[i].end = 0
      BY <1>6, <3>1 DEF Open
    <3>3. Spans(T, code, jumps[i], n)
      BY <3>1, <3>2, OpenBody
    <3>4. /\ jumps2[i].body = jumps[i].body /\ jumps2[i].else = jumps[i].else
          /\ jumps2[i].end = n + 1
      BY <1>4, <3>1 DEF J
    <3>5. Spans(T, code, jumps2[i], n)
      BY <3>3, <3>4 DEF Spans
    <3>6. jumps2[i].end # 0 /\ jumps2[i].end - 1 = n
      BY <3>4
    <3>7. QED BY <2>1, <3>5, <3>6
  <2>2. CASE j # i /\ jumps[j].end # 0
    <3>1. TableSpans(T, code, n, jumps)
      BY DEF TableFits
    <3>2. QED BY <1>4, <2>2, <3>1 DEF TableSpans, J
  <2>3. CASE j # i /\ jumps[j].end = 0
    <3> DEFINE e == jumps[j]
    <3>1. /\ e.body \in Nat /\ e.body > 0 /\ Spans(T, code, e, n)
          /\ \E k \in 1..Len(labels) : labels[k].jump = j /\ Len(T[e.body].ctrls) = k
      BY <2>3, OpenBody DEF J
    <3>2. PICK k \in 1..L : labels[k].jump = j /\ Len(T[e.body].ctrls) = k
      BY <1>3, <3>1
    <3>3. k # L
      BY <1>3, <2>3, <3>2
    <3>4. L - 1 >= k /\ Len(T[n + 1].ctrls) = L - 1 /\ code[n + 1].op # "else"
      BY <1>2, <3>2, <3>3
    <3> HIDE DEF e
    <3>5. Spans(T, code, e, n + 1)
      BY <3>1, <3>2, <3>4, SpansNext
    <3>6. jumps2[j] = e /\ jumps2[j].end = 0
      BY <1>4, <2>3 DEF e
    <3>7. QED BY <3>5, <3>6
  <2>4. QED BY <2>1, <2>2, <2>3
<1>13. QED BY <1>2, <1>4, <1>5, <1>8, <1>9, <1>10, <1>11, <1>12 DEF TableFits, ls

-----------------------------------------------------------------------------
(* The second pass over a valid body *)

\* No state passed so far has more blocks or, where code is live, operands.
HeightsFit(T, n, labels, depth) ==
  /\ \A m \in 0..n : Len(T[m].ctrls) <= labels
  /\ \A m \in 0..n : m < n /\ Live(T[m]) => T[m].h <= depth

LEMMA HeightsNext ==
  ASSUME NEW T, NEW n \in Nat, NEW ml \in Nat, NEW md \in Int, HeightsFit(T, n, ml, md),
         NEW labels, NEW d \in Int, HeadFits(T[n], labels, d),
         T[n].h \in Nat, NEW labels2, NEW d2, HeadFits(T[n + 1], labels2, d2),
         \A m \in 0..(n + 1) : Len(T[m].ctrls) \in Nat /\ T[m].h \in Nat,
         NEW ml2 \in Nat, ml <= ml2, Len(labels2) <= ml2
  PROVE  HeightsFit(T, n + 1, ml2, Larger(md, d))
<1>1. \A m \in 0..(n + 1) : Len(T[m].ctrls) <= ml2
  <2> SUFFICES ASSUME NEW m \in 0..(n + 1) PROVE Len(T[m].ctrls) <= ml2
    OBVIOUS
  <2>1. CASE m = n + 1
    BY <2>1 DEF HeadFits
  <2>2. CASE m # n + 1
    <3>1. m \in 0..n
      BY <2>2
    <3>2. Len(T[m].ctrls) <= ml /\ Len(T[m].ctrls) \in Nat
      BY <3>1 DEF HeightsFit
    <3>3. QED BY <3>2
  <2>3. QED BY <2>1, <2>2
<1>2. \A m \in 0..(n + 1) : m < n + 1 /\ Live(T[m]) => T[m].h <= Larger(md, d)
  <2> SUFFICES ASSUME NEW m \in 0..(n + 1), m < n + 1, Live(T[m])
               PROVE  T[m].h <= Larger(md, d)
    OBVIOUS
  <2>1. m \in 0..n /\ T[m].h \in Nat
    OBVIOUS
  <2>2. T[m].h <= md \/ T[m].h = d
    <3>1. CASE m = n
      BY <3>1 DEF HeadFits
    <3>2. CASE m # n
      BY <2>1, <3>2 DEF HeightsFit
    <3>3. QED BY <3>1, <3>2
  <2>3. QED BY <2>1, <2>2 DEF Larger
<1>3. QED BY <1>1, <1>2 DEF HeightsFit

\* An instruction that moves operands.
LEMMA MovesFits ==
  ASSUME NEW T, NEW N, NEW code, NEW n \in Nat, NEW results, Formed(T[n], results),
         T[n].ctrls # << >>, NEW labels, NEW jumps, NEW d, HeadFits(T[n], labels, d),
         TableFits(T, N, code, n, labels, jumps),
         code[n + 1].op \notin {"block", "if", "else"}, NEW a, NEW b, a \in Nat, b \in Nat, Moves(T[n], T[n + 1], a, b),
         NEW e, d \in Nat /\ d >= a => e = d - a + b
  PROVE  HeadFits(T[n + 1], labels, e) /\ TableFits(T, N, code, n + 1, labels, jumps)
<1> DEFINE s == T[n]
           r == T[n + 1]
<1>1. Upright(s) /\ s \in States /\ Upright(r) /\ r \in States /\ r.ctrls = s.ctrls
  BY DEF Formed, Upright, Moves
<1>2. HeadFits(r, labels, e)
  BY <1>1, MovesHead
<1>3. InnerCtrl(r) = InnerCtrl(s) /\ Agree(s, r, Len(s.ctrls) - 1)
  BY <1>1 DEF InnerCtrl, Agree
<1>4. TableFits(T, N, code, n + 1, labels, jumps)
  BY <1>1, <1>3, StaysTable
<1>5. QED BY <1>2, <1>4

LEMMA DiesFits ==
  ASSUME NEW T, NEW N, NEW code, NEW n \in Nat, NEW results, Formed(T[n], results),
         T[n].ctrls # << >>, NEW labels, NEW jumps, NEW d, HeadFits(T[n], labels, d),
         TableFits(T, N, code, n, labels, jumps),
         code[n + 1].op \notin {"block", "if", "else"}, NEW a, Dies(T[n], T[n + 1], a), NEW e
  PROVE  HeadFits(T[n + 1], labels, e) /\ TableFits(T, N, code, n + 1, labels, jumps)
<1> DEFINE s == T[n]
           r == T[n + 1]
<1>1. Upright(s) /\ s \in States /\ Upright(r) /\ r \in States /\ r.ctrls # << >>
  BY DEF Formed, Upright, Dies
<1>2. HeadFits(r, labels, e)
  BY <1>1, DiesHead
<1>3. InnerCtrl(s) \in CtrlRecs
  BY <1>1, InnerFacts
<1>4. /\ InnerCtrl(r).op = InnerCtrl(s).op /\ InnerCtrl(r).height = InnerCtrl(s).height
      /\ InnerCtrl(r).params = InnerCtrl(s).params
      /\ InnerCtrl(r).results = InnerCtrl(s).results
      /\ Agree(s, r, Len(s.ctrls) - 1) /\ Len(r.ctrls) = Len(s.ctrls)
  BY <1>3 DEF Dies, CtrlRecs
<1>5. TableFits(T, N, code, n + 1, labels, jumps)
  BY <1>1, <1>4, StaysTable
<1>6. QED BY <1>2, <1>5

Fits(T, code, q) ==
  /\ HeadFits(T[q.ip], q.labels, q.depth)
  /\ TableFits(T, Len(code), code, q.ip, q.labels, q.jumps)
  /\ HeightsFit(T, q.ip, q.max_labels, q.max_depth)

\* The second pass agrees with the checker of WebAssembly on a valid body.
ScanFits == phase = "scan" => Fits(Typing(func_idx), Code, scan)

\* What is known in the middle of a valid body.
LEMMA ScanState ==
  ASSUME ValInv, ScanFits, Body(func_idx), Scanning
  PROVE  /\ scan.ip \in Nat /\ scan.ip < Len(Code) /\ Len(Code) \in Nat
         /\ scan.depth \in Int /\ scan.max_labels \in Nat /\ scan.max_depth \in Int
         /\ scan.labels \in Seq(ValLabels) /\ scan.jumps \in Seq(JumpEntries)
         /\ scan.labels # << >> /\ scan \in ScanRecs
         /\ Instr = Code[scan.ip + 1] /\ Instr.op \in AllOps /\ Instr \in Instructions
         /\ Formed(Typing(func_idx)[scan.ip], functions[func_idx].results)
         /\ Typing(func_idx)[scan.ip].ctrls # << >>
         /\ HeadFits(Typing(func_idx)[scan.ip], scan.labels, scan.depth)
         /\ TableFits(Typing(func_idx), Len(Code), Code, scan.ip, scan.labels, scan.jumps)
         /\ Checks(Typing(func_idx)[scan.ip], Typing(func_idx)[scan.ip + 1], Instr, Signatures)
         /\ Typing(func_idx)[scan.ip].h \in Nat
         /\ \A m \in 0..(scan.ip + 1) : /\ Len(Typing(func_idx)[m].ctrls) \in Nat
                                        /\ Typing(func_idx)[m].h \in Nat
<1>1. /\ scan \in ScanRecs /\ scan.ip \in Nat /\ scan.depth \in Int
      /\ scan.labels \in Seq(ValLabels) /\ scan.jumps \in Seq(JumpEntries)
      /\ Instr \in Instructions
  BY AtInstr
<1>2. scan.max_labels \in Nat /\ scan.max_depth \in Int
  BY <1>1 DEF ScanRecs
<1>3. scan.ip < Len(Code) /\ phase = "scan"
  BY DEF Scanning
<1>4. PICK T : T = Typing(func_idx)
  OBVIOUS
<1>5. /\ Len(Code) \in Nat
      /\ \A n \in 0..Len(Code) : Formed(T[n], functions[func_idx].results)
      /\ \A n \in 0..Len(Code) : T[n].ctrls = << >> <=> n = Len(Code)
      /\ \A n \in 0..Len(Code) : n < Len(Code) =>
           Checks(T[n], T[n + 1], Code[n + 1], Signatures) /\ Code[n + 1].op \in AllOps
  BY <1>4 DEF Body, Code
<1>6. scan.ip \in 0..Len(Code) /\ \A m \in 0..(scan.ip + 1) : m \in 0..Len(Code)
  BY <1>1, <1>3, <1>5
<1>7. /\ HeadFits(T[scan.ip], scan.labels, scan.depth)
      /\ TableFits(T, Len(Code), Code, scan.ip, scan.labels, scan.jumps)
  BY <1>3, <1>4 DEF ScanFits, Fits
<1>8. \A m \in 0..(scan.ip + 1) : Len(T[m].ctrls) \in Nat /\ T[m].h \in Nat
  BY <1>5, <1>6 DEF Formed, States
<1>9. T[scan.ip].ctrls # << >> /\ T[scan.ip] \in States
  BY <1>3, <1>5, <1>6 DEF Formed
<1>10. scan.labels # << >>
  <2>1. Len(scan.labels) = Len(T[scan.ip].ctrls)
    BY <1>7 DEF HeadFits
  <2>2. Len(T[scan.ip].ctrls) # 0
    BY <1>9, InnerFacts
  <2>3. QED BY <2>1, <2>2
<1>11. Instr = Code[scan.ip + 1]
  BY DEF Instr
<1>12. T[scan.ip].h \in Nat
  BY <1>9 DEF States
<1>13. /\ Checks(T[scan.ip], T[scan.ip + 1], Instr, Signatures) /\ Instr.op \in AllOps
       /\ Formed(T[scan.ip], functions[func_idx].results)
  BY <1>3, <1>5, <1>6, <1>11
<1>14. QED
  BY <1>1, <1>2, <1>3, <1>4, <1>5, <1>7, <1>8, <1>9, <1>10, <1>11, <1>12, <1>13

\* What Advance writes.
LEMMA AdvanceFields ==
  ASSUME ValInv, Scanning, NEW s, DOMAIN s = DOMAIN scan, s.ip = scan.ip, Advance(s)
  PROVE  /\ scan'.ip = scan.ip + 1 /\ scan'.labels = s.labels /\ scan'.jumps = s.jumps
         /\ scan'.depth = s.depth /\ scan'.max_labels = s.max_labels
         /\ scan'.max_depth = Larger(s.max_depth, scan.depth)
         /\ UNCHANGED <<functions, func_idx, phase>>
<1>1. scan' = [s EXCEPT !.ip = @ + 1, !.max_depth = Larger(@, scan.depth)]
      /\ UNCHANGED <<functions, func_idx, phase>>
  BY DEF Advance
<1>2. scan \in ScanRecs
  BY AtInstr
<1>3. {"ip", "labels", "jumps", "depth", "max_depth", "max_labels"} \subseteq DOMAIN s
  BY <1>2 DEF ScanRecs
<1>4. QED BY <1>1, <1>3

LEMMA AdvanceFits ==
  ASSUME ValInv, ScanFits, Body(func_idx), Scanning,
         scan'.ip = scan.ip + 1, UNCHANGED <<functions, func_idx, phase>>,
         scan'.max_labels \in Nat, scan.max_labels <= scan'.max_labels,
         Len(scan'.labels) <= scan'.max_labels,
         scan'.max_depth = Larger(scan.max_depth, scan.depth),
         HeadFits(Typing(func_idx)[scan.ip + 1], scan'.labels, scan'.depth),
         TableFits(Typing(func_idx), Len(Code), Code, scan.ip + 1, scan'.labels, scan'.jumps)
  PROVE  ScanFits'
<1>1. Typing(func_idx)' = Typing(func_idx) /\ Code' = Code
  BY DEF Typing, Signatures, Code
<1>2. PICK T : T = Typing(func_idx)
  OBVIOUS
<1>3. /\ HeightsFit(T, scan.ip, scan.max_labels, scan.max_depth)
      /\ HeadFits(T[scan.ip], scan.labels, scan.depth)
  BY <1>2 DEF ScanFits, Fits, Scanning
<1>4. HeightsFit(T, scan.ip + 1, scan'.max_labels, Larger(scan.max_depth, scan.depth))
  BY <1>2, <1>3, ScanState, HeightsNext
<1>5. Fits(T, Code, scan')
  BY <1>2, <1>4 DEF Fits
<1>6. QED BY <1>1, <1>2, <1>5 DEF ScanFits

\* The labels do not grow.
LEMMA ShrinkFits ==
  ASSUME ValInv, ScanFits, Body(func_idx), Scanning,
         NEW s, DOMAIN s = DOMAIN scan, s.ip = scan.ip, Advance(s),
         s.max_labels = scan.max_labels, s.max_depth = scan.max_depth,
         Len(s.labels) \in Nat, Len(s.labels) <= Len(scan.labels),
         HeadFits(Typing(func_idx)[scan.ip + 1], s.labels, s.depth),
         TableFits(Typing(func_idx), Len(Code), Code, scan.ip + 1, s.labels, s.jumps)
  PROVE  ScanFits'
<1>1. /\ scan'.ip = scan.ip + 1 /\ scan'.labels = s.labels /\ scan'.jumps = s.jumps
      /\ scan'.depth = s.depth /\ scan'.max_labels = scan.max_labels
      /\ scan'.max_depth = Larger(scan.max_depth, scan.depth)
      /\ UNCHANGED <<functions, func_idx, phase>>
  BY AdvanceFields
<1>2. PICK T : T = Typing(func_idx)
  OBVIOUS
<1>3. /\ HeightsFit(T, scan.ip, scan.max_labels, scan.max_depth)
      /\ HeadFits(T[scan.ip], scan.labels, scan.depth)
  BY <1>2 DEF ScanFits, Fits, Scanning
<1>4. scan.ip \in Nat /\ scan.max_labels \in Nat /\ Len(T[scan.ip].ctrls) \in Nat
  BY <1>2, ScanState
<1>5. Len(scan.labels) <= scan.max_labels
  BY <1>3, <1>4 DEF HeightsFit, HeadFits
<1>6. Len(s.labels) <= scan.max_labels /\ scan.max_labels <= scan.max_labels
  BY <1>3, <1>4, <1>5 DEF HeadFits
<1>7. QED BY <1>1, <1>4, <1>6, AdvanceFits

\* Only the height and the reachability change.
LEMMA HeightFits ==
  ASSUME ValInv, ScanFits, Body(func_idx), Scanning, NEW d, NEW u,
         Advance([scan EXCEPT !.unreachable = u, !.depth = d]),
         HeadFits(Typing(func_idx)[scan.ip + 1], scan.labels, d),
         TableFits(Typing(func_idx), Len(Code), Code, scan.ip + 1, scan.labels, scan.jumps)
  PROVE  ScanFits'
<1> DEFINE s == [scan EXCEPT !.unreachable = u, !.depth = d]
<1>1. scan \in ScanRecs /\ scan.labels \in Seq(ValLabels)
  BY AtInstr
<1>2. /\ DOMAIN s = DOMAIN scan /\ s.ip = scan.ip /\ s.max_labels = scan.max_labels
      /\ s.max_depth = scan.max_depth /\ s.labels = scan.labels /\ s.jumps = scan.jumps
      /\ s.depth = d
  BY <1>1 DEF ScanRecs
<1>3. Advance(s)
  OBVIOUS
<1>4. Len(scan.labels) \in Nat /\ Len(scan.labels) <= Len(scan.labels)
  BY <1>1
<1> HIDE DEF s
<1>5. QED BY <1>2, <1>3, <1>4, ShrinkFits

LEMMA ScanMovesFits ==
  ASSUME ValInv, ScanFits, Body(func_idx), Scanning, Instr.op \notin {"block", "if", "else"},
         NEW a, NEW b, a \in Nat, b \in Nat,
         Moves(Typing(func_idx)[scan.ip], Typing(func_idx)[scan.ip + 1], a, b),
         NEW d, scan.depth \in Nat /\ scan.depth >= a => d = scan.depth - a + b,
         Advance([scan EXCEPT !.depth = d])
  PROVE  ScanFits'
<1>1. PICK T : T = Typing(func_idx)
  OBVIOUS
<1>2. /\ scan.ip \in Nat /\ Code[scan.ip + 1].op \notin {"block", "if", "else"}
      /\ Formed(T[scan.ip], functions[func_idx].results) /\ T[scan.ip].ctrls # << >>
      /\ HeadFits(T[scan.ip], scan.labels, scan.depth)
      /\ TableFits(T, Len(Code), Code, scan.ip, scan.labels, scan.jumps)
      /\ scan \in ScanRecs
  BY <1>1, ScanState
<1>3. /\ HeadFits(T[scan.ip + 1], scan.labels, d)
      /\ TableFits(T, Len(Code), Code, scan.ip + 1, scan.labels, scan.jumps)
  BY <1>1, <1>2, MovesFits
<1>4. [scan EXCEPT !.depth = d] =
        [scan EXCEPT !.unreachable = scan.unreachable, !.depth = d]
  BY <1>2 DEF ScanRecs
<1>5. QED BY <1>1, <1>3, <1>4, HeightFits

LEMMA ScanJumpFits ==
  ASSUME ValInv, ScanFits, Body(func_idx), ScanJump PROVE ScanFits'
<1>1. Scanning /\ Instr.op \in {"unreachable", "br", "br_table", "return"}
  BY DEF ScanJump, Accepting, At
<1>2. PICK T : T = Typing(func_idx)
  OBVIOUS
<1>3. /\ scan.ip \in Nat /\ Instr = Code[scan.ip + 1]
      /\ Formed(T[scan.ip], functions[func_idx].results) /\ T[scan.ip].ctrls # << >>
      /\ HeadFits(T[scan.ip], scan.labels, scan.depth)
      /\ TableFits(T, Len(Code), Code, scan.ip, scan.labels, scan.jumps)
      /\ Checks(T[scan.ip], T[scan.ip + 1], Instr, Signatures)
  BY <1>1, <1>2, ScanState
<1>4. PICK a : Dies(T[scan.ip], T[scan.ip + 1], a)
  BY <1>1, <1>3 DEF Checks
<1> DEFINE d == IF Instr.op = "br_table" THEN Popped(scan.depth, 1) ELSE scan.depth
<1>5. Advance([scan EXCEPT !.unreachable = TRUE, !.depth = d])
  BY DEF ScanJump
<1> HIDE DEF d
<1>6. /\ HeadFits(T[scan.ip + 1], scan.labels, d)
      /\ TableFits(T, Len(Code), Code, scan.ip + 1, scan.labels, scan.jumps)
  BY <1>1, <1>3, <1>4, DiesFits
<1>7. QED BY <1>1, <1>2, <1>5, <1>6, HeightFits

LEMMA ScanCallFits ==
  ASSUME ValInv, ScanFits, Body(func_idx), ScanCall PROVE ScanFits'
<1>1. Scanning /\ Instr.op = "call"
  BY DEF ScanCall, Accepting, At
<1> DEFINE f == Instr.func
           p == functions[f].params
           q == functions[f].results
           d == PoppedAll(scan.depth, p) + q
<1>2. Advance([scan EXCEPT !.depth = d])
  BY DEF ScanCall
<1>3. f \in DOMAIN Signatures /\ Moves(Typing(func_idx)[scan.ip],
        Typing(func_idx)[scan.ip + 1], Signatures[f].params, Signatures[f].results)
  BY <1>1, ScanState DEF Checks
<1>4. f \in DOMAIN functions /\ Signatures[f].params = p /\ Signatures[f].results = q
  BY <1>3 DEF Signatures
<1>5. p \in Nat /\ q \in Nat
  <2>1. functions[f] \in Functions
    BY <1>4, FunctionFields DEF ValInv
  <2>2. QED BY <2>1 DEF Functions
<1>6. scan.depth \in Nat /\ scan.depth >= p => d = scan.depth - p + q
  BY <1>5 DEF PoppedAll
<1> HIDE DEF f, p, q, d
<1>7. QED BY <1>1, <1>2, <1>3, <1>4, <1>5, <1>6, ScanMovesFits

LEMMA ScanCallIndirectFits ==
  ASSUME ValInv, ScanFits, Body(func_idx), ScanCallIndirect PROVE ScanFits'
<1>1. Scanning /\ Instr.op = "call_indirect"
  BY DEF ScanCallIndirect, Accepting, At
<1> DEFINE p == Instr.params
           q == Instr.results
           d == PoppedAll(Popped(scan.depth, 1), p) + q
<1>2. Advance([scan EXCEPT !.depth = d])
  BY DEF ScanCallIndirect
<1>3. Moves(Typing(func_idx)[scan.ip], Typing(func_idx)[scan.ip + 1], p + 1, q)
  BY <1>1, ScanState DEF Checks
<1>4. p \in Nat /\ q \in Nat
  BY <1>1, ScanState, InstructionTypes
<1>5. scan.depth \in Nat /\ scan.depth >= p + 1 => d = scan.depth - (p + 1) + q
  BY <1>4 DEF PoppedAll, Popped
<1>6. p + 1 \in Nat
  BY <1>4
<1> HIDE DEF p, q, d
<1>7. QED BY <1>1, <1>2, <1>3, <1>4, <1>5, <1>6, ScanMovesFits

\* What the validator counts of an opcode is never more than what it takes,
\* and the difference is the same.
LEMMA EffectOperands ==
  ASSUME NEW op \in DOMAIN Operands \ {"br_if"}
  PROVE  /\ op \in DOMAIN Effect
         /\ Operands[op][1] \in Nat /\ Operands[op][2] \in Nat
         /\ Effect[op][1] \in Nat /\ Effect[op][2] \in Nat
         /\ Operands[op][1] <= Effect[op][1]
         /\ Operands[op][2] - Operands[op][1] = Effect[op][2] - Effect[op][1]
<1>1. DOMAIN Operands = {"nop", "const", "unary", "binary", "drop", "select",
                         "store", "local_get", "local_set", "local_tee", "br_if"}
  BY DEF Operands
<1>2. QED BY <1>1, EffectOps DEF Operands, Effect

LEMMA ScanOperandsFits ==
  ASSUME ValInv, ScanFits, Body(func_idx), ScanOperands PROVE ScanFits'
<1>1. Scanning /\ Instr.op \in DOMAIN Operands
  BY DEF ScanOperands, Accepting, At
<1> DEFINE op == Instr.op
           x == Operands[op][1]
           y == Operands[op][2]
           d == Popped(scan.depth, x) + y
<1>2. Advance([scan EXCEPT !.depth = d])
  BY DEF ScanOperands
<1>3. PICK T : T = Typing(func_idx)
  OBVIOUS
<1>4. /\ Checks(T[scan.ip], T[scan.ip + 1], Instr, Signatures) /\ scan.ip \in Nat
      /\ Formed(T[scan.ip], functions[func_idx].results) /\ T[scan.ip].ctrls # << >>
      /\ Instr \in Instructions /\ scan.depth \in Int
  BY <1>1, <1>3, ScanState
<1>5. x \in Nat /\ y \in Nat
  BY <1>1, OperandCounts
<1>6. op \notin {"block", "if", "else"}
  BY <1>1 DEF Operands
<1>7. CASE op = "br_if"
  <2> DEFINE A == Arity(T[scan.ip], Instr.label)
  <2>1. LabelOk(T[scan.ip], Instr.label) /\ Moves(T[scan.ip], T[scan.ip + 1], A + 1, A)
    BY <1>4, <1>7 DEF Checks
  <2>2. Instr.label \in Nat /\ Upright(T[scan.ip])
    BY <1>4, <1>7, InstructionTypes DEF Formed
  <2>3. A \in Nat
    BY <2>1, <2>2, ArityNat
  <2>4. x = 1 /\ y = 0
    BY <1>7 DEF Operands
  <2> HIDE DEF A, x, y, op
  <2>5. scan.depth \in Nat /\ scan.depth >= A + 1 => d = scan.depth - (A + 1) + A
    BY <2>3, <2>4 DEF Popped
  <2>6. A + 1 \in Nat
    BY <2>3
  <2> HIDE DEF d
  <2>7. QED BY <1>1, <1>2, <1>3, <1>6, <2>1, <2>3, <2>5, <2>6, ScanMovesFits DEF op
<1>8. CASE op # "br_if"
  <2> DEFINE a == Effect[op][1]
             b == Effect[op][2]
  <2>1. op \in DOMAIN Effect /\ a \in Nat /\ b \in Nat /\ x <= a /\ y - x = b - a
    BY <1>1, <1>8, EffectOperands
  <2>2. Moves(T[scan.ip], T[scan.ip + 1], a, b)
    BY <1>4, <2>1 DEF Checks
  <2> HIDE DEF a, b, x, y, op
  <2>3. scan.depth \in Nat /\ scan.depth >= a => d = scan.depth - a + b
    BY <1>5, <2>1 DEF Popped
  <2> HIDE DEF d
  <2>4. QED BY <1>1, <1>2, <1>3, <1>6, <2>1, <2>2, <2>3, ScanMovesFits DEF op
<1>9. QED BY <1>7, <1>8

\* A block opens: the new label, and with it an entry unless it is a loop.
LEMMA OpensFits ==
  ASSUME ValInv, ScanFits, Body(func_idx), Scanning,
         NEW op \in {"block", "loop", "if"}, NEW a, NEW p, NEW q,
         a \in Nat, p \in Nat, q \in Nat, op = "if" => p = 0, op = Instr.op,
         Opens(Typing(func_idx)[scan.ip], Typing(func_idx)[scan.ip + 1], op, a, p, q),
         NEW l \in ValLabels, l.results = q,
         NEW jumps \in Seq(JumpEntries),
         \/ op = "loop" /\ l.jump = 0 /\ jumps = scan.jumps
         \/ /\ op # "loop" /\ l.jump = Len(scan.jumps) + 1
            /\ jumps = Append(scan.jumps, [body |-> scan.ip + 1, else |-> 0, end |-> 0]),
         NEW e, scan.depth \in Nat /\ scan.depth >= a =>
                  l.entry = scan.depth - a /\ e = scan.depth - a + p,
         NEW s, DOMAIN s = DOMAIN scan, s.ip = scan.ip, Advance(s),
         s.labels = Append(scan.labels, l), s.jumps = jumps, s.depth = e,
         s.max_labels = Larger(scan.max_labels, Len(scan.labels) + 1),
         s.max_depth = scan.max_depth
  PROVE  ScanFits'
<1>1. /\ scan'.ip = scan.ip + 1 /\ scan'.labels = s.labels /\ scan'.jumps = s.jumps
      /\ scan'.depth = s.depth /\ scan'.max_labels = s.max_labels
      /\ scan'.max_depth = Larger(scan.max_depth, scan.depth)
      /\ UNCHANGED <<functions, func_idx, phase>>
  BY AdvanceFields
<1>2. PICK T : T = Typing(func_idx)
  OBVIOUS
<1> DEFINE r == T[scan.ip + 1]
<1>3. /\ scan.ip \in Nat /\ scan.ip < Len(Code) /\ Len(Code) \in Nat
      /\ scan.labels \in Seq(ValLabels) /\ scan.jumps \in Seq(JumpEntries)
      /\ Instr = Code[scan.ip + 1] /\ scan.max_labels \in Nat
      /\ Formed(T[scan.ip], functions[func_idx].results) /\ T[scan.ip].ctrls # << >>
      /\ HeadFits(T[scan.ip], scan.labels, scan.depth)
      /\ TableFits(T, Len(Code), Code, scan.ip, scan.labels, scan.jumps)
  BY <1>2, ScanState
<1>4. Opens(T[scan.ip], r, op, a, p, q)
  BY <1>2
<1>5. /\ Formed(r, functions[func_idx].results)
      /\ Len(r.ctrls) = Len(T[scan.ip].ctrls) + 1
      /\ Agree(T[scan.ip], r, Len(T[scan.ip].ctrls))
      /\ InnerCtrl(r) = Ctrl(op, InnerCtrl(r).height, p, q)
  <2> DEFINE t == T[scan.ip]
             results == functions[func_idx].results
  <2>1. Formed(t, results) /\ t.ctrls # << >> /\ Opens(t, r, op, a, p, q)
    BY <1>3, <1>4
  <2> HIDE DEF t, results, r
  <2>2. /\ Formed(r, results) /\ Len(r.ctrls) = Len(t.ctrls) + 1
        /\ Agree(t, r, Len(t.ctrls)) /\ InnerCtrl(r) = Ctrl(op, InnerCtrl(r).height, p, q)
    BY <2>1, OpensFormed
  <2>3. QED BY <2>2 DEF t, results
<1>6. HeadFits(r, Append(scan.labels, l), e)
  <2> DEFINE t == T[scan.ip]
             results == functions[func_idx].results
             labels == scan.labels
             d == scan.depth
  <2>1. /\ Formed(t, results) /\ t.ctrls # << >> /\ Opens(t, r, op, a, p, q)
        /\ labels \in Seq(ValLabels) /\ HeadFits(t, labels, d)
        /\ d \in Nat /\ d >= a => l.entry = d - a /\ e = d - a + p
    BY <1>3, <1>4
  <2> HIDE DEF t, results, labels, d, r
  <2>2. /\ p \in Nat /\ q \in Nat /\ a \in Nat /\ l \in ValLabels /\ l.results = q
        /\ op \in {"block", "loop", "if"} /\ (op = "if" => p = 0)
    OBVIOUS
  <2>3. HeadFits(r, Append(labels, l), e)
    BY ONLY <2>1, <2>2, OpensHead
  <2>4. QED BY <2>3 DEF labels
<1>7. T[scan.ip] \in States /\ r \in States /\ InnerCtrl(r).op = op
  <2>1. T[scan.ip] \in States /\ r \in States
    BY <1>3, <1>5 DEF Formed
  <2>2. Ctrl(op, InnerCtrl(r).height, p, q).op = op
    BY DEF Ctrl
  <2>3. QED BY <1>5, <2>1, <2>2
<1>o. Code[scan.ip + 1].op # "else"
  BY <1>3
<1>8. \/ l.jump = 0 /\ jumps = scan.jumps /\ Code[scan.ip + 1].op \notin {"block", "if"}
      \/ /\ l.jump = Len(scan.jumps) + 1 /\ InnerCtrl(r).op \in {"block", "if"}
         /\ jumps = Append(scan.jumps, [body |-> scan.ip + 1, else |-> 0, end |-> 0])
  BY <1>3, <1>7
<1>9. TableFits(T, Len(Code), Code, scan.ip + 1, Append(scan.labels, l), jumps)
  <2> DEFINE N == Len(Code)
             code == Code
             n == scan.ip
             labels == scan.labels
             old == scan.jumps
  <2>1. /\ N \in Nat /\ n \in Nat /\ n < N /\ labels \in Seq(ValLabels)
        /\ old \in Seq(JumpEntries) /\ TableFits(T, N, code, n, labels, old)
        /\ T[n] \in States /\ T[n].ctrls # << >> /\ r = T[n + 1] /\ r \in States
        /\ Len(r.ctrls) = Len(T[n].ctrls) + 1 /\ Agree(T[n], r, Len(T[n].ctrls))
        /\ \/ l.jump = 0 /\ jumps = old /\ code[n + 1].op \notin {"block", "if"}
           \/ /\ l.jump = Len(old) + 1 /\ InnerCtrl(r).op \in {"block", "if"}
              /\ jumps = Append(old, [body |-> n + 1, else |-> 0, end |-> 0])
        /\ code[n + 1].op # "else"
    BY <1>3, <1>5, <1>7, <1>8, <1>o
  <2> HIDE DEF N, code, n, labels, old, r
  <2>2. TableFits(T, N, code, n + 1, Append(labels, l), jumps)
    BY <2>1, OpensTable
  <2>3. QED BY <2>2 DEF N, code, n, labels, old
<1>10. /\ Len(s.labels) = Len(scan.labels) + 1 /\ Len(scan.labels) \in Nat
       /\ s.max_labels \in Nat /\ scan.max_labels <= s.max_labels
       /\ Len(s.labels) <= s.max_labels
  <2>1. Len(s.labels) = Len(scan.labels) + 1 /\ Len(scan.labels) \in Nat
    BY <1>3
  <2>2. QED BY <1>3, <2>1 DEF Larger
<1>11. QED BY <1>1, <1>2, <1>6, <1>9, <1>10, AdvanceFits

LEMMA ScanBlockFits ==
  ASSUME ValInv, ScanFits, Body(func_idx), ScanBlock PROVE ScanFits'
<1>1. Scanning /\ Instr.op \in BlockOps
  BY DEF ScanBlock, Accepting, At
<1>2. Instr.op \in {"block", "loop", "if"} /\ Instr.op # "if"
  BY <1>1 DEF BlockOps
<1>3. Instr.params \in Nat /\ Instr.results \in Nat /\ scan \in ScanRecs /\ scan.depth \in Int
      /\ scan.labels \in Seq(ValLabels) /\ scan.jumps \in Seq(JumpEntries) /\ scan.ip \in Nat
  BY <1>1, ScanState, InstructionTypes DEF BlockOps
<1>4. PICK entry, l, j :
        /\ entry = PoppedAll(scan.depth, Instr.params)
        /\ l = [entry |-> entry, results |-> Instr.results, jump |-> j]
        /\ \/ Instr.op = "loop" /\ j = 0 /\ Advance(PushLabel(scan, l))
           \/ /\ Instr.op = "block" /\ j = Len(scan.jumps) + 1
              /\ Advance(PushLabel(OpenJump(scan), l))
  BY DEF ScanBlock
<1>5. entry \in Int /\ j \in Nat
  <2>1. PoppedAll(scan.depth, Instr.params) \in Int
    BY <1>3, PoppedInt
  <2>2. Len(scan.jumps) \in Nat
    BY <1>3
  <2>3. QED BY <1>4, <2>1, <2>2
<1>6. /\ l \in ValLabels /\ l.entry = entry /\ l.results = Instr.results /\ l.jump = j
  BY <1>3, <1>4, <1>5 DEF ValLabels
<1>7. /\ Opens(Typing(func_idx)[scan.ip], Typing(func_idx)[scan.ip + 1], Instr.op,
               Instr.params, Instr.params, Instr.results)
  BY <1>1, ScanState DEF Checks
<1>8. scan.depth \in Nat /\ scan.depth >= Instr.params =>
        /\ l.entry = scan.depth - Instr.params
        /\ scan.depth = scan.depth - Instr.params + Instr.params
  BY <1>3, <1>4, <1>6 DEF PoppedAll
<1>9. CASE Instr.op = "loop" /\ j = 0 /\ Advance(PushLabel(scan, l))
  <2> DEFINE s == PushLabel(scan, l)
  <2>1. /\ DOMAIN s = DOMAIN scan /\ s.ip = scan.ip /\ s.labels = Append(scan.labels, l)
        /\ s.jumps = scan.jumps /\ s.depth = scan.depth /\ s.max_depth = scan.max_depth
        /\ s.max_labels = Larger(scan.max_labels, Len(scan.labels) + 1)
    BY <1>3 DEF PushLabel, ScanRecs
  <2>2. Advance(s)
    BY <1>9
  <2> HIDE DEF s
  <2>3. QED BY <1>1, <1>2, <1>3, <1>6, <1>7, <1>8, <1>9, <2>1, <2>2, OpensFits
<1>10. CASE /\ Instr.op = "block" /\ j = Len(scan.jumps) + 1
            /\ Advance(PushLabel(OpenJump(scan), l))
  <2> DEFINE e == [body |-> scan.ip + 1, else |-> 0, end |-> 0]
             jumps == Append(scan.jumps, e)
             s == PushLabel(OpenJump(scan), l)
  <2>1. /\ DOMAIN s = DOMAIN scan /\ s.ip = scan.ip /\ s.labels = Append(scan.labels, l)
        /\ s.jumps = jumps /\ s.depth = scan.depth /\ s.max_depth = scan.max_depth
        /\ s.max_labels = Larger(scan.max_labels, Len(scan.labels) + 1)
    BY <1>3 DEF PushLabel, OpenJump, ScanRecs
  <2>2. Advance(s)
    BY <1>10
  <2>3. e \in JumpEntries
    BY <1>3 DEF JumpEntries
  <2>4. jumps \in Seq(JumpEntries)
    BY <1>3, <2>3
  <2> HIDE DEF s
  <2>5. QED BY <1>1, <1>2, <1>3, <1>6, <1>7, <1>8, <1>10, <2>1, <2>2, <2>4, OpensFits
<1>11. QED BY <1>4, <1>9, <1>10

LEMMA ScanIfFits ==
  ASSUME ValInv, ScanFits, Body(func_idx), ScanIf PROVE ScanFits'
<1>1. Scanning /\ Instr.op = "if"
  BY DEF ScanIf, Accepting, At
<1>2. Instr.results \in Nat /\ scan \in ScanRecs /\ scan.depth \in Int /\ scan.ip \in Nat
      /\ scan.labels \in Seq(ValLabels) /\ scan.jumps \in Seq(JumpEntries)
  BY <1>1, ScanState, InstructionTypes
<1> DEFINE e == Popped(scan.depth, 1)
           d == [scan EXCEPT !.depth = e]
           l == [entry |-> d.depth, results |-> Instr.results, jump |-> Len(d.jumps) + 1]
           s == PushLabel(OpenJump(d), l)
           jumps == Append(scan.jumps, [body |-> scan.ip + 1, else |-> 0, end |-> 0])
<1>3. Advance(s)
  BY DEF ScanIf
<1>4. e \in Int /\ (scan.depth \in Nat /\ scan.depth >= 1 => e = scan.depth - 1)
      /\ 0 \in Nat /\ 1 \in Nat
  BY <1>2 DEF Popped
<1> HIDE DEF e
<1>5. d \in ScanRecs /\ d.depth = e /\ d.jumps = scan.jumps /\ d.labels = scan.labels
      /\ d.ip = scan.ip /\ d.max_labels = scan.max_labels /\ d.max_depth = scan.max_depth
      /\ DOMAIN d = DOMAIN scan
  BY <1>2, <1>4 DEF ScanRecs
<1> HIDE DEF d
<1>6. l \in ValLabels /\ l.entry = e /\ l.results = Instr.results
      /\ l.jump = Len(scan.jumps) + 1
  BY <1>2, <1>4, <1>5 DEF ValLabels
<1> HIDE DEF l
<1>7. [body |-> scan.ip + 1, else |-> 0, end |-> 0] \in JumpEntries
  BY <1>2 DEF JumpEntries
<1>8. jumps \in Seq(JumpEntries)
  BY <1>2, <1>7
<1>9. /\ DOMAIN s = DOMAIN scan /\ s.ip = scan.ip /\ s.labels = Append(scan.labels, l)
      /\ s.jumps = jumps /\ s.depth = e /\ s.max_depth = scan.max_depth
      /\ s.max_labels = Larger(scan.max_labels, Len(scan.labels) + 1)
  BY <1>5 DEF PushLabel, OpenJump, ScanRecs
<1>10. Opens(Typing(func_idx)[scan.ip], Typing(func_idx)[scan.ip + 1], "if", 1, 0,
             Instr.results)
  BY <1>1, ScanState DEF Checks
<1>11. scan.depth \in Nat /\ scan.depth >= 1 =>
         l.entry = scan.depth - 1 /\ e = scan.depth - 1 + 0
  BY <1>2, <1>4, <1>6
<1> HIDE DEF s
<1>12. QED BY <1>1, <1>2, <1>3, <1>4, <1>6, <1>8, <1>9, <1>10, <1>11, OpensFits

\* What else and end write into the entry of the innermost block.
LEMMA SetJumpTo ==
  ASSUME ValInv, ScanFits, Body(func_idx), Scanning, NEW field
  PROVE  /\ LastLabel = scan.labels[Len(scan.labels)] /\ LastLabel \in ValLabels
         /\ SetTo(scan.jumps, SetJump(field), LastLabel.jump, field, scan.ip + 1)
<1>1. /\ scan.labels \in Seq(ValLabels) /\ scan.jumps \in Seq(JumpEntries)
      /\ scan.labels # << >>
      /\ TableFits(Typing(func_idx), Len(Code), Code, scan.ip, scan.labels, scan.jumps)
  BY ScanState
<1>2. LastLabel = scan.labels[Len(scan.labels)] /\ Len(scan.labels) \in 1..Len(scan.labels)
      /\ LastLabel \in ValLabels
  BY <1>1 DEF LastLabel
<1>3. LastLabel.jump # 0 => LastLabel.jump \in 1..Len(scan.jumps)
  BY <1>1, <1>2 DEF TableFits
<1>4. CASE LastLabel.jump = 0
  BY <1>2, <1>4 DEF SetTo, SetJump
<1>5. CASE LastLabel.jump # 0
  BY <1>2, <1>3, <1>5 DEF SetTo, SetJump
<1>6. QED BY <1>4, <1>5

LEMMA ScanElseFits ==
  ASSUME ValInv, ScanFits, Body(func_idx), ScanElse PROVE ScanFits'
<1>1. Scanning /\ Instr.op = "else"
  BY DEF ScanElse, Accepting, At
<1>2. PICK T : T = Typing(func_idx)
  OBVIOUS
<1>3. /\ scan.ip \in Nat /\ scan.ip < Len(Code) /\ Len(Code) \in Nat
      /\ scan.labels \in Seq(ValLabels) /\ scan.jumps \in Seq(JumpEntries)
      /\ scan.labels # << >> /\ scan \in ScanRecs /\ Instr = Code[scan.ip + 1]
      /\ Formed(T[scan.ip], functions[func_idx].results) /\ T[scan.ip].ctrls # << >>
      /\ HeadFits(T[scan.ip], scan.labels, scan.depth)
      /\ TableFits(T, Len(Code), Code, scan.ip, scan.labels, scan.jumps)
      /\ Checks(T[scan.ip], T[scan.ip + 1], Instr, Signatures)
  BY <1>1, <1>2, ScanState
<1>4. /\ LastLabel = scan.labels[Len(scan.labels)]
      /\ SetTo(scan.jumps, SetJump("else"), LastLabel.jump, "else", scan.ip + 1)
  BY <1>1, SetJumpTo
<1> DEFINE N == Len(Code)
           code == Code
           n == scan.ip
           t == T[n]
           r == T[n + 1]
           results == functions[func_idx].results
           labels == scan.labels
           jumps == scan.jumps
           jumps2 == SetJump("else")
           d == scan.depth
           e == LastLabel.entry
           s == [scan EXCEPT !.depth = e, !.jumps = jumps2, !.unreachable = FALSE]
<1>5. Turns(t, r) /\ code[n + 1].op = "else"
  BY <1>1, <1>3 DEF Checks
<1>6. /\ N \in Nat /\ n \in Nat /\ n < N /\ labels \in Seq(ValLabels)
      /\ jumps \in Seq(JumpEntries) /\ TableFits(T, N, code, n, labels, jumps)
      /\ Formed(t, results) /\ t.ctrls # << >> /\ t = T[n] /\ r = T[n + 1]
      /\ SetTo(jumps, jumps2, labels[Len(labels)].jump, "else", n + 1)
      /\ HeadFits(t, labels, d) /\ e = labels[Len(labels)].entry
  BY <1>3, <1>4
<1>7. /\ DOMAIN s = DOMAIN scan /\ s.ip = scan.ip /\ s.max_labels = scan.max_labels
      /\ s.max_depth = scan.max_depth /\ s.labels = labels /\ s.jumps = jumps2 /\ s.depth = e
  BY <1>3 DEF ScanRecs
<1>8. Advance(s)
  BY <1>3 DEF ScanElse
<1> HIDE DEF N, code, n, t, r, results, labels, jumps, jumps2, d, e, s
<1>9. HeadFits(r, labels, e)
  BY <1>5, <1>6, TurnsHead
<1>10. TableFits(T, N, code, n + 1, labels, jumps2)
  BY <1>5, <1>6, TurnsTable
<1>11. Len(s.labels) \in Nat /\ Len(s.labels) <= Len(scan.labels)
  BY <1>3, <1>7 DEF labels
<1>12. /\ HeadFits(Typing(func_idx)[scan.ip + 1], s.labels, s.depth)
       /\ TableFits(Typing(func_idx), Len(Code), Code, scan.ip + 1, s.labels, s.jumps)
  BY <1>2, <1>7, <1>9, <1>10 DEF N, code, n, r
<1>13. QED BY <1>1, <1>7, <1>8, <1>11, <1>12, ShrinkFits

LEMMA ScanEndFits ==
  ASSUME ValInv, ScanFits, Body(func_idx), ScanEnd PROVE ScanFits'
<1>1. Scanning /\ Instr.op = "end"
  BY DEF ScanEnd, Accepting, At
<1>2. PICK T : T = Typing(func_idx)
  OBVIOUS
<1>3. /\ scan.ip \in Nat /\ scan.ip < Len(Code) /\ Len(Code) \in Nat
      /\ scan.labels \in Seq(ValLabels) /\ scan.jumps \in Seq(JumpEntries)
      /\ scan.labels # << >> /\ scan \in ScanRecs /\ Instr = Code[scan.ip + 1]
      /\ Formed(T[scan.ip], functions[func_idx].results) /\ T[scan.ip].ctrls # << >>
      /\ HeadFits(T[scan.ip], scan.labels, scan.depth)
      /\ TableFits(T, Len(Code), Code, scan.ip, scan.labels, scan.jumps)
      /\ Checks(T[scan.ip], T[scan.ip + 1], Instr, Signatures)
  BY <1>1, <1>2, ScanState
<1>4. /\ LastLabel = scan.labels[Len(scan.labels)]
      /\ SetTo(scan.jumps, SetJump("end"), LastLabel.jump, "end", scan.ip + 1)
  BY <1>1, SetJumpTo
<1> DEFINE N == Len(Code)
           code == Code
           n == scan.ip
           t == T[n]
           r == T[n + 1]
           results == functions[func_idx].results
           labels == scan.labels
           outer == SubSeq(scan.labels, 1, Len(scan.labels) - 1)
           jumps == scan.jumps
           jumps2 == SetJump("end")
           d == scan.depth
           l == LastLabel
           e == l.entry + l.results
           s == [scan EXCEPT !.labels = outer, !.depth = e, !.jumps = jumps2,
                             !.unreachable = FALSE]
<1>5. Closes(t, r) /\ code[n + 1].op = "end"
  BY <1>1, <1>3 DEF Checks
<1>6. /\ N \in Nat /\ n \in Nat /\ n < N /\ labels \in Seq(ValLabels)
      /\ jumps \in Seq(JumpEntries) /\ TableFits(T, N, code, n, labels, jumps)
      /\ Formed(t, results) /\ t.ctrls # << >> /\ t = T[n] /\ r = T[n + 1]
      /\ SetTo(jumps, jumps2, labels[Len(labels)].jump, "end", n + 1)
      /\ HeadFits(t, labels, d) /\ l = labels[Len(labels)]
      /\ outer = SubSeq(labels, 1, Len(labels) - 1)
  BY <1>3, <1>4
<1>7. /\ DOMAIN s = DOMAIN scan /\ s.ip = scan.ip /\ s.max_labels = scan.max_labels
      /\ s.max_depth = scan.max_depth /\ s.labels = outer /\ s.jumps = jumps2 /\ s.depth = e
  BY <1>3 DEF ScanRecs
<1>8. Advance(s)
  BY <1>3 DEF ScanEnd
<1>9. Len(outer) \in Nat /\ Len(outer) <= Len(scan.labels)
  BY <1>3
<1> HIDE DEF N, code, n, t, r, results, labels, outer, jumps, jumps2, d, l, s
<1>10. HeadFits(r, outer, l.entry + l.results)
  BY <1>5, <1>6, ClosesHead
<1>11. TableFits(T, N, code, n + 1, outer, jumps2)
  BY <1>5, <1>6, ClosesTable
<1>12. /\ HeadFits(Typing(func_idx)[scan.ip + 1], s.labels, s.depth)
       /\ TableFits(Typing(func_idx), Len(Code), Code, scan.ip + 1, s.labels, s.jumps)
  BY <1>2, <1>7, <1>10, <1>11 DEF N, code, n, r
<1>13. Len(s.labels) \in Nat /\ Len(s.labels) <= Len(scan.labels)
  BY <1>7, <1>9
<1>14. QED BY <1>1, <1>7, <1>8, <1>12, <1>13, ShrinkFits

\* Only what the validation computes changes in the functions.
SameShape ==
  /\ SameCode
  /\ \A f \in DOMAIN functions : functions'[f].results = functions[f].results

LEMMA ShapeKept ==
  ASSUME SameShape
  PROVE  /\ Signatures' = Signatures /\ Locals' = Locals
         /\ \A f \in DOMAIN functions :
              /\ Typing(f)' = Typing(f) /\ TotalLocals(functions[f])' = TotalLocals(functions[f])
              /\ functions[f].code' = functions[f].code
              /\ functions[f].results' = functions[f].results
<1>1. Signatures' = Signatures
  BY DEF SameShape, SameCode, Signatures
<1>2. Locals' = Locals
  BY DEF SameShape, SameCode, Locals
<1>3. \A f \in DOMAIN functions : Typing(f)' = Typing(f)
  BY <1>1 DEF SameShape, SameCode, Typing
<1>4. \A f \in DOMAIN functions :
        /\ TotalLocals(functions[f])' = TotalLocals(functions[f])
        /\ functions[f].code' = functions[f].code
        /\ functions[f].results' = functions[f].results
  BY DEF SameShape, SameCode, TotalLocals
<1>5. QED BY <1>1, <1>2, <1>3, <1>4

LEMMA ModuleKept ==
  ASSUME SameShape
  PROVE  /\ ValidModule => ValidModule'
         /\ FirstFrameFits => FirstFrameFits'
         /\ \A f \in DOMAIN functions : Body(f) => Body(f)'
<1>1. Locals \subseteq DOMAIN functions
  BY DEF Locals
<1>2. \A f \in DOMAIN functions : WellTyped(f) => WellTyped(f)'
  BY ShapeKept DEF WellTyped
<1>3. ValidModule => ValidModule'
  BY <1>1, <1>2, ShapeKept DEF ValidModule
<1>4. FirstFrameFits => FirstFrameFits'
  BY <1>1, ShapeKept DEF FirstFrameFits
<1>5. \A f \in DOMAIN functions : Body(f) => Body(f)'
  BY ShapeKept DEF Body
<1>6. QED BY <1>3, <1>4, <1>5

\* What the interpreter relies on in a function that was validated.
CertifiedBy(T, code, max_labels, max_depth, jumps) ==
  /\ HeightsFit(T, Len(code), max_labels, max_depth)
  /\ \A j \in 1..Len(jumps) : EntryFits(T, Len(code), jumps[j]) /\ jumps[j].end # 0
  /\ \A j \in 1..Len(jumps) : Spans(T, code, jumps[j], jumps[j].end - 1)
  /\ Covered(code, Len(code), jumps)

Certified(f) ==
  CertifiedBy(Typing(f), functions[f].code, functions[f].max_label_depth,
              functions[f].max_stack_depth, functions[f].block_jump_table)

Certificates == \A f \in Locals : f < func_idx => Certified(f)

LEMMA BeginBodyFits ==
  ASSUME ValInv, Body(func_idx), phase' = "scan",
         UNCHANGED <<functions, func_idx>>, NEW p, NEW b,
         scan' = [NoScan EXCEPT !.labels = <<FirstLabel(functions[func_idx])>>,
                                !.max_labels = 1, !.pre_max = p, !.pre_blocks = b]
  PROVE  ScanFits'
<1>1. Typing(func_idx)' = Typing(func_idx) /\ Code' = Code
  BY DEF Typing, Signatures, Code
<1>2. PICK T : T = Typing(func_idx)
  OBVIOUS
<1> DEFINE results == functions[func_idx].results
           s == T[0]
           labels == <<FirstLabel(functions[func_idx])>>
<1>3. s = Entered(results)
  BY <1>2 DEF Body
<1>4. /\ s.h = 0 /\ Len(s.ctrls) = 1 /\ s.ctrls[1].results = results /\ s.ctrls[1].height = 0
  BY <1>3 DEF Entered, Ctrl
<1>5. /\ scan'.ip = 0 /\ scan'.labels = labels /\ scan'.depth = 0 /\ scan'.jumps = << >>
      /\ scan'.max_labels = 1 /\ scan'.max_depth = 0
  BY DEF NoScan
<1>6. Len(labels) = 1 /\ labels[1].results = results /\ labels[1].entry = 0
      /\ labels[1].jump = 0
  BY DEF FirstLabel
<1> HIDE DEF s, labels, results
<1>7. HeadFits(s, labels, 0)
  BY <1>4, <1>6 DEF HeadFits
<1>8. TableFits(T, Len(Code), Code, 0, labels, << >>)
  <2>1. Len(<< >>) = 0
    OBVIOUS
  <2>2. Covered(Code, 0, << >>)
    BY DEF Covered
  <2>3. TableSpans(T, Code, 0, << >>)
    BY <2>1 DEF TableSpans
  <2>4. QED BY <1>4, <1>6, <2>1, <2>2, <2>3 DEF TableFits, s
<1>9. HeightsFit(T, 0, 1, 0)
  <2>1. \A m \in 0..0 : m = 0 /\ ~(m < 0) /\ T[m] = s
    BY DEF s
  <2>2. \A m \in 0..0 : Len(T[m].ctrls) <= 1
    <3> SUFFICES ASSUME NEW m \in 0..0 PROVE Len(T[m].ctrls) <= 1
      OBVIOUS
    <3>1. T[m] = s
      BY <2>1
    <3>2. Len(T[m].ctrls) = 1
      BY <1>4, <3>1
    <3>3. QED BY <3>2
  <2>3. QED BY <2>1, <2>2 DEF HeightsFit
<1>10. Fits(T, Code, scan')
  BY <1>5, <1>7, <1>8, <1>9 DEF Fits, s
<1>11. QED BY <1>1, <1>2, <1>10 DEF ScanFits

\* At the end of a valid body nothing is open, so every entry is complete.
LEMMA ScanCertifies ==
  ASSUME ValInv, ScanFits, Body(func_idx), phase = "scan", scan.ip = Len(Code)
  PROVE  CertifiedBy(Typing(func_idx), Code, scan.max_labels,
                     Larger(scan.max_depth, scan.depth), scan.jumps)
<1>1. PICK T : T = Typing(func_idx)
  OBVIOUS
<1>2. /\ HeadFits(T[scan.ip], scan.labels, scan.depth)
      /\ TableFits(T, Len(Code), Code, scan.ip, scan.labels, scan.jumps)
      /\ HeightsFit(T, scan.ip, scan.max_labels, scan.max_depth)
  BY <1>1 DEF ScanFits, Fits
<1>3. scan \in ScanRecs
  BY DEF ValInv, ValidatorTypeOK, ScanRecs
<1>4. scan.max_depth \in Int /\ scan.depth \in Int
  BY <1>3 DEF ScanRecs
<1>5. /\ Len(Code) \in Nat /\ T[Len(Code)].ctrls = << >>
      /\ \A m \in 0..Len(Code) : T[m].h \in Nat
  <2>1. /\ Len(Code) \in Nat
        /\ \A n \in 0..Len(Code) : T[n].ctrls = << >> <=> n = Len(Code)
        /\ \A n \in 0..Len(Code) : Formed(T[n], functions[func_idx].results)
    BY <1>1 DEF Body, Code
  <2>2. \A m \in 0..Len(Code) : T[m].h \in Nat
    BY <2>1 DEF Formed, States
  <2>3. QED BY <2>1, <2>2
<1>6. Len(scan.labels) = 0
  BY <1>2, <1>5 DEF HeadFits
<1>7. \A j \in 1..Len(scan.jumps) : scan.jumps[j].end # 0
  BY <1>2, <1>6 DEF TableFits
<1>8. \A m \in 0..Len(Code) : m < Len(Code) /\ Live(T[m]) =>
        T[m].h <= Larger(scan.max_depth, scan.depth)
  <2> SUFFICES ASSUME NEW m \in 0..Len(Code), m < Len(Code), Live(T[m])
               PROVE  T[m].h <= Larger(scan.max_depth, scan.depth)
    OBVIOUS
  <2>1. T[m].h <= scan.max_depth /\ T[m].h \in Nat
    BY <1>2, <1>5 DEF HeightsFit
  <2>2. QED BY <1>4, <2>1 DEF Larger
<1>9. \A j \in 1..Len(scan.jumps) :
        Spans(T, Code, scan.jumps[j], scan.jumps[j].end - 1)
  <2>1. TableSpans(T, Code, scan.ip, scan.jumps)
    BY <1>2 DEF TableFits
  <2>2. QED BY <1>7, <2>1 DEF TableSpans
<1>10. QED BY <1>1, <1>2, <1>7, <1>8, <1>9 DEF CertifiedBy, HeightsFit, TableFits

TypingInv == ValidModule /\ FirstFrameFits /\ ScanFits /\ Certificates

\* A body that is scanned is one of a function the module has.
LEMMA ScannedBody ==
  ASSUME ValInv, ValidModule, phase = "scan" \/ func_idx \in Locals
  PROVE  func_idx \in Locals /\ Body(func_idx)
<1>1. func_idx \in Locals
  BY DEF ValInv, Progress, Locals
<1>2. WellTyped(func_idx) /\ func_idx \in DOMAIN functions /\ ValidatorTypeOK
  BY <1>1 DEF ValidModule, Locals, ValInv
<1>3. QED BY <1>1, <1>2, ValidBody

LEMMA EndBodyCertifies ==
  ASSUME ValInv, TypingInv, EndBody PROVE TypingInv'
<1>1. phase = "scan" /\ scan.ip = Len(Code)
  BY DEF EndBody
<1>2. func_idx \in Locals /\ Body(func_idx) /\ ScanFits
  BY <1>1, ScannedBody DEF TypingInv
<1>3. functions \in Seq(Functions) /\ func_idx \in DOMAIN functions /\ scan \in ScanRecs
      /\ func_idx \in Nat
  BY <1>2 DEF ValInv, ValidatorTypeOK, Locals, ScanRecs
<1> DEFINE depth == Larger(scan.max_depth, scan.depth)
           f0 == functions[func_idx]
           g == [f0 EXCEPT !.max_label_depth = scan.max_labels,
                           !.max_stack_depth = depth]
           h == [g EXCEPT !.block_jump_table = scan.jumps]
<1>4. \/ Stop("kErrorValidationFailed")
      \/ /\ functions' = [functions EXCEPT ![func_idx] = h]
         /\ func_idx' = func_idx + 1 /\ phase' = "begin"
      \/ /\ functions' = [functions EXCEPT ![func_idx] = g]
         /\ phase' = "done" /\ UNCHANGED func_idx
  BY DEF EndBody
<1>5. CertifiedBy(Typing(func_idx), f0.code, scan.max_labels, depth, scan.jumps)
  BY <1>1, <1>2, ScanCertifies DEF Code
<1> HIDE DEF depth
<1>6. f0 \in Functions
  BY <1>3
<1>7. /\ h.max_label_depth = scan.max_labels /\ h.max_stack_depth = depth
      /\ h.block_jump_table = scan.jumps
      /\ \A e \in {g, h} : /\ e.kind = f0.kind /\ e.code = f0.code /\ e.params = f0.params
                           /\ e.local_count = f0.local_count /\ e.results = f0.results
  BY <1>6 DEF Functions
<1> HIDE DEF g, h
<1>8. CASE Stop("kErrorValidationFailed")
  <2>1. UNCHANGED <<functions, func_idx>> /\ phase' = "done"
    BY <1>8 DEF Stop
  <2>2. SameShape
    BY <2>1 DEF SameShape, SameCode
  <2>3. Certificates'
    BY <2>1 DEF TypingInv, Certificates, Certified, Locals, Typing, Signatures
  <2>4. QED BY <2>1, <2>2, <2>3, ModuleKept DEF TypingInv, ScanFits
<1>9. ASSUME NEW e \in {g, h}, functions' = [functions EXCEPT ![func_idx] = e],
             \/ e = h /\ func_idx' = func_idx + 1
             \/ e = g /\ func_idx' = func_idx,
             phase' # "scan"
      PROVE  TypingInv'
  <2>1. /\ DOMAIN functions' = DOMAIN functions
        /\ \A f \in DOMAIN functions :
             functions'[f] = IF f = func_idx THEN e ELSE functions[f]
    BY <1>3, <1>9
  <2>2. SameShape
    BY <1>7, <2>1 DEF SameShape, SameCode
  <2>3. Certificates'
    <3> SUFFICES ASSUME NEW f \in Locals, f < func_idx' PROVE Certified(f)'
      BY <2>2, ShapeKept DEF Certificates
    <3>1. f \in DOMAIN functions /\ f \in Nat
      BY <1>3 DEF Locals
    <3>2. Typing(f)' = Typing(f) /\ functions'[f].code = functions[f].code
      BY <2>2, <3>1, ShapeKept
    <3>3. CASE f = func_idx
      <4>1. e = h /\ functions'[f] = h
        BY <1>3, <1>9, <2>1, <3>1, <3>3
      <4>2. QED BY <1>5, <1>7, <3>2, <3>3, <4>1 DEF Certified
    <3>4. CASE f # func_idx
      <4>1. f < func_idx /\ functions'[f] = functions[f]
        BY <1>3, <1>9, <2>1, <3>1, <3>4
      <4>2. Certified(f)
        BY <4>1 DEF TypingInv, Certificates
      <4>3. QED BY <3>2, <4>1, <4>2 DEF Certified
    <3>5. QED BY <3>3, <3>4
  <2>4. QED BY <1>9, <2>2, <2>3, ModuleKept DEF TypingInv, ScanFits
<1>10. QED BY <1>4, <1>8, <1>9

\* The step leaves the functions and the certificates alone.
LEMMA TypingStays ==
  ASSUME ValInv, TypingInv, UNCHANGED functions, ScanFits',
         \A f \in Locals : f < func_idx' => f < func_idx
  PROVE  TypingInv'
<1>1. SameShape
  BY DEF SameShape, SameCode
<1>2. Locals' = Locals /\ \A f \in Locals : f \in DOMAIN functions /\ Typing(f)' = Typing(f)
  BY <1>1, ShapeKept DEF Locals
<1>3. Certificates'
  BY <1>2 DEF TypingInv, Certificates, Certified
<1>4. QED BY <1>1, <1>3, ModuleKept DEF TypingInv

LEMMA ValidatorFits ==
  ASSUME ValInv, TypingInv, ValidatorNext PROVE TypingInv'
<1>1. CASE SkipFunction
  <2>1. /\ UNCHANGED <<functions, phase>> /\ phase = "begin" /\ func_idx' = func_idx + 1
        /\ functions[func_idx].kind # "local" /\ functions \in Seq(Functions)
        /\ func_idx \in 1..(Len(functions) + 1)
    BY <1>1 DEF SkipFunction, ValInv, ValidatorTypeOK
  <2>2. \A f \in Locals : f < func_idx' => f < func_idx
    BY <2>1 DEF Locals
  <2>3. ScanFits'
    BY <2>1 DEF ScanFits
  <2>4. QED BY <2>1, <2>2, <2>3, TypingStays
<1>2. CASE AllValidated
  <2>1. UNCHANGED <<functions, func_idx>> /\ phase' = "done"
    BY <1>2 DEF AllValidated
  <2>2. QED BY <2>1, TypingStays DEF ScanFits
<1>3. CASE BeginBody
  <2>1. /\ UNCHANGED <<functions, func_idx>> /\ functions[func_idx].kind = "local"
        /\ func_idx <= Len(functions) /\ functions \in Seq(Functions)
        /\ func_idx \in 1..(Len(functions) + 1)
    BY <1>3 DEF BeginBody, Stop, ValInv, ValidatorTypeOK
  <2>2. func_idx \in Locals
    BY <2>1 DEF Locals
  <2>3. Body(func_idx)
    BY <2>2, ScannedBody DEF TypingInv
  <2>4. ScanFits'
    <3>1. CASE phase' = "done"
      BY <3>1 DEF ScanFits
    <3>2. CASE phase' # "done"
      <4>1. /\ phase' = "scan"
            /\ \E p, b : scan' = [NoScan EXCEPT !.labels = <<FirstLabel(functions[func_idx])>>,
                                    !.max_labels = 1, !.pre_max = p, !.pre_blocks = b]
        BY <1>3, <3>2 DEF BeginBody, Stop
      <4>2. QED BY <2>1, <2>3, <4>1, BeginBodyFits
    <3>3. QED BY <3>1, <3>2
  <2>5. QED BY <2>1, <2>4, TypingStays
<1>4. CASE RejectInstruction
  <2>1. UNCHANGED <<functions, func_idx>> /\ phase' = "done"
    BY <1>4 DEF RejectInstruction, Stop
  <2>2. QED BY <2>1, TypingStays DEF ScanFits
<1>5. CASE \/ ScanBlock \/ ScanIf \/ ScanElse \/ ScanEnd \/ ScanJump
           \/ ScanCall \/ ScanCallIndirect \/ ScanOperands
  <2>1. phase = "scan" /\ UNCHANGED <<functions, func_idx>>
    BY <1>5 DEF ScanBlock, ScanIf, ScanElse, ScanEnd, ScanJump, ScanCall, ScanCallIndirect,
       ScanOperands, Accepting, At, Scanning, Advance
  <2>2. Body(func_idx) /\ ScanFits
    BY <2>1, ScannedBody DEF TypingInv
  <2>3. ScanFits'
    BY <1>5, <2>2, ScanBlockFits, ScanIfFits, ScanElseFits, ScanEndFits, ScanJumpFits,
       ScanCallFits, ScanCallIndirectFits, ScanOperandsFits
  <2>4. QED BY <2>1, <2>3, TypingStays
<1>6. QED BY <1>1, <1>2, <1>3, <1>4, <1>5, EndBodyCertifies DEF ValidatorNext

\* The interpreter executes functions that were validated.
LEMMA ExecutedBody ==
  ASSUME ValInv, TypingInv, phase = "done", verdict = "kOk", NEW f \in Locals
  PROVE  f \in DOMAIN functions /\ Body(f) /\ Certified(f) /\ functions[f] \in Functions
<1>1. f \in DOMAIN functions /\ functions \in Seq(Functions) /\ func_idx = Len(functions) + 1
  BY DEF Locals, ValInv, ValidatorTypeOK, Progress
<1>2. f < func_idx
  BY <1>1
<1>3. QED BY <1>1, <1>2, ValidBody DEF TypingInv, Certificates, ValidModule, ValInv

-----------------------------------------------------------------------------
(* What the validator accepts *)

\* The blocks around the innermost one are live.
OuterLive(s) == LiveBelow(s, Len(s.ctrls))

LEMMA OuterStays ==
  ASSUME NEW results, NEW s, Formed(s, results), s.ctrls # << >>, OuterLive(s),
         NEW r, NEW i, NEW sigs, Checks(s, r, i, sigs), i.op \in AllOps,
         i.op \in BlockOps \union {"if"} => Live(s)
  PROVE  OuterLive(r)
<1> DEFINE N == Len(s.ctrls)
<1>1. N \in Nat \ {0}
  BY InnerFacts DEF Formed
<1>2. CASE \E n, m : Moves(s, r, n, m)
  BY <1>2 DEF Moves, OuterLive, LiveBelow
<1>3. CASE Turns(s, r) \/ \E n : Dies(s, r, n)
  <2>1. Len(r.ctrls) = N /\ Agree(s, r, N - 1)
    BY <1>3 DEF Turns, Dies
  <2> HIDE DEF N
  <2>2. N - 1 \in Nat /\ N \in 1..((N - 1) + 1)
    BY <1>1
  <2>3. LiveBelow(r, N) <=> LiveBelow(s, N)
    BY <2>1, <2>2, SameBelow
  <2>4. QED BY <2>1, <2>3 DEF OuterLive, N
<1>4. CASE i.op \in BlockOps \union {"if"}
  <2>1. i.op \in {"block", "loop", "if"}
    BY <1>4 DEF BlockOps
  <2>2. \E n, p, q : Opens(s, r, i.op, n, p, q) /\ (i.op = "if" => p = 0)
    BY <1>4 DEF Checks, BlockOps
  <2>3. Len(r.ctrls) = N + 1 /\ Agree(s, r, N)
    BY <2>1, <2>2, OpensFormed
  <2>4. \A j \in 1..N : ~s.ctrls[j].dead
    BY <1>4 DEF Live
  <2> HIDE DEF N
  <2>5. \A j \in 1..N : ~r.ctrls[j].dead
    BY <2>3, <2>4 DEF Agree
  <2>6. Len(r.ctrls) - 1 = N
    BY <1>1, <2>3
  <2>7. QED BY <2>5, <2>6 DEF OuterLive, LiveBelow
<1>5. CASE Closes(s, r)
  <2>1. Len(r.ctrls) = N - 1 /\ Agree(s, r, N - 1)
    BY <1>5, ClosesFormed
  <2>2. \A j \in 1..(N - 1) : ~s.ctrls[j].dead
    BY DEF OuterLive, LiveBelow
  <2> HIDE DEF N
  <2>3. \A j \in 1..(N - 1) : ~r.ctrls[j].dead
    BY <2>1, <2>2 DEF Agree
  <2>4. \A j \in 1..((N - 1) - 1) : j \in 1..(N - 1)
    BY <1>1
  <2>5. QED BY <2>1, <2>3, <2>4 DEF OuterLive, LiveBelow
<1>6. \/ i.op \in DOMAIN Effect \/ i.op \in BlockOps \union {"if"} \/ i.op = "else"
      \/ i.op = "end" \/ i.op = "br" \/ i.op = "br_if" \/ i.op = "br_table"
      \/ i.op = "return" \/ i.op = "unreachable" \/ i.op = "call" \/ i.op = "call_indirect"
  BY DEF AllOps
<1>7. QED BY <1>2, <1>3, <1>4, <1>5, <1>6 DEF Checks

\* As long as no block is opened behind a jump.
LEMMA BodyOuterLive ==
  ASSUME NEW f, Body(f), ~OpensDead(f), NEW N, N = Len(functions[f].code)
  PROVE  /\ \A n \in 0..N : OuterLive(Typing(f)[n])
         /\ \A n \in 0..N : n < N /\ functions[f].code[n + 1].op \in BlockOps \union {"if"}
              => Live(Typing(f)[n])
<1>1. PICK T, results, code : /\ T = Typing(f) /\ results = functions[f].results
                              /\ code = functions[f].code
  OBVIOUS
<1>2. /\ N \in Nat /\ T[0] = Entered(results)
      /\ \A n \in 0..N : Formed(T[n], results)
      /\ \A n \in 0..N : T[n].ctrls = << >> <=> n = N
      /\ \A n \in 0..N : n < N =>
           Checks(T[n], T[n + 1], code[n + 1], Signatures) /\ code[n + 1].op \in AllOps
  BY <1>1 DEF Body
<1>3. \A k \in 1..N : code[k].op \in BlockOps \union {"if"} => Live(T[k - 1])
  BY <1>1 DEF OpensDead
<1>4. ASSUME NEW n \in 1..N, OuterLive(T[n - 1]) PROVE OuterLive(T[n])
  <2>1. n - 1 \in 0..N /\ n - 1 < N /\ (n - 1) + 1 = n /\ n - 1 # N
    BY <1>2
  <2>2. /\ Formed(T[n - 1], results) /\ T[n - 1].ctrls # << >>
    BY <1>2, <2>1
  <2>3. Checks(T[n - 1], T[n], code[n], Signatures) /\ code[n].op \in AllOps
    BY <1>2, <2>1
  <2>4. QED BY <1>3, <1>4, <2>2, <2>3, OuterStays
<1>5. OuterLive(T[0])
  <2>1. Len(T[0].ctrls) = 1
    BY <1>2 DEF Entered
  <2>2. QED BY <2>1 DEF OuterLive, LiveBelow
<1> DEFINE Ones == {n \in 0..N : OuterLive(T[n])}
<1>6. 0 \in Ones /\ \A n \in 1..N : n - 1 \in Ones => n \in Ones
  BY <1>2, <1>4, <1>5
<1> HIDE DEF Ones
<1>7. \A n \in 0..N : n \in Ones
  BY <1>2, <1>6, Reached
<1>8. \A n \in 0..N : OuterLive(T[n])
  BY <1>7 DEF Ones
<1>9. \A n \in 0..N : n < N /\ code[n + 1].op \in BlockOps \union {"if"} => Live(T[n])
  <2> SUFFICES ASSUME NEW n \in 0..N, n < N, code[n + 1].op \in BlockOps \union {"if"}
               PROVE  Live(T[n])
    OBVIOUS
  <2>1. n + 1 \in 1..N /\ (n + 1) - 1 = n
    BY <1>2
  <2>2. QED BY <1>3, <2>1
<1>10. QED BY <1>1, <1>8, <1>9

LEMMA PreStepOk ==
  ASSUME NEW s \in PreRecs, NEW op, PreNext(s, op).ok
  PROVE  /\ s.ok
         /\ op \in BlockOps \union {"if"} => s.top < kWasmValidationMaxLabelDepth
<1>1. CASE op \in BlockOps \union {"if"}
  BY <1>1 DEF PreNext
<1>2. CASE op \notin BlockOps \union {"if"} /\ op = "end" /\ s.top > 1
  <2>1. PreNext(s, op) = [s EXCEPT !.top = s.top - 1]
    BY <1>2 DEF PreNext
  <2>2. QED BY <1>2, <2>1 DEF PreRecs
<1>3. CASE op \notin BlockOps \union {"if"} /\ ~(op = "end" /\ s.top > 1)
  BY <1>3 DEF PreNext
<1>4. QED BY <1>1, <1>2, <1>3

\* What an instruction of a valid body does to the number of open blocks.
LEMMA Nests ==
  ASSUME NEW results, NEW s, Formed(s, results), s.ctrls # << >>,
         NEW r, NEW i, NEW sigs, Checks(s, r, i, sigs), i.op \in AllOps
  PROVE  /\ Len(s.ctrls) \in Nat
         /\ Len(r.ctrls) = IF i.op \in BlockOps \union {"if"} THEN Len(s.ctrls) + 1
                           ELSE IF i.op = "end" THEN Len(s.ctrls) - 1 ELSE Len(s.ctrls)
<1>1. Len(s.ctrls) \in Nat
  BY InnerFacts DEF Formed
<1>2. CASE i.op \in BlockOps \union {"if"}
  <2>1. i.op \in {"block", "loop", "if"}
    BY <1>2 DEF BlockOps
  <2>2. \E n, p, q : Opens(s, r, i.op, n, p, q) /\ (i.op = "if" => p = 0)
    BY <1>2 DEF Checks, BlockOps
  <2>3. QED BY <1>1, <1>2, <2>1, <2>2, OpensFormed
<1>3. CASE i.op = "end"
  <2>1. Closes(s, r) /\ i.op \notin BlockOps \union {"if"}
    BY <1>3 DEF Checks, BlockOps
  <2>2. QED BY <1>1, <1>3, <2>1, ClosesFormed
<1>4. CASE i.op \notin BlockOps \union {"if", "end"}
  <2>1. \/ \E n, m : Moves(s, r, n, m)
        \/ \E n : Dies(s, r, n)
        \/ Turns(s, r)
    <3>1. \/ i.op \in DOMAIN Effect \/ i.op = "else"
          \/ i.op = "br" \/ i.op = "br_if" \/ i.op = "br_table"
          \/ i.op = "return" \/ i.op = "unreachable" \/ i.op = "call" \/ i.op = "call_indirect"
      BY <1>4 DEF AllOps
    <3>2. QED BY <3>1 DEF Checks
  <2>2. Len(r.ctrls) = Len(s.ctrls)
    BY <2>1 DEF Moves, Dies, Turns
  <2>3. QED BY <1>1, <1>4, <2>2
<1>5. QED BY <1>2, <1>3, <1>4

\* In a valid body the first pass counts the open blocks.
LEMMA PreNests ==
  ASSUME NEW f, Body(f), NEW code, code = functions[f].code, PreScan(code).ok,
         NEW n, n \in 0..Len(code), n < Len(code),
         code[n + 1].op \in BlockOps \union {"if"}
  PROVE  Len(Typing(f)[n].ctrls) < kWasmValidationMaxLabelDepth
<1>1. PICK T, results, N : /\ T = Typing(f) /\ results = functions[f].results
                           /\ N = Len(code)
  OBVIOUS
<1>2. /\ N \in Nat /\ T[0] = Entered(results)
      /\ \A m \in 0..N : Formed(T[m], results)
      /\ \A m \in 0..N : T[m].ctrls = << >> <=> m = N
      /\ \A m \in 0..N : m < N =>
           Checks(T[m], T[m + 1], code[m + 1], Signatures) /\ code[m + 1].op \in AllOps
  BY <1>1 DEF Body
<1>3. PICK step : /\ PreScan(code) = step[N] /\ step[0] = PreStart
                  /\ \A m \in 1..N : step[m] = PreNext(step[m - 1], code[m].op)
                  /\ \A m \in 0..N : step[m] \in PreRecs
  BY <1>1, <1>2, PreScanned
<1>4. \A m \in 0..N : step[m].ok
  <2> DEFINE Ok == {m \in 0..N : step[N - m].ok}
  <2>1. 0 \in Ok
    <3>1. N - 0 = N /\ 0 \in 0..N
      BY <1>2
    <3>2. QED BY <1>3, <3>1
  <2>2. ASSUME NEW m \in 1..N, m - 1 \in Ok PROVE m \in Ok
    <3>1. /\ N - m + 1 \in 1..N /\ N - m \in 0..N /\ N - (m - 1) = N - m + 1
          /\ (N - m + 1) - 1 = N - m
      BY <1>2
    <3>2. step[N - m + 1].ok
      BY <2>2, <3>1
    <3>3. step[N - m + 1] = PreNext(step[N - m], code[N - m + 1].op)
          /\ step[N - m] \in PreRecs
      BY <1>3, <3>1
    <3>4. step[N - m].ok
      BY <3>2, <3>3, PreStepOk
    <3>5. QED BY <1>2, <3>4
  <2>3. \A m \in 1..N : m - 1 \in Ok => m \in Ok
    BY <2>2
  <2> HIDE DEF Ok
  <2>4. \A m \in 0..N : m \in Ok
    BY <1>2, <2>1, <2>3, Reached
  <2>5. ASSUME NEW m \in 0..N PROVE step[m].ok
    <3>1. N - m \in 0..N /\ N - (N - m) = m
      BY <1>2
    <3>2. N - m \in Ok
      BY <2>4, <3>1
    <3>3. QED BY <3>1, <3>2 DEF Ok
  <2>6. QED BY <2>5
<1>5. \A m \in 0..N : m < N => step[m].top = Len(T[m].ctrls)
  <2> DEFINE Same(m) == m < N => step[m].top = Len(T[m].ctrls)
             Ones == {m \in 0..N : Same(m)}
  <2>1. Same(0)
    <3>1. Len(T[0].ctrls) = 1
      BY <1>2 DEF Entered
    <3>2. QED BY <1>3, <3>1 DEF PreStart
  <2>2. ASSUME NEW m \in 1..N, Same(m - 1) PROVE Same(m)
    <3> SUFFICES ASSUME m < N PROVE step[m].top = Len(T[m].ctrls)
      OBVIOUS
    <3>1. m - 1 \in 0..N /\ m - 1 < N /\ (m - 1) + 1 = m /\ m - 1 # N /\ m \in 0..N /\ m # N
      BY <1>2
    <3> DEFINE s == T[m - 1]
               r == T[m]
               p == step[m - 1]
               op == code[m].op
    <3>2. /\ Formed(s, results) /\ s.ctrls # << >> /\ r.ctrls # << >> /\ Formed(r, results)
          /\ Checks(s, r, code[m], Signatures) /\ code[m].op \in AllOps
      BY <1>2, <3>1
    <3>3. /\ Len(s.ctrls) \in Nat
          /\ Len(r.ctrls) = IF op \in BlockOps \union {"if"} THEN Len(s.ctrls) + 1
                            ELSE IF op = "end" THEN Len(s.ctrls) - 1 ELSE Len(s.ctrls)
      BY <3>2, Nests
    <3>4. p \in PreRecs /\ step[m] = PreNext(p, op) /\ p.top = Len(s.ctrls)
      BY <1>3, <2>2, <3>1
    <3>5. Len(r.ctrls) \in Nat \ {0}
      BY <3>2, InnerFacts DEF Formed
    <3> HIDE DEF s, r, p, op
    <3>6. CASE op \in BlockOps \union {"if"}
      BY <3>3, <3>4, <3>6, PreSteps DEF r
    <3>7. CASE op = "end"
      <4>1. op \notin BlockOps \union {"if"}
        BY <3>7 DEF BlockOps
      <4>s. Len(r.ctrls) = Len(s.ctrls) - 1
        BY <3>3, <3>7, <4>1
      <4> DEFINE x == Len(s.ctrls)
                 y == Len(r.ctrls)
      <4>n. x \in Nat /\ y \in Nat \ {0} /\ y = x - 1 /\ p.top = x
        BY <3>3, <3>4, <3>5, <4>s
      <4> HIDE DEF x, y
      <4>2. p.top > 1
        BY <4>n
      <4>3. PreNext(p, op).top = p.top - 1
        BY <3>4, <3>7, <4>2, PreSteps
      <4>4. QED BY <3>3, <3>4, <3>7, <4>1, <4>3 DEF r
    <3>8. CASE op \notin BlockOps \union {"if", "end"}
      BY <3>3, <3>4, <3>8, PreSteps DEF r
    <3>9. QED BY <3>6, <3>7, <3>8
  <2>3. 0 \in Ones /\ \A m \in 1..N : m - 1 \in Ones => m \in Ones
    BY <1>2, <2>1, <2>2
  <2> HIDE DEF Ones
  <2>4. \A m \in 0..N : m \in Ones
    BY <1>2, <2>3, Reached
  <2>5. QED BY <2>4 DEF Ones
<1>6. /\ n \in 0..N /\ n < N /\ n + 1 \in 1..N /\ n + 1 \in 0..N /\ (n + 1) - 1 = n
  BY <1>1, <1>2
<1>7. step[n + 1] = PreNext(step[n], code[n + 1].op) /\ step[n] \in PreRecs /\ step[n + 1].ok
  BY <1>3, <1>4, <1>6
<1>8. step[n].top < kWasmValidationMaxLabelDepth
  BY <1>7, PreStepOk
<1>9. QED BY <1>1, <1>5, <1>6, <1>8

\* unreachable is set behind a jump and cleared by else and end.
Marked(op, u) ==
  IF op \in {"unreachable", "br", "br_table", "return"} THEN TRUE
  ELSE IF op \in {"else", "end"} THEN FALSE ELSE u

\* It says whether the innermost block is dead.
Marks(s, u) == s.ctrls # << >> => (u <=> InnerCtrl(s).dead)

LEMMA MarksNext ==
  ASSUME NEW results, NEW s, Formed(s, results), s.ctrls # << >>, OuterLive(s),
         NEW r, NEW i, NEW sigs, Checks(s, r, i, sigs), i.op \in AllOps,
         i.op \in BlockOps \union {"if"} => Live(s),
         NEW u \in BOOLEAN, Marks(s, u)
  PROVE  Marks(r, Marked(i.op, u))
<1> DEFINE N == Len(s.ctrls)
<1>1. N \in Nat \ {0} /\ InnerCtrl(s) = s.ctrls[N] /\ s \in States /\ InnerCtrl(s) \in CtrlRecs
  BY InnerFacts DEF Formed
<1>2. u <=> InnerCtrl(s).dead
  BY DEF Marks
<1>3. CASE i.op \in {"unreachable", "br", "br_table", "return"}
  <2>1. \E n : Dies(s, r, n)
    BY <1>3 DEF Checks
  <2>2. InnerCtrl(r) = [InnerCtrl(s) EXCEPT !.dead = TRUE]
    BY <2>1 DEF Dies
  <2>3. InnerCtrl(r).dead = TRUE
    BY <1>1, <2>2 DEF CtrlRecs
  <2>4. Marked(i.op, u) = TRUE
    BY <1>3 DEF Marked
  <2>5. QED BY <2>3, <2>4 DEF Marks
<1>4. CASE i.op = "else"
  <2>1. Turns(s, r)
    BY <1>4 DEF Checks
  <2>2. InnerCtrl(r).dead = FALSE
    BY <2>1 DEF Turns, Ctrl
  <2>3. Marked(i.op, u) = FALSE
    BY <1>4 DEF Marked
  <2>4. QED BY <2>2, <2>3 DEF Marks
<1>5. CASE i.op = "end"
  <2>1. Closes(s, r)
    BY <1>5 DEF Checks
  <2>2. /\ Len(r.ctrls) = N - 1 /\ Agree(s, r, N - 1) /\ Formed(r, results)
    BY <2>1, ClosesFormed
  <2>3. ASSUME r.ctrls # << >> PROVE InnerCtrl(r).dead = FALSE
    <3>1. /\ Len(r.ctrls) \in Nat \ {0} /\ InnerCtrl(r) = r.ctrls[Len(r.ctrls)]
          /\ InnerCtrl(r).dead \in BOOLEAN
      BY <2>2, <2>3, InnerFacts DEF Formed
    <3> HIDE DEF N
    <3>2. N - 1 \in 1..(N - 1)
      BY <1>1, <2>2, <3>1
    <3>3. InnerCtrl(r) = s.ctrls[N - 1]
      BY <2>2, <3>1, <3>2 DEF Agree
    <3>4. ~s.ctrls[N - 1].dead
      BY <3>2 DEF OuterLive, LiveBelow, N
    <3>5. QED BY <3>1, <3>3, <3>4
  <2>4. Marked(i.op, u) = FALSE
    BY <1>5 DEF Marked
  <2>5. QED BY <2>3, <2>4 DEF Marks
<1>6. CASE i.op \in BlockOps \union {"if"}
  <2>1. i.op \in {"block", "loop", "if"}
    BY <1>6 DEF BlockOps
  <2>2. \E n, p, q : Opens(s, r, i.op, n, p, q) /\ (i.op = "if" => p = 0)
    BY <1>6 DEF Checks, BlockOps
  <2>3. \E h, p, q : InnerCtrl(r) = Ctrl(i.op, h, p, q)
    BY <2>1, <2>2, OpensFormed
  <2>4. InnerCtrl(r).dead = FALSE
    BY <2>3 DEF Ctrl
  <2>5. ~InnerCtrl(s).dead
    <3>1. N \in 1..N BY <1>1
    <3>2. QED BY <1>1, <1>6, <3>1 DEF Live
  <2>6. Marked(i.op, u) = u
    BY <2>1 DEF Marked
  <2>7. QED BY <1>2, <2>4, <2>5, <2>6 DEF Marks
<1>7. CASE i.op \notin BlockOps \union {"if", "else", "end", "unreachable", "br", "br_table",
                                        "return"}
  <2>1. \E n, m : Moves(s, r, n, m)
    <3>1. \/ i.op \in DOMAIN Effect \/ i.op = "br_if" \/ i.op = "call"
          \/ i.op = "call_indirect"
      BY <1>7 DEF AllOps
    <3>2. QED BY <3>1 DEF Checks
  <2>2. r.ctrls = s.ctrls
    BY <2>1 DEF Moves
  <2>3. Marked(i.op, u) = u
    BY <1>7 DEF Marked
  <2>4. QED BY <1>2, <2>2, <2>3 DEF Marks, InnerCtrl
<1>8. QED BY <1>3, <1>4, <1>5, <1>6, <1>7

LEMMA AdvanceMarks ==
  ASSUME ValInv, Scanning, NEW s, DOMAIN s = DOMAIN scan, s.ip = scan.ip, Advance(s)
  PROVE  /\ scan'.unreachable = s.unreachable /\ scan'.ip = scan.ip + 1
         /\ UNCHANGED <<functions, func_idx, phase>>
<1>1. scan' = [s EXCEPT !.ip = @ + 1, !.max_depth = Larger(@, scan.depth)]
      /\ UNCHANGED <<functions, func_idx, phase>>
  BY DEF Advance
<1>2. scan \in ScanRecs
  BY AtInstr
<1>3. {"ip", "unreachable", "max_depth"} \subseteq DOMAIN s
  BY <1>2 DEF ScanRecs
<1>4. QED BY <1>1, <1>3

LEMMA ScanMarks ==
  ASSUME ValInv, \/ ScanBlock \/ ScanIf \/ ScanElse \/ ScanEnd \/ ScanJump
                 \/ ScanCall \/ ScanCallIndirect \/ ScanOperands
  PROVE  /\ scan'.unreachable = Marked(Instr.op, scan.unreachable) /\ scan'.ip = scan.ip + 1
         /\ UNCHANGED <<functions, func_idx, phase>> /\ Scanning
<1>1. Scanning
  BY DEF ScanBlock, ScanIf, ScanElse, ScanEnd, ScanJump, ScanCall, ScanCallIndirect,
     ScanOperands, Accepting, At
<1>2. scan \in ScanRecs
  BY <1>1, AtInstr
<1>3. ASSUME NEW s, Advance(s), DOMAIN s = DOMAIN scan, s.ip = scan.ip,
             s.unreachable = Marked(Instr.op, scan.unreachable)
      PROVE  /\ scan'.unreachable = Marked(Instr.op, scan.unreachable)
             /\ scan'.ip = scan.ip + 1 /\ UNCHANGED <<functions, func_idx, phase>>
  BY <1>1, <1>3, AdvanceMarks
<1>4. CASE ScanBlock
  <2>1. Instr.op \in BlockOps
    BY <1>4 DEF ScanBlock, Accepting, At
  <2>2. Marked(Instr.op, scan.unreachable) = scan.unreachable
    BY <2>1 DEF Marked, BlockOps
  <2>3. PICK l : Advance(PushLabel(scan, l)) \/ Advance(PushLabel(OpenJump(scan), l))
    BY <1>4 DEF ScanBlock
  <2>4. \A s \in {PushLabel(scan, l), PushLabel(OpenJump(scan), l)} :
          DOMAIN s = DOMAIN scan /\ s.ip = scan.ip /\ s.unreachable = scan.unreachable
    BY <1>2 DEF PushLabel, OpenJump, ScanRecs
  <2>5. QED BY <1>1, <1>3, <2>2, <2>3, <2>4
<1>5. CASE ScanIf
  <2>1. Instr.op = "if"
    BY <1>5 DEF ScanIf, Accepting, At
  <2>2. Marked(Instr.op, scan.unreachable) = scan.unreachable
    BY <2>1 DEF Marked
  <2> DEFINE s0 == [scan EXCEPT !.depth = Popped(@, 1)]
  <2>3. PICK l : Advance(PushLabel(OpenJump(s0), l))
    BY <1>5 DEF ScanIf
  <2>4. /\ DOMAIN s0 = DOMAIN scan /\ s0.ip = scan.ip /\ s0.unreachable = scan.unreachable
    BY <1>2 DEF ScanRecs
  <2>5. {"ip", "unreachable", "jumps", "labels", "max_labels"} \subseteq DOMAIN s0
    BY <1>2, <2>4 DEF ScanRecs
  <2> HIDE DEF s0
  <2> DEFINE s == PushLabel(OpenJump(s0), l)
  <2>6. DOMAIN s = DOMAIN scan /\ s.ip = scan.ip /\ s.unreachable = scan.unreachable
    BY <2>4, <2>5 DEF PushLabel, OpenJump
  <2>7. Advance(s)
    BY <2>3
  <2> HIDE DEF s
  <2>8. QED BY <1>1, <1>3, <2>2, <2>6, <2>7
<1>6. CASE ScanElse \/ ScanEnd
  <2>1. Instr.op \in {"else", "end"}
    BY <1>6 DEF ScanElse, ScanEnd, Accepting, At
  <2>2. Marked(Instr.op, scan.unreachable) = FALSE
    BY <2>1 DEF Marked
  <2>3. PICK s : Advance(s) /\ DOMAIN s = DOMAIN scan /\ s.ip = scan.ip /\ s.unreachable = FALSE
    <3>1. CASE (ScanElse \/ ScanEnd) /\ scan.labels = << >>
      <4> DEFINE t == [scan EXCEPT !.unreachable = FALSE]
      <4>1. Advance(t) BY <3>1 DEF ScanElse, ScanEnd
      <4>2. DOMAIN t = DOMAIN scan /\ t.ip = scan.ip /\ t.unreachable = FALSE
        BY <1>2 DEF ScanRecs
      <4>3. QED BY <4>1, <4>2
    <3>2. CASE ScanElse /\ scan.labels # << >>
      <4> DEFINE t == [scan EXCEPT !.depth = LastLabel.entry, !.jumps = SetJump("else"),
                                   !.unreachable = FALSE]
      <4>1. Advance(t) BY <3>2 DEF ScanElse
      <4>2. DOMAIN t = DOMAIN scan /\ t.ip = scan.ip /\ t.unreachable = FALSE
        BY <1>2 DEF ScanRecs
      <4>3. QED BY <4>1, <4>2
    <3>3. CASE ScanEnd /\ scan.labels # << >>
      <4> DEFINE t == [scan EXCEPT !.labels = SubSeq(@, 1, Len(@) - 1),
                                   !.depth = LastLabel.entry + LastLabel.results,
                                   !.jumps = SetJump("end"), !.unreachable = FALSE]
      <4>1. Advance(t) BY <3>3 DEF ScanEnd
      <4>2. DOMAIN t = DOMAIN scan /\ t.ip = scan.ip /\ t.unreachable = FALSE
        BY <1>2 DEF ScanRecs
      <4>3. QED BY <4>1, <4>2
    <3>4. QED BY <1>6, <3>1, <3>2, <3>3
  <2>4. QED BY <1>1, <1>3, <2>2, <2>3
<1>7. CASE ScanJump
  <2>1. Instr.op \in {"unreachable", "br", "br_table", "return"}
    BY <1>7 DEF ScanJump, Accepting, At
  <2>2. Marked(Instr.op, scan.unreachable) = TRUE
    BY <2>1 DEF Marked
  <2>3. PICK d : Advance([scan EXCEPT !.unreachable = TRUE, !.depth = d])
    BY <1>7 DEF ScanJump
  <2> DEFINE s == [scan EXCEPT !.unreachable = TRUE, !.depth = d]
  <2>4. DOMAIN s = DOMAIN scan /\ s.ip = scan.ip /\ s.unreachable = TRUE
    BY <1>2 DEF ScanRecs
  <2>5. Advance(s)
    BY <2>3
  <2> HIDE DEF s
  <2>6. QED BY <1>1, <1>3, <2>2, <2>4, <2>5
<1>8. CASE ScanCall \/ ScanCallIndirect \/ ScanOperands
  <2>1. Instr.op \in {"call", "call_indirect"} \union DOMAIN Operands
    BY <1>8 DEF ScanCall, ScanCallIndirect, ScanOperands, Accepting, At
  <2>2. Marked(Instr.op, scan.unreachable) = scan.unreachable
    BY <2>1 DEF Marked, Operands
  <2>3. PICK d : Advance([scan EXCEPT !.depth = d])
    BY <1>8 DEF ScanCall, ScanCallIndirect, ScanOperands
  <2> DEFINE s == [scan EXCEPT !.depth = d]
  <2>4. DOMAIN s = DOMAIN scan /\ s.ip = scan.ip /\ s.unreachable = scan.unreachable
    BY <1>2 DEF ScanRecs
  <2>5. Advance(s)
    BY <2>3
  <2> HIDE DEF s
  <2>6. QED BY <1>1, <1>3, <2>2, <2>4, <2>5
<1>9. QED BY <1>1, <1>4, <1>5, <1>6, <1>7, <1>8

\* The first pass has found room for the labels, and in a valid body the
\* second pass agrees with the checker.
AcceptInv ==
  phase = "scan" =>
    /\ PreScan(Code).ok
    /\ WellTyped(func_idx) => ScanFits
    /\ WellTyped(func_idx) /\ ~OpensDead(func_idx) =>
         Marks(Typing(func_idx)[scan.ip], scan.unreachable)

LEMMA SameBody ==
  ASSUME UNCHANGED <<functions, func_idx>>
  PROVE  /\ Code' = Code /\ Typing(func_idx)' = Typing(func_idx)
         /\ WellTyped(func_idx)' <=> WellTyped(func_idx)
         /\ OpensDead(func_idx)' <=> OpensDead(func_idx)
<1>1. Typing(func_idx)' = Typing(func_idx)
  BY DEF Typing, Signatures
<1>2. Code' = Code
  BY DEF Code
<1>3. WellTyped(func_idx)' <=> WellTyped(func_idx)
  BY <1>1 DEF WellTyped, TotalLocals
<1>4. OpensDead(func_idx)' <=> OpensDead(func_idx)
  BY <1>1 DEF OpensDead
<1>5. QED BY <1>1, <1>2, <1>3, <1>4

LEMMA ScansBody ==
  ASSUME ValInv, phase = "scan", WellTyped(func_idx)
  PROVE  func_idx \in DOMAIN functions /\ Body(func_idx)
<1>1. func_idx \in DOMAIN functions /\ ValidatorTypeOK
  BY DEF ValInv, Progress
<1>2. QED BY <1>1, ValidBody

\* Where a body without a block behind a jump is.
LEMMA ScansLive ==
  ASSUME ValInv, AcceptInv, Scanning, WellTyped(func_idx), ~OpensDead(func_idx),
         NEW s, s = Typing(func_idx)[scan.ip]
  PROVE  /\ OuterLive(s) /\ Marks(s, scan.unreachable)
         /\ Instr.op \in BlockOps \union {"if"} => Live(s)
<1>1. phase = "scan" /\ Body(func_idx)
  BY ScansBody DEF Scanning
<1>2. scan.ip \in 0..Len(Code) /\ scan.ip < Len(Code) /\ Instr = Code[scan.ip + 1]
  <2>1. ScanFits BY <1>1 DEF AcceptInv
  <2>2. QED BY <1>1, <2>1, ScanState
<1>3. Code = functions[func_idx].code
  BY DEF Code
<1>4. QED BY <1>1, <1>2, <1>3, BodyOuterLive DEF AcceptInv

LEMMA ScanAccepts ==
  ASSUME ValInv, AcceptInv,
         \/ ScanBlock \/ ScanIf \/ ScanElse \/ ScanEnd \/ ScanJump
         \/ ScanCall \/ ScanCallIndirect \/ ScanOperands
  PROVE  AcceptInv'
<1>1. /\ scan'.unreachable = Marked(Instr.op, scan.unreachable) /\ scan'.ip = scan.ip + 1
      /\ UNCHANGED <<functions, func_idx, phase>> /\ Scanning
  BY ScanMarks
<1>2. phase = "scan" /\ scan \in ScanRecs
  BY <1>1, AtInstr DEF Scanning
<1>3. /\ Code' = Code /\ Typing(func_idx)' = Typing(func_idx)
      /\ WellTyped(func_idx)' <=> WellTyped(func_idx)
      /\ OpensDead(func_idx)' <=> OpensDead(func_idx)
  BY <1>1, SameBody
<1>4. PreScan(Code)'.ok
  BY <1>2, <1>3 DEF AcceptInv
<1>5. ASSUME WellTyped(func_idx) PROVE ScanFits'
  <2>1. Body(func_idx) /\ ScanFits
    BY <1>2, <1>5, ScansBody DEF AcceptInv
  <2>2. QED
    BY <2>1, ScanBlockFits, ScanIfFits, ScanElseFits, ScanEndFits, ScanJumpFits,
       ScanCallFits, ScanCallIndirectFits, ScanOperandsFits
<1>6. ASSUME WellTyped(func_idx), ~OpensDead(func_idx)
      PROVE  Marks(Typing(func_idx)[scan.ip + 1], Marked(Instr.op, scan.unreachable))
  <2>1. Body(func_idx) /\ ScanFits
    BY <1>2, <1>6, ScansBody DEF AcceptInv
  <2>2. PICK s, r, results : /\ s = Typing(func_idx)[scan.ip]
                             /\ r = Typing(func_idx)[scan.ip + 1]
                             /\ results = functions[func_idx].results
    OBVIOUS
  <2>3. /\ Formed(s, results) /\ s.ctrls # << >> /\ Checks(s, r, Instr, Signatures)
        /\ Instr.op \in AllOps
    BY <1>1, <2>1, <2>2, ScanState
  <2>4. /\ OuterLive(s) /\ Marks(s, scan.unreachable)
        /\ Instr.op \in BlockOps \union {"if"} => Live(s)
    BY <1>1, <1>6, <2>2, ScansLive
  <2>5. scan.unreachable \in BOOLEAN
    BY <1>2 DEF ScanRecs
  <2>6. QED BY <2>2, <2>3, <2>4, <2>5, MarksNext
<1>7. QED BY <1>1, <1>3, <1>4, <1>5, <1>6 DEF AcceptInv

LEMMA BeginAccepts == ASSUME ValInv, BeginBody PROVE AcceptInv'
<1> SUFFICES ASSUME phase' = "scan" PROVE AcceptInv'
  BY DEF AcceptInv
<1>1. /\ UNCHANGED <<functions, func_idx>> /\ PreScan(Code).ok
      /\ \E p, b : scan' = [NoScan EXCEPT !.labels = <<FirstLabel(functions[func_idx])>>,
                              !.max_labels = 1, !.pre_max = p, !.pre_blocks = b]
  BY DEF BeginBody, Stop
<1>2. func_idx \in DOMAIN functions /\ ValidatorTypeOK
  BY DEF BeginBody, ValInv, ValidatorTypeOK
<1>3. scan'.ip = 0 /\ scan'.unreachable = FALSE
  BY <1>1 DEF NoScan
<1>4. /\ Code' = Code /\ Typing(func_idx)' = Typing(func_idx)
      /\ WellTyped(func_idx)' <=> WellTyped(func_idx)
  BY <1>1, SameBody
<1>5. ASSUME WellTyped(func_idx) PROVE ScanFits' /\ Marks(Typing(func_idx)[0], FALSE)
  <2>1. Body(func_idx)
    BY <1>2, <1>5, ValidBody
  <2>2. Typing(func_idx)[0] = Entered(functions[func_idx].results)
    BY <2>1 DEF Body
  <2>3. Marks(Typing(func_idx)[0], FALSE)
    BY <2>2 DEF Marks, Entered, InnerCtrl, Ctrl
  <2>4. QED BY <1>1, <2>1, <2>3, BeginBodyFits
<1>6. PreScan(Code)'.ok
  BY <1>1, <1>4
<1>7. QED BY <1>3, <1>4, <1>5, <1>6 DEF AcceptInv

LEMMA StepAccepts == ASSUME ValInv, AcceptInv, [Next]_vars PROVE AcceptInv'
<1>1. CASE UNCHANGED valVars
  <2>1. UNCHANGED <<functions, func_idx, phase, scan>>
    BY <1>1 DEF valVars
  <2>2. ScanFits' <=> ScanFits
    BY <2>1, SameBody DEF ScanFits
  <2>3. QED BY <2>1, <2>2, SameBody DEF AcceptInv
<1>2. CASE SkipFunction \/ AllValidated \/ RejectInstruction \/ EndBody
  <2>1. phase' # "scan"
    BY <1>2 DEF SkipFunction, AllValidated, RejectInstruction, EndBody, Stop
  <2>2. QED BY <2>1 DEF AcceptInv
<1>3. CASE BeginBody
  BY <1>3, BeginAccepts
<1>4. CASE \/ ScanBlock \/ ScanIf \/ ScanElse \/ ScanEnd \/ ScanJump
           \/ ScanCall \/ ScanCallIndirect \/ ScanOperands
  BY <1>4, ScanAccepts
<1>5. QED BY <1>1, <1>2, <1>3, <1>4, ValidatorOrNot DEF ValidatorNext

\* Nothing that is valid is missing where the validator looks for it.
LEMMA AcceptsHere ==
  ASSUME ValInv, AcceptInv, Scanning, WellTyped(func_idx), ~OpensDead(func_idx)
  PROVE  Acceptable(Instr)
<1>1. phase = "scan" /\ Body(func_idx) /\ ScanFits /\ PreScan(Code).ok
      /\ func_idx \in DOMAIN functions
  BY ScansBody DEF AcceptInv, Scanning
<1>2. PICK s, r, i, op : /\ s = Typing(func_idx)[scan.ip] /\ r = Typing(func_idx)[scan.ip + 1]
                         /\ i = Instr /\ op = i.op
  OBVIOUS
<1>3. /\ scan.ip \in Nat /\ scan.ip < Len(Code) /\ Len(Code) \in Nat /\ scan.depth \in Int
      /\ i = Code[scan.ip + 1] /\ op \in AllOps /\ i \in Instructions
      /\ s.ctrls # << >> /\ HeadFits(s, scan.labels, scan.depth)
      /\ Checks(s, r, i, Signatures) /\ Formed(s, functions[func_idx].results)
  BY <1>1, <1>2, ScanState
<1>4. /\ OuterLive(s) /\ Marks(s, scan.unreachable)
      /\ op \in BlockOps \union {"if"} => Live(s)
  BY <1>2, ScansLive
<1>5. /\ s \in States /\ Len(s.ctrls) \in Nat \ {0} /\ InnerCtrl(s) = s.ctrls[Len(s.ctrls)]
      /\ s.h \in Nat /\ InnerCtrl(s).height \in Nat
  BY <1>3, InnerFacts DEF Formed
<1>6. ~scan.unreachable => ~InnerCtrl(s).dead /\ scan.depth = s.h
  <2> SUFFICES ASSUME ~scan.unreachable PROVE ~InnerCtrl(s).dead /\ scan.depth = s.h
    OBVIOUS
  <2>1. ~InnerCtrl(s).dead
    BY <1>3, <1>4 DEF Marks
  <2> DEFINE N == Len(s.ctrls)
  <2>2. N \in Nat \ {0} /\ \A j \in 1..(N - 1) : ~s.ctrls[j].dead
    BY <1>4, <1>5 DEF OuterLive, LiveBelow
  <2>3. ~s.ctrls[N].dead
    BY <1>5, <2>1
  <2> HIDE DEF N
  <2>4. \A j \in 1..N : j \in 1..(N - 1) \/ j = N
    BY <2>2
  <2>5. \A j \in 1..N : ~s.ctrls[j].dead
    BY <2>2, <2>3, <2>4
  <2>6. Live(s)
    BY <2>5 DEF Live, N
  <2>7. QED BY <1>3, <2>1, <2>6 DEF HeadFits
<1>7. ASSUME NEW n \in Nat, NEW m \in Nat, m <= n,
             ~InnerCtrl(s).dead => n <= s.h - InnerCtrl(s).height
      PROVE  Enough(m)
  BY <1>5, <1>6, <1>7 DEF Enough
<1>8. ASSUME NEW l \in Nat, LabelOk(s, l) PROVE LabelInRange(l)
  BY <1>3, <1>8 DEF LabelOk, LabelInRange, HeadFits
<1>9. ASSUME op \in BlockOps PROVE Enough(i.params)
  <2>1. Opens(s, r, op, i.params, i.params, i.results)
    BY <1>2, <1>3, <1>9 DEF Checks
  <2>2. i.params \in Nat /\ i.params <= i.params
    BY <1>2, <1>3, <1>9, InstructionTypes DEF BlockOps
  <2>3. QED BY <1>7, <2>1, <2>2 DEF Opens
<1>10. ASSUME op = "if" PROVE Enough(1)
  <2>1. Opens(s, r, "if", 1, 0, i.results)
    BY <1>2, <1>3, <1>10 DEF Checks
  <2>2. 1 \in Nat /\ 1 <= 1
    OBVIOUS
  <2>3. QED BY <1>7, <2>1, <2>2 DEF Opens
<1>11. ASSUME op \in BlockOps \union {"if"}
       PROVE  Len(scan.labels) < kWasmValidationMaxLabelDepth
  <2>1. Code = functions[func_idx].code /\ scan.ip \in 0..Len(Code)
    BY <1>3 DEF Code
  <2>2. Len(s.ctrls) < kWasmValidationMaxLabelDepth
    BY <1>1, <1>2, <1>3, <1>11, <2>1, PreNests
  <2>3. QED BY <1>3, <2>2 DEF HeadFits
<1>12. ASSUME op \in {"br", "br_if"} PROVE LabelInRange(i.label)
  <2>1. LabelOk(s, i.label)
    BY <1>2, <1>3, <1>12 DEF Checks
  <2>2. i.label \in Nat
    BY <1>2, <1>3, <1>12, InstructionTypes
  <2>3. QED BY <1>8, <2>1, <2>2
<1>13. ASSUME op = "br_table"
       PROVE  Enough(1) /\ \A k \in DOMAIN i.labels : LabelInRange(i.labels[k])
  <2>1. i.labels \in Seq(Nat) /\ i.labels # << >>
    BY <1>2, <1>3, <1>13, InstructionTypes
  <2>2. /\ \A k \in DOMAIN i.labels : LabelOk(s, i.labels[k])
        /\ Dies(s, r, Arity(s, i.labels[1]) + 1)
    BY <1>2, <1>3, <1>13 DEF Checks
  <2>3. \A k \in DOMAIN i.labels : i.labels[k] \in Nat
    BY <2>1
  <2>4. \A k \in DOMAIN i.labels : LabelInRange(i.labels[k])
    BY <1>8, <2>2, <2>3
  <2>5. 1 \in DOMAIN i.labels
    BY <2>1
  <2>6. Upright(s)
    BY <1>3 DEF Formed
  <2>7. Arity(s, i.labels[1]) \in Nat
    BY <2>2, <2>3, <2>5, <2>6, ArityNat
  <2> DEFINE n == Arity(s, i.labels[1]) + 1
  <2>8. n \in Nat /\ 1 \in Nat /\ 1 <= n
    BY <2>7
  <2>9. ~InnerCtrl(s).dead => n <= s.h - InnerCtrl(s).height
    BY <2>2 DEF Dies
  <2> HIDE DEF n
  <2>10. QED BY <1>7, <2>4, <2>8, <2>9
<1>14. ASSUME op = "call"
       PROVE  i.func \in DOMAIN functions /\ Enough(functions[i.func].params)
  <2> DEFINE p == functions[i.func].params
  <2>1. /\ i.func \in DOMAIN Signatures
        /\ Moves(s, r, Signatures[i.func].params, Signatures[i.func].results)
    BY <1>2, <1>3, <1>14 DEF Checks
  <2>2. i.func \in DOMAIN functions /\ Signatures[i.func].params = p
    BY <2>1 DEF Signatures
  <2>3. p \in Nat
    <3>1. functions[i.func] \in Functions
      BY <2>2, FunctionFields DEF ValInv
    <3>2. QED BY <3>1 DEF Functions
  <2>4. ~InnerCtrl(s).dead => p <= s.h - InnerCtrl(s).height
    BY <2>1, <2>2 DEF Moves
  <2> HIDE DEF p
  <2>5. p <= p BY <2>3
  <2>6. QED BY <1>7, <2>2, <2>3, <2>4, <2>5 DEF p
<1>15. ASSUME op = "call_indirect" PROVE Enough(i.params + 1)
  <2> DEFINE n == i.params + 1
  <2>1. Moves(s, r, n, i.results)
    BY <1>2, <1>3, <1>15 DEF Checks
  <2>2. n \in Nat /\ n <= n
    BY <1>2, <1>3, <1>15, InstructionTypes
  <2> HIDE DEF n
  <2>3. Enough(n) BY <1>7, <2>1, <2>2 DEF Moves
  <2>4. QED BY <2>3 DEF n
<1>16. ASSUME op \in LocalOps PROVE LocalInRange(i)
  <2>1. Code = functions[func_idx].code /\ scan.ip + 1 \in 1..Len(Code)
    BY <1>3 DEF Code
  <2>2. QED BY <1>2, <1>3, <1>16, <2>1 DEF WellTyped, LocalInRange
<1>17. ASSUME op \in DOMAIN Operands PROVE Enough(Operands[op][1])
  <2>1. CASE op = "br_if"
    <3>1. i.label \in Nat /\ Upright(s)
      BY <1>2, <1>3, <2>1, InstructionTypes DEF Formed
    <3>2. LabelOk(s, i.label) /\ Moves(s, r, Arity(s, i.label) + 1, Arity(s, i.label))
      BY <1>2, <1>3, <2>1 DEF Checks
    <3>3. Arity(s, i.label) \in Nat
      BY <3>1, <3>2, ArityNat
    <3> DEFINE n == Arity(s, i.label) + 1
    <3>4. n \in Nat /\ 1 \in Nat /\ 1 <= n
      BY <3>3
    <3>5. ~InnerCtrl(s).dead => n <= s.h - InnerCtrl(s).height
      BY <3>2 DEF Moves
    <3> HIDE DEF n
    <3>6. Enough(1) BY <1>7, <3>4, <3>5
    <3>7. Operands[op][1] = 1 BY <2>1 DEF Operands
    <3>8. QED BY <3>6, <3>7
  <2>2. CASE op # "br_if"
    <3> DEFINE n == Effect[op][1]
               m == Operands[op][1]
    <3>1. op \in DOMAIN Effect /\ n \in Nat /\ m \in Nat /\ m <= n
      BY <1>17, <2>2, EffectOperands
    <3>2. Moves(s, r, n, Effect[op][2])
      BY <1>2, <1>3, <3>1 DEF Checks
    <3> HIDE DEF n, m
    <3>3. Enough(m) BY <1>7, <3>1, <3>2 DEF Moves
    <3>4. QED BY <3>3 DEF m
  <2>3. QED BY <2>1, <2>2
<1>18. Acceptable(i)
  BY <1>2, <1>9, <1>10, <1>11, <1>12, <1>13, <1>14, <1>15, <1>16, <1>17, Zenon DEF Acceptable
<1>19. QED BY <1>2, <1>18

\* The validator refuses no instruction of a valid body that opens no block
\* in unreachable code, whatever is known of the rest of the module.
THEOREM AcceptsCorrect == Spec => []AcceptsValid
<1>1. InterpreterInit => AcceptInv
  BY DEF InterpreterInit, ValidatorInit, AcceptInv
<1>2. ValInv /\ CtxInv /\ AcceptInv /\ [Next]_vars => AcceptInv'
  BY StepAccepts
<1>3. ValInv /\ CtxInv /\ AcceptInv => AcceptsValid
  BY AcceptsHere DEF AcceptsValid
<1>4. QED BY <1>1, <1>2, <1>3, InterpreterInvariant, PTL DEF Spec

-----------------------------------------------------------------------------
(* The binary search in the jump table *)

Bounds(n) == [lo : 0..n, hi : 0..n]

Halved(jumps, offset, s) ==
  LET mid == (s.lo + s.hi) \div 2
  IN IF s.lo >= s.hi THEN s
     ELSE IF jumps[mid + 1].body < offset THEN [s EXCEPT !.lo = mid + 1]
     ELSE [s EXCEPT !.hi = mid]

HalveTable(jumps, offset, n, halve) ==
  halve = [k \in 0..n |-> IF k = 0 THEN [lo |-> 0, hi |-> n]
                          ELSE Halved(jumps, offset, halve[k - 1])]

LEMMA HalveTableExists ==
  ASSUME NEW jumps, NEW offset, NEW n \in Nat
  PROVE  \E halve : HalveTable(jumps, offset, n, halve)
<1> DEFINE Upto(m, halve) == halve = [k \in 0..m |->
             IF k = 0 THEN [lo |-> 0, hi |-> n] ELSE Halved(jumps, offset, halve[k - 1])]
           Has(m) == \E halve : Upto(m, halve)
           Built == {m \in 0..n : Has(m)}
<1>1. Has(0)
  <2> DEFINE halve == [k \in 0..0 |-> [lo |-> 0, hi |-> n]]
  <2>1. Upto(0, halve) OBVIOUS
  <2>2. QED BY <2>1
<1>2. ASSUME NEW m \in 1..n, Has(m - 1) PROVE Has(m)
  <2>1. PICK s : Upto(m - 1, s)
    BY <1>2
  <2> DEFINE halve == [k \in 0..m |-> IF k = m THEN Halved(jumps, offset, s[m - 1]) ELSE s[k]]
  <2>2. \A k \in 0..(m - 1) :
          s[k] = IF k = 0 THEN [lo |-> 0, hi |-> n] ELSE Halved(jumps, offset, s[k - 1])
    BY <2>1
  <2>3. \A k \in 0..m :
          halve[k] = IF k = 0 THEN [lo |-> 0, hi |-> n] ELSE Halved(jumps, offset, halve[k - 1])
    BY <2>2
  <2>4. halve = [k \in 0..m |-> halve[k]]
    OBVIOUS
  <2> HIDE DEF halve
  <2>5. Upto(m, halve)
    BY <2>3, <2>4
  <2>6. QED BY <2>5
<1> HIDE DEF Has
<1>3. \A m \in 0..n : m \in Built
  <2>1. 0 \in Built /\ \A m \in 1..n : m - 1 \in Built => m \in Built
    BY <1>1, <1>2
  <2> HIDE DEF Built
  <2>2. QED BY <2>1, Reached
<1>4. QED BY <1>3 DEF Has, HalveTable

\* What the first k halvings of n entries leave between the bounds.
Narrowed(jumps, offset, n, k, s) ==
  /\ s \in Bounds(n) /\ s.lo <= s.hi /\ s.hi - s.lo <= n - k
  /\ \A j \in 1..n : j <= s.lo => jumps[j].body < offset
  /\ \A j \in 1..n : j > s.hi => jumps[j].body >= offset

LEMMA HalvedNarrows ==
  ASSUME NEW n \in Nat, NEW jumps, NEW offset \in Nat,
         \A j \in 1..n : jumps[j].body \in Nat,
         \A j, k \in 1..n : j < k => jumps[j].body < jumps[k].body,
         NEW k \in 1..n, NEW s, Narrowed(jumps, offset, n, k - 1, s)
  PROVE  Narrowed(jumps, offset, n, k, Halved(jumps, offset, s))
<1> DEFINE mid == (s.lo + s.hi) \div 2
<1>1. s \in Bounds(n) /\ s.lo \in 0..n /\ s.hi \in 0..n /\ s.lo <= s.hi
      /\ s.hi - s.lo <= n - (k - 1)
  BY DEF Narrowed, Bounds
<1>2. CASE s.lo >= s.hi
  <2>1. Halved(jumps, offset, s) = s
    BY <1>2 DEF Halved
  <2>2. s.hi - s.lo <= n - k
    BY <1>1, <1>2
  <2>3. QED BY <2>1, <2>2 DEF Narrowed
<1>3. CASE ~(s.lo >= s.hi)
  <2>1. mid \in 0..n /\ s.lo <= mid /\ mid < s.hi /\ mid + 1 \in 1..n
    BY <1>1, <1>3
  <2> HIDE DEF mid
  <2>2. CASE jumps[mid + 1].body < offset
    <3> DEFINE r == [s EXCEPT !.lo = mid + 1]
    <3>1. Halved(jumps, offset, s) = r
      BY <1>3, <2>2 DEF Halved, mid
    <3>2. r \in Bounds(n) /\ r.lo = mid + 1 /\ r.hi = s.hi
      BY <1>1, <2>1 DEF Bounds
    <3> HIDE DEF r
    <3>3. \A j \in 1..n : j <= mid + 1 => jumps[j].body < offset
      <4> SUFFICES ASSUME NEW j \in 1..n, j <= mid + 1 PROVE jumps[j].body < offset
        OBVIOUS
      <4>1. CASE j = mid + 1
        BY <2>2, <4>1
      <4>2. CASE j < mid + 1
        <5>1. jumps[j].body < jumps[mid + 1].body
          BY <2>1, <4>2
        <5>2. jumps[j].body \in Nat /\ jumps[mid + 1].body \in Nat
          BY <2>1
        <5>3. QED BY <2>2, <5>1, <5>2
      <4>3. QED BY <2>1, <4>1, <4>2
    <3>4. r.lo <= r.hi /\ r.hi - r.lo <= n - k
      BY <1>1, <2>1, <3>2
    <3>5. QED BY <3>1, <3>2, <3>3, <3>4 DEF Narrowed
  <2>3. CASE ~(jumps[mid + 1].body < offset)
    <3> DEFINE r == [s EXCEPT !.hi = mid]
    <3>1. Halved(jumps, offset, s) = r
      BY <1>3, <2>3 DEF Halved, mid
    <3>2. r \in Bounds(n) /\ r.hi = mid /\ r.lo = s.lo
      BY <1>1, <2>1 DEF Bounds
    <3> HIDE DEF r
    <3>3. \A j \in 1..n : j > mid => jumps[j].body >= offset
      <4> SUFFICES ASSUME NEW j \in 1..n, j > mid PROVE jumps[j].body >= offset
        OBVIOUS
      <4>1. jumps[mid + 1].body >= offset /\ jumps[mid + 1].body \in Nat
        BY <2>1, <2>3
      <4>2. CASE j = mid + 1
        BY <4>1, <4>2
      <4>3. CASE j > mid + 1
        <5>1. jumps[mid + 1].body < jumps[j].body
          BY <2>1, <4>3
        <5>2. jumps[j].body \in Nat
          OBVIOUS
        <5>3. QED BY <4>1, <5>1, <5>2
      <4>4. QED BY <2>1, <4>2, <4>3
    <3>4. r.lo <= r.hi /\ r.hi - r.lo <= n - k
      BY <1>1, <2>1, <3>2
    <3>5. QED BY <3>1, <3>2, <3>3, <3>4 DEF Narrowed
  <2>4. QED BY <2>2, <2>3
<1>4. QED BY <1>2, <1>3

\* FindBlockJump finds the entry of an offset exactly when the table has one.
LEMMA FindsEntry ==
  ASSUME NEW jumps, jumps \in Seq(JumpEntries), Ascending(jumps), NEW offset, offset \in Nat,
         NEW i, i = FindBlockJump(jumps, offset)
  PROVE  /\ i \in 0..Len(jumps)
         /\ i # 0 => jumps[i].body = offset
         /\ (\E j \in 1..Len(jumps) : jumps[j].body = offset) => i # 0
<1> DEFINE n == Len(jumps)
           halve == CHOOSE h : HalveTable(jumps, offset, n, h)
           found == halve[n].lo + 1
<1>1. /\ n \in Nat /\ \A j \in 1..n : jumps[j].body \in Nat
      /\ \A j, k \in 1..n : j < k => jumps[j].body < jumps[k].body
  <2>1. n \in Nat /\ \A j \in 1..n : jumps[j] \in JumpEntries
    OBVIOUS
  <2>2. \A j, k \in 1..n : j < k => jumps[j].body < jumps[k].body
    BY DEF Ascending
  <2>3. QED BY <2>1, <2>2 DEF JumpEntries
<1>2. HalveTable(jumps, offset, n, halve)
  BY <1>1, HalveTableExists
<1>3. i = IF found <= n /\ jumps[found].body = offset THEN found ELSE 0
  BY DEF FindBlockJump, HalveTable, Halved
<1> HIDE DEF halve, n
<1>4. \A k \in 0..n : halve[k] = IF k = 0 THEN [lo |-> 0, hi |-> n]
                                 ELSE Halved(jumps, offset, halve[k - 1])
  BY <1>2 DEF HalveTable
<1>5. Narrowed(jumps, offset, n, n, halve[n])
  <2> DEFINE Ones == {k \in 0..n : Narrowed(jumps, offset, n, k, halve[k])}
  <2>1. 0 \in Ones
    <3>1. halve[0] = [lo |-> 0, hi |-> n]
      BY <1>1, <1>4
    <3>2. halve[0] \in Bounds(n) /\ halve[0].lo = 0 /\ halve[0].hi = n
      BY <1>1, <3>1 DEF Bounds
    <3>3. Narrowed(jumps, offset, n, 0, halve[0])
      BY <1>1, <3>2 DEF Narrowed
    <3>4. QED BY <1>1, <3>3
  <2>2. \A k \in 1..n : k - 1 \in Ones => k \in Ones
    <3> SUFFICES ASSUME NEW k \in 1..n, k - 1 \in Ones PROVE k \in Ones
      OBVIOUS
    <3>1. Narrowed(jumps, offset, n, k - 1, halve[k - 1])
      OBVIOUS
    <3>2. halve[k] = Halved(jumps, offset, halve[k - 1])
      BY <1>1, <1>4
    <3>3. Narrowed(jumps, offset, n, k, halve[k])
      BY <1>1, <3>1, <3>2, HalvedNarrows
    <3>4. QED BY <1>1, <3>3
  <2> HIDE DEF Ones
  <2>3. \A k \in 0..n : k \in Ones
    BY <1>1, <2>1, <2>2, Reached
  <2>4. n \in Ones
    BY <1>1, <2>3
  <2>5. QED BY <2>4 DEF Ones
<1> DEFINE lo == halve[n].lo
<1>6. /\ lo \in 0..n
      /\ \A j \in 1..n : j <= lo => jumps[j].body < offset
      /\ \A j \in 1..n : j > lo => jumps[j].body >= offset
  <2>1. halve[n].lo \in 0..n /\ halve[n].hi \in 0..n /\ halve[n].lo <= halve[n].hi
        /\ halve[n].hi - halve[n].lo <= n - n
    BY <1>5 DEF Narrowed, Bounds
  <2>2. halve[n].hi = halve[n].lo
    BY <1>1, <2>1
  <2>3. QED BY <1>5, <2>1, <2>2 DEF Narrowed
<1>7. i = IF lo + 1 <= n /\ jumps[lo + 1].body = offset THEN lo + 1 ELSE 0
  BY <1>3
<1> HIDE DEF lo
<1>8. i \in 0..n /\ (i # 0 => jumps[i].body = offset)
  BY <1>1, <1>6, <1>7
<1>9. ASSUME NEW j \in 1..n, jumps[j].body = offset PROVE i # 0
  <2>1. j > lo
    BY <1>1, <1>6, <1>9
  <2>2. lo + 1 \in 1..n
    BY <1>1, <1>6, <2>1
  <2>3. jumps[lo + 1].body >= offset /\ jumps[lo + 1].body \in Nat
    BY <1>1, <1>6, <2>2
  <2>4. CASE j = lo + 1
    BY <1>7, <1>9, <2>2, <2>4
  <2>5. CASE j # lo + 1
    <3>1. lo + 1 < j
      BY <1>6, <2>1, <2>5
    <3>2. jumps[lo + 1].body < jumps[j].body
      BY <1>1, <2>2, <3>1
    <3>3. QED BY <1>9, <2>3, <3>2
  <2>6. QED BY <2>4, <2>5
<1>10. QED BY <1>8, <1>9 DEF n

-----------------------------------------------------------------------------
(* Where a frame is in a valid body *)

LabelRecs == [opcode : {"block", "loop", "if"}, stack_top : Int, params : Nat,
              results : Nat, pc : Nat]

\* The body goes on at q inside the k outermost blocks of s with h operands.
Goes(T, N, q, s, k, h) ==
  q \in 0..N /\ Len(T[q].ctrls) = k /\ Agree(s, T[q], k) /\ T[q].h = h

\* A label of the interpreter that belongs to block j.
LabelFits(T, N, s, j, base, l) ==
  LET c == s.ctrls[j]
  IN /\ l.stack_top = base + c.height /\ l.results = c.results
     /\ l.opcode = "loop" <=> c.op = "loop"
     /\ IF c.op = "loop"
        THEN l.params = c.params /\ Goes(T, N, l.pc, s, j, c.height + c.params)
        ELSE Goes(T, N, l.pc, s, j - 1, c.height + c.results)

\* At p, where code is live, with n labels and x operands.
Seated(T, N, base, labels, p, n, x) ==
  /\ p \in 0..N /\ Live(T[p]) /\ T[p].ctrls # << >>
  /\ n = Len(T[p].ctrls) /\ x = T[p].h
  /\ labels \in Seq(LabelRecs) /\ n <= Len(labels)
  /\ \A j \in 2..n : LabelFits(T, N, T[p], j, base, labels[j])

LEMMA FitsStay ==
  ASSUME NEW T, NEW N, NEW s, NEW r, NEW k, k \in Nat, Agree(s, r, k), NEW j \in 1..k,
         NEW base, NEW l, LabelFits(T, N, s, j, base, l)
  PROVE  LabelFits(T, N, r, j, base, l)
<1>1. r.ctrls[j] = s.ctrls[j] /\ \A i \in 1..j : r.ctrls[i] = s.ctrls[i]
  BY DEF Agree
<1>2. \A q, h : Goes(T, N, q, s, j, h) => Goes(T, N, q, r, j, h)
  BY <1>1 DEF Goes, Agree
<1>3. \A q, h : Goes(T, N, q, s, j - 1, h) => Goes(T, N, q, r, j - 1, h)
  BY <1>1 DEF Goes, Agree
<1>4. QED BY <1>1, <1>2, <1>3 DEF LabelFits

\* Going on inside blocks that are open.
LEMMA SeatedMoves ==
  ASSUME NEW T, NEW N, NEW base, NEW labels, NEW p, NEW n, NEW x,
         Seated(T, N, base, labels, p, n, x), n \in Nat,
         NEW q, NEW k, NEW h, k \in Nat, k >= 1, k <= n, Goes(T, N, q, T[p], k, h),
         NEW ls, ls \in Seq(LabelRecs), k <= Len(ls), \A j \in 1..k : ls[j] = labels[j]
  PROVE  Seated(T, N, base, ls, q, k, h)
<1>1. q \in 0..N /\ Len(T[q].ctrls) = k /\ Agree(T[p], T[q], k) /\ T[q].h = h
  BY DEF Goes
<1>2. T[q].ctrls # << >>
  <2>1. Len(<< >>) = 0
    OBVIOUS
  <2>2. QED BY <1>1, <2>1
<1>3. \A j \in 1..k : j \in 1..n
  OBVIOUS
<1>4. Live(T[q])
  BY <1>1, <1>3 DEF Live, Agree, Seated
<1>5. \A j \in 2..k : LabelFits(T, N, T[q], j, base, ls[j])
  <2> SUFFICES ASSUME NEW j \in 2..k PROVE LabelFits(T, N, T[q], j, base, ls[j])
    OBVIOUS
  <2>1. j \in 2..n /\ j \in 1..k
    OBVIOUS
  <2>2. LabelFits(T, N, T[p], j, base, labels[j])
    BY <2>1 DEF Seated
  <2>3. QED BY <1>1, <2>1, <2>2, FitsStay
<1>6. QED BY <1>1, <1>2, <1>4, <1>5 DEF Seated

\* Going on inside one more block, whose label is written above the others.
LEMMA SeatedEnters ==
  ASSUME NEW T, NEW N, NEW base, NEW labels, NEW p, NEW n, NEW x,
         Seated(T, N, base, labels, p, n, x), n \in Nat,
         NEW q, q \in 0..N, Len(T[q].ctrls) = n + 1, Agree(T[p], T[q], n),
         ~T[q].ctrls[n + 1].dead, NEW l, l \in LabelRecs,
         LabelFits(T, N, T[q], n + 1, base, l),
         NEW ls, ls = SubSeq(labels, 1, n) \o <<l>>
  PROVE  Seated(T, N, base, ls, q, n + 1, T[q].h)
<1>1. labels \in Seq(LabelRecs) /\ n <= Len(labels)
  BY DEF Seated
<1>2. ls \in Seq(LabelRecs) /\ Len(ls) = n + 1 /\ ls[n + 1] = l
      /\ \A j \in 1..n : ls[j] = labels[j]
  BY <1>1
<1>3. T[q].ctrls # << >>
  <2>1. Len(<< >>) = 0
    OBVIOUS
  <2>2. QED BY <2>1
<1>4. Live(T[q])
  <2>1. \A j \in 1..n : ~T[q].ctrls[j].dead
    BY DEF Live, Agree, Seated
  <2>2. \A j \in 1..(n + 1) : j \in 1..n \/ j = n + 1
    OBVIOUS
  <2>3. QED BY <2>1, <2>2 DEF Live
<1>5. \A j \in 2..(n + 1) : LabelFits(T, N, T[q], j, base, ls[j])
  <2> SUFFICES ASSUME NEW j \in 2..(n + 1) PROVE LabelFits(T, N, T[q], j, base, ls[j])
    OBVIOUS
  <2>1. CASE j = n + 1
    BY <1>2, <2>1
  <2>2. CASE j # n + 1
    <3>1. j \in 2..n /\ j \in 1..n
      BY <2>2
    <3>2. LabelFits(T, N, T[p], j, base, labels[j])
      BY <3>1 DEF Seated
    <3>3. QED BY <1>2, <3>1, <3>2, FitsStay
  <2>3. QED BY <2>1, <2>2
<1>6. QED BY <1>2, <1>3, <1>4, <1>5 DEF Seated

\* The states of the checker for function f of fs; Typing(f) for functions.
TypingIn(fs, f) ==
  TypingOf(fs[f].code, fs[f].results,
           [g \in DOMAIN fs |-> [params |-> fs[g].params, results |-> fs[g].results]])

LEMMA TypingHere == ASSUME NEW f PROVE TypingIn(functions, f) = Typing(f)
BY DEF TypingIn, Typing, Signatures

\* The slot where the operands of a frame begin.
Base(fs, g) == g.locals + TotalLocals(fs[g.func])

Placed(fs, g, p, n, x) ==
  /\ g.labels[1].stack_top = g.locals /\ g.labels[1].results = fs[g.func].results
  /\ Seated(TypingIn(fs, g.func), Len(fs[g.func].code), Base(fs, g), g.labels, p, n, x)

\* The first frame begins at the bottom; the others were compared with the
\* end of the stack.
Roomy(fs, g, k) ==
  /\ g.locals \in Nat
  /\ IF k = 1 THEN g.locals = 0
     ELSE Base(fs, g) + fs[g.func].max_stack_depth <= stack_size

\* Frame g waits for the function of frame h.
Waits(fs, g, h) ==
  /\ Base(fs, g) <= h.locals
  /\ Placed(fs, g, g.ip, g.label_stack_top,
            h.locals - Base(fs, g) + fs[h.func].results)

Framed(fs, cs) ==
  /\ \A k \in 1..Len(cs) : Roomy(fs, cs[k], k)
  /\ \A k \in 1..(Len(cs) - 1) : Waits(fs, cs[k], cs[k + 1])

\* The frame that is executed, with the stack up to height x.
OnTop(fs, g, p, n, x) == Base(fs, g) <= x /\ Placed(fs, g, p, n, x - Base(fs, g))

\* The number of results that a suspended call of the host will push.
Awaited(fs, g) ==
  LET i == fs[g.func].code[g.ip]
  IN IF i.op = "call" THEN fs[i.func].results ELSE i.results

Suspended(fs, g, x) ==
  /\ g.ip \in 1..Len(fs[g.func].code) /\ Awaited(fs, g) \in Nat /\ Base(fs, g) <= x
  /\ OnTop(fs, g, g.ip, g.label_stack_top, x + Awaited(fs, g))

\* The frames and the stack are where the checker says they are.
TypedCtx ==
  /\ stack \in Seq(Nat) /\ Len(stack) <= stack_size
  /\ Active => Framed(functions, call_stack)
  /\ status = "running" =>
       OnTop(functions, call_stack[Len(call_stack)], regs.ip, regs.label_top, Len(stack))
  /\ status = "yielded" =>
       Suspended(functions, call_stack[Len(call_stack)], Len(stack))

\* What the frames say of one another does not look at the labels on top.
LEMMA FramedSame ==
  ASSUME NEW fs, NEW cs, Framed(fs, cs), NEW ds, NEW n, n = Len(cs), Len(ds) = n, n \in Nat,
         \A k \in 1..n : k # n => ds[k] = cs[k],
         n > 0 => ds[n].func = cs[n].func /\ ds[n].locals = cs[n].locals
  PROVE  Framed(fs, ds)
<1>1. \A k \in 1..n : ds[k].func = cs[k].func /\ ds[k].locals = cs[k].locals
  OBVIOUS
<1>2. \A k \in 1..n : Roomy(fs, ds[k], k)
  BY <1>1 DEF Framed, Roomy, Base
<1>3. ASSUME NEW k \in 1..(n - 1) PROVE Waits(fs, ds[k], ds[k + 1])
  <2>1. k \in 1..n /\ k # n /\ k + 1 \in 1..n
    OBVIOUS
  <2>2. Waits(fs, cs[k], cs[k + 1]) /\ ds[k] = cs[k]
    BY <2>1 DEF Framed
  <2>3. ds[k + 1].func = cs[k + 1].func /\ ds[k + 1].locals = cs[k + 1].locals
    BY <1>1, <2>1
  <2>4. QED BY <2>2, <2>3 DEF Waits
<1>4. QED BY <1>2, <1>3 DEF Framed

LEMMA FramedPush ==
  ASSUME NEW fs, NEW cs, Framed(fs, cs), NEW S, cs \in Seq(S), NEW g,
         Len(cs) > 0 => Waits(fs, cs[Len(cs)], g), Roomy(fs, g, Len(cs) + 1)
  PROVE  Framed(fs, Append(cs, g))
<1> DEFINE ds == Append(cs, g)
           n == Len(cs)
<1>1. n \in Nat /\ Len(ds) = n + 1 /\ ds[n + 1] = g /\ \A k \in 1..n : ds[k] = cs[k]
  BY SeqPush
<1> HIDE DEF ds, n
<1>2. \A k \in 1..(n + 1) : Roomy(fs, ds[k], k)
  <2> SUFFICES ASSUME NEW k \in 1..(n + 1) PROVE Roomy(fs, ds[k], k)
    OBVIOUS
  <2>1. CASE k = n + 1
    BY <1>1, <2>1 DEF n
  <2>2. CASE k # n + 1
    <3>1. k \in 1..n
      BY <1>1, <2>2
    <3>2. QED BY <1>1, <3>1 DEF Framed, n
  <2>3. QED BY <2>1, <2>2
<1>3. ASSUME NEW k \in 1..n PROVE Waits(fs, ds[k], ds[k + 1])
  <2>1. CASE k = n
    BY <1>1, <2>1 DEF n
  <2>2. CASE k # n
    <3>1. k \in 1..(n - 1) /\ k + 1 \in 1..n
      BY <1>1, <2>2
    <3>2. Waits(fs, cs[k], cs[k + 1])
      BY <3>1 DEF Framed, n
    <3>3. QED BY <1>1, <3>1, <3>2
  <2>3. QED BY <2>1, <2>2
<1>4. QED BY <1>1, <1>2, <1>3 DEF Framed, ds

LEMMA FramedPop ==
  ASSUME NEW fs, NEW cs, Framed(fs, cs), NEW S, cs \in Seq(S), Len(cs) > 1,
         NEW ds, ds = SubSeq(cs, 1, Len(cs) - 1)
  PROVE  /\ Framed(fs, ds) /\ Len(ds) = Len(cs) - 1 /\ ds[Len(ds)] = cs[Len(cs) - 1]
         /\ Waits(fs, cs[Len(cs) - 1], cs[Len(cs)])
<1> DEFINE n == Len(cs)
<1>1. n \in Nat /\ Len(ds) = n - 1 /\ \A k \in 1..(n - 1) : ds[k] = cs[k]
  BY SeqPop
<1> HIDE DEF n
<1>2. n > 1
  BY DEF n
<1>3. \A k \in 1..(n - 1) : Roomy(fs, ds[k], k)
  <2>1. \A k \in 1..(n - 1) : k \in 1..n
    BY <1>1
  <2>2. QED BY <1>1, <2>1 DEF Framed, n
<1>4. \A k \in 1..(n - 1 - 1) : Waits(fs, ds[k], ds[k + 1])
  <2> SUFFICES ASSUME NEW k \in 1..(n - 1 - 1) PROVE Waits(fs, ds[k], ds[k + 1])
    OBVIOUS
  <2>1. k \in 1..(n - 1) /\ k + 1 \in 1..(n - 1)
    BY <1>1
  <2>2. QED BY <1>1, <2>1 DEF Framed, n
<1>5. n - 1 \in 1..(n - 1) /\ n - 1 + 1 = n
  BY <1>1, <1>2
<1>6. Waits(fs, cs[n - 1], cs[n])
  <2>1. Waits(fs, cs[n - 1], cs[n - 1 + 1])
    BY <1>5 DEF Framed, n
  <2>2. QED BY <1>5, <2>1
<1>7. QED BY <1>1, <1>3, <1>4, <1>5, <1>6 DEF Framed, n

-----------------------------------------------------------------------------
(* What the frames of the interpreter hold *)

\* A frame in a valid body is within what the validator counted, and within
\* the stack.
LEMMA SeatedFits ==
  ASSUME ValInv, TypingInv, phase = "done", verdict = "kOk",
         NEW g, g.func \in Locals, NEW k, Roomy(functions, g, k),
         NEW labels, NEW p, NEW n, NEW x,
         Seated(Typing(g.func), Len(functions[g.func].code), Base(functions, g),
                labels, p, n, x)
  PROVE  /\ p \in Nat /\ p < Len(functions[g.func].code) /\ n \in Nat /\ n > 0
         /\ x \in 0..functions[g.func].max_stack_depth
         /\ n <= functions[g.func].max_label_depth
         /\ Base(functions, g) \in Nat /\ g.locals <= Base(functions, g)
         /\ Base(functions, g) + x <= stack_size
<1> DEFINE f == g.func
<1>1. PICK T : T = Typing(f)
  OBVIOUS
<1>2. f \in DOMAIN functions /\ Body(f) /\ Certified(f) /\ functions[f] \in Functions
  BY ExecutedBody
<1> DEFINE N == Len(functions[f].code)
<1>3. /\ N \in Nat /\ Formed(T[p], functions[f].results) /\ p \in 0..N
      /\ T[p].ctrls # << >> /\ x = T[p].h /\ n = Len(T[p].ctrls) /\ Live(T[p])
      /\ (T[p].ctrls = << >> <=> p = N)
  BY <1>1, <1>2 DEF Seated, Body
<1>4. T[p] \in States
  BY <1>3 DEF Formed
<1>5. n \in Nat \ {0} /\ x \in Nat
  BY <1>3, <1>4, InnerFacts
<1>6. x <= functions[f].max_stack_depth /\ n <= functions[f].max_label_depth
  BY <1>1, <1>2, <1>3 DEF Certified, CertifiedBy, HeightsFit
<1>7. /\ functions[f].max_stack_depth \in Int /\ functions[f].params \in Nat
      /\ functions[f].local_count \in Nat
  BY <1>2 DEF Functions
<1>8. Base(functions, g) = g.locals + TotalLocals(functions[f]) /\ g.locals \in Nat
      /\ TotalLocals(functions[f]) \in Nat
  BY <1>7 DEF Base, Roomy, TotalLocals
<1>9. Base(functions, g) + x <= stack_size
  <2>1. CASE k = 1
    <3>1. TotalLocals(functions[f]) + T[p].h <= stack_size
      BY <1>1, <1>3 DEF TypingInv, FirstFrameFits
    <3>2. g.locals = 0
      BY <2>1 DEF Roomy
    <3>3. QED BY <1>3, <1>5, <1>8, <3>1, <3>2
  <2>2. CASE k # 1
    <3>1. Base(functions, g) + functions[f].max_stack_depth <= stack_size
      BY <2>2 DEF Roomy
    <3>2. QED BY <1>5, <1>6, <1>7, <1>8, <3>1, ContextLimits
  <2>3. QED BY <2>1, <2>2
<1>10. /\ p \in Nat /\ p < Len(functions[g.func].code)
  BY <1>3
<1>11. x \in 0..functions[g.func].max_stack_depth
  BY <1>5, <1>6, <1>7
<1>12. Base(functions, g) \in Nat /\ g.locals <= Base(functions, g)
  <2> DEFINE b == Base(functions, g)
             v == TotalLocals(functions[f])
  <2>1. b = g.locals + v /\ g.locals \in Nat /\ v \in Nat
    BY <1>8
  <2> HIDE DEF b, v
  <2>2. b \in Nat /\ g.locals <= b
    BY <2>1
  <2>3. QED BY <2>2 DEF b
<1>13. QED BY <1>5, <1>6, <1>9, <1>10, <1>11, <1>12

\* What is known at an instruction.
Standing(g, f, T, N, p, n, base) ==
  /\ g = call_stack[Len(call_stack)] /\ g = frame /\ f = g.func /\ T = Typing(f)
  /\ f \in Locals /\ f \in DOMAIN functions /\ Body(f) /\ Certified(f)
  /\ functions[f] \in Functions /\ body = functions[f].code
  /\ N = Len(functions[f].code) /\ N \in Nat
  /\ p = regs.ip /\ p \in Nat /\ p < N
  /\ n = regs.label_top /\ n = Len(T[p].ctrls) /\ n \in Nat /\ n > 0
  /\ base = Base(functions, g) /\ base \in Nat /\ g.locals \in Nat
  /\ g.locals <= base /\ base = g.locals + TotalLocals(functions[f])
  /\ stack \in Seq(Nat) /\ sp = Len(stack) /\ sp \in Nat
  /\ T[p].h = sp - base /\ base <= sp
  /\ Formed(T[p], functions[f].results) /\ Upright(T[p])
  /\ T[p].ctrls # << >> /\ T[p] \in States
  /\ Live(T[p]) /\ ~InnerCtrl(T[p]).dead
  /\ InnerCtrl(T[p]).height \in Nat /\ InnerCtrl(T[p]).height <= T[p].h
  /\ InnerCtrl(T[p]) = T[p].ctrls[n] /\ InnerCtrl(T[p]).results \in Nat
  /\ instr = functions[f].code[p + 1] /\ instr \in Instructions
  /\ Checks(T[p], T[p + 1], instr, Signatures) /\ instr.op \in AllOps
  /\ p + 1 \in 0..N /\ Formed(T[p + 1], functions[f].results)
  /\ Placed(functions, g, p, n, sp - base)
  /\ Seated(T, N, base, g.labels, p, n, sp - base)
  /\ Roomy(functions, g, Len(call_stack)) /\ Framed(functions, call_stack)

LEMMA Here ==
  ASSUME ValInv, CtxInv, TypingInv, TypedCtx, status = "running"
  PROVE  \E g, f, T, N, p, n, base : Standing(g, f, T, N, p, n, base)
<1>1. PICK g, T : g = frame /\ T = Typing(g.func)
  OBVIOUS
<1> DEFINE f == g.func
           N == Len(functions[f].code)
           p == regs.ip
           n == regs.label_top
           base == Base(functions, g)
           x == Len(stack) - base
<1>2. /\ top \in Nat /\ top > 0 /\ FrameOK(g) /\ g = call_stack[top] /\ top = Len(call_stack)
      /\ phase = "done" /\ verdict = "kOk"
  BY <1>1, RunningFrame DEF top
<1>3. f \in Locals
  BY <1>2 DEF FrameOK, Locals
<1>4. f \in DOMAIN functions /\ Body(f) /\ Certified(f) /\ functions[f] \in Functions
  BY <1>2, <1>3, ExecutedBody
<1>5. stack \in Seq(Nat) /\ sp = Len(stack) /\ sp \in Nat
  BY DEF TypedCtx, sp
<1>6. /\ Framed(functions, call_stack) /\ Roomy(functions, g, top)
      /\ base <= Len(stack) /\ Placed(functions, g, p, n, x)
  BY <1>2 DEF TypedCtx, Active, OnTop, Framed
<1>7. Seated(T, N, base, g.labels, p, n, x)
  BY <1>1, <1>6, TypingHere DEF Placed
<1>8. /\ p \in Nat /\ p < N /\ n \in Nat /\ n > 0 /\ base \in Nat /\ g.locals <= base
  BY <1>1, <1>2, <1>3, <1>6, <1>7, SeatedFits
<1>9. g.locals \in Nat /\ base = g.locals + TotalLocals(functions[f])
  BY <1>6 DEF Roomy, Base
<1>10. /\ T[p].ctrls # << >> /\ Live(T[p]) /\ n = Len(T[p].ctrls) /\ T[p].h = x
  BY <1>7 DEF Seated
<1>11. /\ N \in Nat /\ p \in 0..N /\ p + 1 \in 0..N
       /\ \A m \in 0..N : Formed(T[m], functions[f].results)
       /\ Checks(T[p], T[p + 1], functions[f].code[p + 1], Signatures)
       /\ functions[f].code[p + 1].op \in AllOps
  <2>1. /\ N \in Nat
        /\ \A m \in 0..N : Formed(T[m], functions[f].results)
        /\ \A m \in 0..N : m < N =>
             /\ Checks(T[m], T[m + 1], functions[f].code[m + 1], Signatures)
             /\ functions[f].code[m + 1].op \in AllOps
    BY <1>1, <1>4 DEF Body
  <2>2. p \in 0..N /\ p + 1 \in 0..N
    BY <1>8, <2>1
  <2>3. QED BY <1>8, <2>1, <2>2
<1>12. Formed(T[p], functions[f].results) /\ Formed(T[p + 1], functions[f].results)
  BY <1>11
<1>13. T[p] \in States /\ Upright(T[p])
  BY <1>10, <1>12 DEF Formed
<1>14. /\ ~InnerCtrl(T[p]).dead /\ InnerCtrl(T[p]).height \in Nat
       /\ InnerCtrl(T[p]).height <= T[p].h /\ InnerCtrl(T[p]).results \in Nat
       /\ InnerCtrl(T[p]) = T[p].ctrls[n]
  BY <1>10, <1>13, InnerFacts DEF Upright
<1>15. body = functions[f].code /\ instr = functions[f].code[p + 1]
  BY <1>1 DEF body, instr
<1>16. instr \in Instructions
  <2>1. functions[f].code \in Seq(Instructions) /\ p + 1 \in 1..N
    BY <1>4, <1>8, <1>11 DEF Functions
  <2>2. QED BY <1>15, <2>1
<1> HIDE DEF f, N, p, n, base, x
<1>17. Standing(g, f, T, N, p, n, base)
  BY <1>1, <1>2, <1>3, <1>4, <1>5, <1>6, <1>7, <1>8, <1>9, <1>10, <1>11, <1>12, <1>13,
     <1>14, <1>15, <1>16 DEF f, N, p, n, base, x, Standing
<1>18. QED BY <1>17

-----------------------------------------------------------------------------
(* Steps inside a frame *)

\* The frame on top goes on where the checker has been.
LEMMA GoesOn ==
  ASSUME ValInv, CtxInv, TypingInv, TypedCtx, status = "running", UNCHANGED valVars,
         status' = "running", stack' \in Seq(Nat), NEW g, g = frame, NEW h,
         Len(call_stack') = Len(call_stack), call_stack'[Len(call_stack)] = h,
         \A k \in 1..Len(call_stack) : k # Len(call_stack) => call_stack'[k] = call_stack[k],
         h.func = g.func, h.locals = g.locals, h.labels[1] = g.labels[1],
         NEW p, NEW n, regs' = [ip |-> p, label_top |-> n], NEW base,
         base = Base(functions, g), base <= Len(stack'),
         Seated(Typing(g.func), Len(functions[g.func].code), base, h.labels, p, n,
                Len(stack') - base)
  PROVE  TypedCtx'
<1>1. /\ g = call_stack[Len(call_stack)] /\ g.func \in Locals
      /\ Framed(functions, call_stack) /\ Roomy(functions, g, Len(call_stack))
      /\ Placed(functions, g, regs.ip, regs.label_top, sp - base)
  BY Here DEF Standing
<1>2. Len(call_stack) \in Nat /\ phase = "done" /\ verdict = "kOk"
  BY RunningFrame DEF top
<1>3. Base(functions, h) = base
  BY DEF Base
<1>4. Base(functions, g) + (Len(stack') - base) <= stack_size /\ base \in Nat
  BY <1>1, <1>2, SeatedFits
<1>5. Len(stack') \in Nat
  OBVIOUS
<1>6. Len(stack') <= stack_size
  BY <1>4, <1>5
<1>7. Framed(functions, call_stack')
  <2> DEFINE n2 == Len(call_stack)
             ds == call_stack'
  <2>1. /\ n2 \in Nat /\ Framed(functions, call_stack) /\ Len(ds) = n2
        /\ \A k \in 1..n2 : k # n2 => ds[k] = call_stack[k]
    BY <1>1, <1>2
  <2>2. n2 > 0 => ds[n2].func = call_stack[n2].func /\ ds[n2].locals = call_stack[n2].locals
    BY <1>1
  <2>3. n2 = Len(call_stack)
    OBVIOUS
  <2> HIDE DEF n2, ds
  <2>4. Framed(functions, ds)
    BY ONLY <2>1, <2>2, <2>3, FramedSame
  <2>5. QED BY <2>4 DEF ds
<1>8. Placed(functions, h, p, n, Len(stack') - base)
  BY <1>1, <1>3, TypingHere DEF Placed
<1>9. OnTop(functions, h, p, n, Len(stack'))
  BY <1>3, <1>8 DEF OnTop
<1>10. functions' = functions
  BY DEF valVars
<1>11. QED BY <1>6, <1>7, <1>9, <1>10 DEF TypedCtx, Active

\* The frame is not written.
LEMMA GoesOnSame ==
  ASSUME ValInv, CtxInv, TypingInv, TypedCtx, status = "running", UNCHANGED valVars,
         UNCHANGED <<call_stack, status>>, stack' \in Seq(Nat), NEW g, g = frame,
         NEW p, NEW n, regs' = [ip |-> p, label_top |-> n], NEW base,
         base = Base(functions, g), base <= Len(stack'),
         Seated(Typing(g.func), Len(functions[g.func].code), base, g.labels, p, n,
                Len(stack') - base)
  PROVE  TypedCtx'
<1>1. g = call_stack[Len(call_stack)]
  BY Here DEF Standing
<1>2. QED BY <1>1, GoesOn

LEMMA TrapTyped ==
  ASSUME TypedCtx, status' \notin {"running", "yielded"},
         stack' \in Seq(Nat), Len(stack') <= stack_size
  PROVE  TypedCtx'
BY DEF TypedCtx, Active

\* The lengths and the elements of Below and Topmost.
LEMMA BelowNat ==
  ASSUME NEW s, s \in Seq(Nat), NEW n, n \in Nat, n <= Len(s)
  PROVE  Below(s, n) \in Seq(Nat) /\ Len(Below(s, n)) = Len(s) - n /\ Len(s) \in Nat
BY DEF Below

LEMMA TopmostNat ==
  ASSUME NEW s, s \in Seq(Nat), NEW n, n \in Nat, n <= Len(s)
  PROVE  Topmost(s, n) \in Seq(Nat) /\ Len(Topmost(s, n)) = n
<1>1. Len(s) \in Nat /\ \A i \in (Len(s) - n + 1)..Len(s) : s[i] \in Nat
  OBVIOUS
<1>2. QED BY <1>1 DEF Topmost

LEMMA ConcatNat ==
  ASSUME NEW a, NEW b, a \in Seq(Nat), b \in Seq(Nat)
  PROVE  a \o b \in Seq(Nat) /\ Len(a \o b) = Len(a) + Len(b)
OBVIOUS

LEMMA UnwoundNat ==
  ASSUME NEW s, s \in Seq(Nat), NEW d, NEW n, d \in Nat, n \in Nat, d <= Len(s), n <= Len(s)
  PROVE  Unwound(s, d, n) \in Seq(Nat) /\ Len(Unwound(s, d, n)) = d + n
<1> DEFINE a == SubSeq(s, 1, d)
           b == Topmost(s, n)
<1>1. a \in Seq(Nat) /\ Len(a) = d
  OBVIOUS
<1>2. b \in Seq(Nat) /\ Len(b) = n
  BY TopmostNat
<1> HIDE DEF a, b
<1>3. a \o b \in Seq(Nat) /\ Len(a \o b) = d + n
  BY <1>1, <1>2, ConcatNat
<1>4. QED BY <1>3 DEF Unwound, a, b

LEMMA TuplesNat ==
  ASSUME NEW n, n \in Nat, NEW r, r \in Tuples(n)
  PROVE  r \in Seq(Nat) /\ Len(r) = n
<1>1. r = [k \in 1..n |-> r[k]] /\ \A k \in 1..n : r[k] \in Values
  BY DEF Tuples
<1>2. \A k \in 1..n : r[k] \in Nat
  BY <1>1, SlotValues
<1>3. QED BY <1>1, <1>2

LEMMA ZerosNat ==
  ASSUME NEW n, n \in Nat
  PROVE  Zeros(n) \in Seq(Nat) /\ Len(Zeros(n)) = n
BY DEF Zeros

-----------------------------------------------------------------------------
(* The instructions that move operands *)

\* Where the body goes on with the blocks that are open.
LEMMA MovesGoes ==
  ASSUME NEW T, NEW N, NEW p, NEW n, n = Len(T[p].ctrls), NEW q, q \in 0..N, NEW a, NEW b,
         Moves(T[p], T[q], a, b)
  PROVE  Goes(T, N, q, T[p], n, T[q].h)
<1>1. T[q].ctrls = T[p].ctrls
  BY DEF Moves
<1>2. QED BY <1>1 DEF Goes, Agree

\* The body goes on at q inside the k outermost blocks.
LEMMA Advances ==
  ASSUME ValInv, CtxInv, TypingInv, TypedCtx, status = "running", UNCHANGED valVars,
         UNCHANGED <<call_stack, status>>, stack' \in Seq(Nat),
         NEW T, T = Typing(frame.func), NEW N, N = Len(functions[frame.func].code),
         NEW q, NEW k, k \in Nat, k >= 1, k <= regs.label_top,
         regs' = [ip |-> q, label_top |-> k], NEW base, base = Base(functions, frame),
         base <= Len(stack'), Goes(T, N, q, T[regs.ip], k, Len(stack') - base)
  PROVE  TypedCtx'
<1>1. /\ Seated(T, N, base, frame.labels, regs.ip, regs.label_top, sp - base)
      /\ regs.label_top \in Nat
  BY Here DEF Standing
<1>2. frame.labels \in Seq(LabelRecs) /\ regs.label_top <= Len(frame.labels)
  BY <1>1 DEF Seated
<1>3. k <= Len(frame.labels)
  BY <1>1, <1>2
<1>4. Seated(T, N, base, frame.labels, q, k, Len(stack') - base)
  BY <1>1, <1>2, <1>3, SeatedMoves
<1>5. QED BY <1>4, GoesOnSame

\* One instruction further, with a operands taken and b put.
LEMMA MovesOn ==
  ASSUME ValInv, CtxInv, TypingInv, TypedCtx, status = "running", UNCHANGED valVars,
         UNCHANGED <<call_stack, status>>, stack' \in Seq(Nat),
         Step(regs.label_top), NEW a, NEW b, a \in Nat, b \in Nat,
         Moves(Typing(frame.func)[regs.ip], Typing(frame.func)[regs.ip + 1], a, b),
         Len(stack') = sp - a + b
  PROVE  TypedCtx'
<1>h. PICK g, f, T, N, p, n, base : Standing(g, f, T, N, p, n, base)
  BY Here
<1>1. /\ g = frame /\ f = g.func /\ T = Typing(f) /\ N = Len(functions[f].code)
      /\ p = regs.ip /\ n = regs.label_top /\ base = Base(functions, g)
      /\ n = Len(T[p].ctrls) /\ n \in Nat /\ n > 0 /\ p + 1 \in 0..N /\ base \in Nat
      /\ T[p].h = sp - base /\ base <= sp /\ sp \in Nat
      /\ ~InnerCtrl(T[p]).dead
      /\ InnerCtrl(T[p]).height \in Nat /\ InnerCtrl(T[p]).height <= T[p].h
  BY <1>h DEF Standing
<1> DEFINE q == p + 1
           x == Len(stack') - base
<1>2. q \in 0..N /\ Moves(T[p], T[q], a, b)
  BY <1>1
<1>3. regs' = [ip |-> q, label_top |-> n]
  BY <1>1 DEF Step, Continue
<1> HIDE DEF q
<1>4. a <= T[p].h - InnerCtrl(T[p]).height /\ T[q].h = T[p].h - a + b
  BY <1>1, <1>2 DEF Moves
<1>5. T[q].h = x /\ base <= Len(stack')
  BY <1>1, <1>4
<1>6. Goes(T, N, q, T[p], n, T[q].h)
  BY <1>1, <1>2, MovesGoes
<1>7. n >= 1 /\ n <= regs.label_top /\ p = regs.ip /\ T = Typing(frame.func)
      /\ N = Len(functions[frame.func].code) /\ base = Base(functions, frame)
  BY <1>1
<1>8. Goes(T, N, q, T[regs.ip], n, x)
  BY <1>5, <1>6, <1>7
<1>9. QED BY <1>1, <1>3, <1>5, <1>7, <1>8, Advances DEF x

\* What an instruction takes is on the stack of its frame.
LEMMA Takes ==
  ASSUME ValInv, CtxInv, TypingInv, TypedCtx, status = "running", NEW a, NEW b, a \in Nat,
         Moves(Typing(frame.func)[regs.ip], Typing(frame.func)[regs.ip + 1], a, b)
  PROVE  /\ a <= sp /\ sp \in Nat /\ sp = Len(stack) /\ stack \in Seq(Nat)
         /\ a <= sp - Base(functions, frame)
<1>1. PICK s, r : s = Typing(frame.func)[regs.ip] /\ r = Typing(frame.func)[regs.ip + 1]
  OBVIOUS
<1>2. /\ s.h = sp - Base(functions, frame) /\ Base(functions, frame) \in Nat /\ sp \in Nat
      /\ ~InnerCtrl(s).dead /\ InnerCtrl(s).height \in Nat
      /\ sp = Len(stack) /\ stack \in Seq(Nat)
  BY <1>1, Here DEF Standing
<1>3. a <= s.h - InnerCtrl(s).height
  BY <1>1, <1>2 DEF Moves
<1>4. QED BY <1>2, <1>3

\* Checked indices are inside the locals of the frame.
LEMMA LocalSlots ==
  ASSUME ValInv, CtxInv, TypingInv, TypedCtx, Running(SimpleOps), instr.op \in LocalOps
  PROVE  LocalSlot(instr.local) \in Nat /\ LocalSlot(instr.local) > 0
         /\ LocalSlot(instr.local) <= Base(functions, frame)
<1>1. FrameOK(frame) /\ phase = "done" /\ verdict = "kOk"
  BY RunningFrame DEF Running
<1>2. /\ frame.func \in DOMAIN functions /\ functions[frame.func].kind = "local"
      /\ func_idx = Len(functions) + 1 /\ functions \in Seq(Functions)
  BY <1>1 DEF FrameOK, ValInv, Progress, ValidatorTypeOK
<1>3. Scanned(frame.func) = Len(body)
  BY <1>1, <1>2 DEF Scanned, body
<1>4. regs.ip + 1 \in 1..Len(body)
  BY <1>2, FunctionFields DEF Running, ValInv, body
<1>5. InRange(frame.func, instr)
  BY <1>2, <1>3, <1>4 DEF ValInv, IndicesChecked, instr, body
<1>6. instr.local < TotalLocals(functions[frame.func])
  BY <1>5 DEF InRange
<1>7. instr \in Instructions /\ frame.locals \in Nat
      /\ Base(functions, frame) = frame.locals + TotalLocals(functions[frame.func])
  BY Here DEF Standing, Running
<1>8. instr.local \in Nat
  BY <1>7, InstructionTypes DEF LocalOps
<1>9. TotalLocals(functions[frame.func]) \in Nat
  <2>1. functions[frame.func] \in Functions
    BY <1>2
  <2>2. QED BY <2>1 DEF Functions, TotalLocals
<1>10. QED BY <1>6, <1>7, <1>8, <1>9 DEF LocalSlot

LEMMA SubtractNat ==
  ASSUME NEW a, NEW b, a \in Nat, b \in Nat
  PROVE  Subtract(a, b) \in Nat
<1> DEFINE c == Cardinality(Values)
<1>1. c \in Nat \ {0}
  BY SlotValues
<1> HIDE DEF c
<1>2. (a - b) % c \in Nat
  BY <1>1
<1>3. QED BY <1>2 DEF Subtract, c

LEMMA PutNat ==
  ASSUME NEW s, s \in Seq(Nat), NEW v, v \in Nat
  PROVE  Append(s, v) \in Seq(Nat) /\ Len(Append(s, v)) = Len(s) + 1
OBVIOUS

LEMMA WriteNat ==
  ASSUME NEW s, s \in Seq(Nat), NEW i, i \in 1..Len(s), NEW v, v \in Nat
  PROVE  [s EXCEPT ![i] = v] \in Seq(Nat) /\ Len([s EXCEPT ![i] = v]) = Len(s)
OBVIOUS

\* The stack of an instruction that moves operands, for each of them.
LEMMA OperandStack ==
  ASSUME ValInv, CtxInv, TypingInv, TypedCtx, Operand
  PROVE  /\ instr.op \in DOMAIN Effect /\ stack' \in Seq(Nat)
         /\ Len(stack') = sp - Effect[instr.op][1] + Effect[instr.op][2]
<1>1. status = "running" /\ Running(SimpleOps) /\ instr.op \in SimpleOps
  BY DEF Operand, Running, instr
<1>2. instr.op \in {"nop", "const", "unary", "binary", "drop", "select", "store",
                    "local_get", "local_set", "local_tee"}
  BY <1>1 DEF SimpleOps, Operands
<1>3. instr.op \in DOMAIN Effect
  BY <1>2, EffectOps
<1> DEFINE a == Effect[instr.op][1]
           b == Effect[instr.op][2]
<1>4. a \in Nat /\ b \in Nat
  BY <1>3, EffectOps
<1>5. Moves(Typing(frame.func)[regs.ip], Typing(frame.func)[regs.ip + 1], a, b)
      /\ instr \in Instructions
  BY <1>1, <1>3, Here DEF Standing, Checks
<1>6. a <= sp /\ sp \in Nat /\ sp = Len(stack) /\ stack \in Seq(Nat)
      /\ a <= sp - Base(functions, frame) /\ Base(functions, frame) \in Nat
  <2> HIDE DEF a, b
  <2>1. Base(functions, frame) \in Nat
    BY <1>1, Here DEF Standing
  <2>2. QED BY <1>1, <1>4, <1>5, <2>1, Takes
<1>7. \A i \in 1..sp : stack[i] \in Nat
  BY <1>6
<1>8. CASE instr.op = "nop"
  <2>1. stack' = stack /\ a = 0 /\ b = 0
    BY <1>8 DEF Operand, Effect
  <2>2. QED BY <1>3, <1>6, <2>1
<1>9. CASE instr.op = "const"
  <2>1. stack' = Append(stack, instr.value) /\ a = 0 /\ b = 1
    BY <1>9 DEF Operand, Effect
  <2>2. instr.value \in Nat
    BY <1>5, <1>9, SlotValues
  <2>3. QED BY <1>3, <1>6, <2>1, <2>2, PutNat
<1>10. CASE instr.op = "unary"
  <2>1. stack' = Append(Below(stack, 1), Bool(stack[sp] = 0)) /\ a = 1 /\ b = 1
    BY <1>10 DEF Operand, Effect
  <2>2. Below(stack, 1) \in Seq(Nat) /\ Len(Below(stack, 1)) = sp - 1
    BY <1>6, <2>1, BelowNat
  <2>3. Bool(stack[sp] = 0) \in Nat
    BY DEF Bool
  <2>4. QED BY <1>3, <1>6, <2>1, <2>2, <2>3, PutNat
<1>11. CASE instr.op = "binary"
  <2>1. stack' = Append(Below(stack, 2), Subtract(stack[sp - 1], stack[sp])) /\ a = 2 /\ b = 1
    BY <1>11 DEF Operand, Effect
  <2>2. Below(stack, 2) \in Seq(Nat) /\ Len(Below(stack, 2)) = sp - 2
    BY <1>6, <2>1, BelowNat
  <2>3. sp \in 1..sp /\ sp - 1 \in 1..sp
    BY <1>6, <2>1
  <2>4. stack[sp] \in Nat /\ stack[sp - 1] \in Nat
    BY <1>7, <2>3
  <2>5. Subtract(stack[sp - 1], stack[sp]) \in Nat
    BY <2>4, SubtractNat
  <2>6. QED BY <1>3, <1>6, <2>1, <2>2, <2>5, PutNat
<1>12. CASE instr.op = "drop"
  <2>1. stack' = Below(stack, 1) /\ a = 1 /\ b = 0
    BY <1>12 DEF Operand, Effect
  <2>2. Below(stack, 1) \in Seq(Nat) /\ Len(Below(stack, 1)) = sp - 1
    BY <1>6, <2>1, BelowNat
  <2>3. QED BY <1>3, <1>6, <2>1, <2>2
<1>13. CASE instr.op = "store"
  <2>1. stack' = Below(stack, 2) /\ a = 2 /\ b = 0
    BY <1>13 DEF Operand, Effect
  <2>2. Below(stack, 2) \in Seq(Nat) /\ Len(Below(stack, 2)) = sp - 2
    BY <1>6, <2>1, BelowNat
  <2>3. QED BY <1>3, <1>6, <2>1, <2>2
<1>14. CASE instr.op = "select"
  <2>1. stack' = Append(Below(stack, 3), stack[IF stack[sp] # 0 THEN sp - 2 ELSE sp - 1])
        /\ a = 3 /\ b = 1
    BY <1>14 DEF Operand, Effect
  <2>2. Below(stack, 3) \in Seq(Nat) /\ Len(Below(stack, 3)) = sp - 3
    BY <1>6, <2>1, BelowNat
  <2>3. sp - 2 \in 1..sp /\ sp - 1 \in 1..sp
    BY <1>6, <2>1
  <2>4. stack[IF stack[sp] # 0 THEN sp - 2 ELSE sp - 1] \in Nat
    BY <1>7, <2>3
  <2>5. QED BY <1>3, <1>6, <2>1, <2>2, <2>4, PutNat
<1>15. CASE instr.op = "local_get"
  <2> DEFINE i == LocalSlot(instr.local)
  <2>1. stack' = Append(stack, stack[i]) /\ a = 0 /\ b = 1
    BY <1>15 DEF Operand, Effect
  <2>2. i \in Nat /\ i > 0 /\ i <= Base(functions, frame)
    BY <1>1, <1>15, LocalSlots DEF LocalOps
  <2> HIDE DEF i
  <2>3. i \in 1..sp
    BY <1>6, <2>1, <2>2
  <2>4. QED BY <1>3, <1>6, <1>7, <2>1, <2>3, PutNat
<1>16. CASE instr.op = "local_set"
  <2> DEFINE i == LocalSlot(instr.local)
             s == [stack EXCEPT ![i] = stack[sp]]
  <2>1. stack' = Below(s, 1) /\ a = 1 /\ b = 0
    BY <1>16 DEF Operand, Effect
  <2>2. i \in Nat /\ i > 0 /\ i <= Base(functions, frame)
    BY <1>1, <1>16, LocalSlots DEF LocalOps
  <2> HIDE DEF i
  <2>3. i \in 1..Len(stack) /\ stack[sp] \in Nat
    BY <1>6, <1>7, <2>1, <2>2
  <2>4. s \in Seq(Nat) /\ Len(s) = sp
    BY <1>6, <2>3, WriteNat
  <2> HIDE DEF s
  <2>5. Below(s, 1) \in Seq(Nat) /\ Len(Below(s, 1)) = sp - 1
    BY <1>6, <2>1, <2>4, BelowNat
  <2>6. QED BY <1>3, <1>6, <2>1, <2>5
<1>17. CASE instr.op = "local_tee"
  <2> DEFINE i == LocalSlot(instr.local)
             s == [stack EXCEPT ![i] = stack[sp]]
  <2>1. stack' = s /\ a = 1 /\ b = 1
    BY <1>17 DEF Operand, Effect
  <2>2. i \in Nat /\ i > 0 /\ i <= Base(functions, frame)
    BY <1>1, <1>17, LocalSlots DEF LocalOps
  <2> HIDE DEF i
  <2>3. i \in 1..Len(stack) /\ stack[sp] \in Nat
    BY <1>6, <1>7, <2>1, <2>2
  <2>4. s \in Seq(Nat) /\ Len(s) = sp
    BY <1>6, <2>3, WriteNat
  <2> HIDE DEF s
  <2>5. QED BY <1>3, <1>6, <2>1, <2>4
<1>18. QED
  BY <1>2, <1>8, <1>9, <1>10, <1>11, <1>12, <1>13, <1>14, <1>15, <1>16, <1>17

LEMMA OperandTyped == ASSUME ValInv, CtxInv, TypingInv, TypedCtx, Operand PROVE TypedCtx'
<1>1. /\ status = "running" /\ UNCHANGED valVars /\ UNCHANGED <<call_stack, status>>
      /\ Step(regs.label_top)
  BY DEF Operand, Running
<1> DEFINE a == Effect[instr.op][1]
           b == Effect[instr.op][2]
<1>2. instr.op \in DOMAIN Effect /\ stack' \in Seq(Nat) /\ Len(stack') = sp - a + b
  BY OperandStack
<1>3. a \in Nat /\ b \in Nat
  BY <1>2, EffectOps
<1>4. Moves(Typing(frame.func)[regs.ip], Typing(frame.func)[regs.ip + 1], a, b)
  BY <1>1, <1>2, Here DEF Standing, Checks
<1> HIDE DEF a, b
<1>5. QED BY <1>1, <1>2, <1>3, <1>4, MovesOn

LEMMA UnreachableTyped == ASSUME TypedCtx, Unreachable PROVE TypedCtx'
<1>1. status' = "kErrorExecuteTrapUnreachable" /\ stack' = stack
  BY DEF Unreachable, Trap
<1>2. stack \in Seq(Nat) /\ Len(stack) <= stack_size
  BY DEF TypedCtx
<1>3. QED BY <1>1, <1>2, TrapTyped

-----------------------------------------------------------------------------
(* The instructions that enter a block *)

\* The entry of the block that begins here says where it ends.
LEMMA EntryHere ==
  ASSUME ValInv, CtxInv, TypingInv, TypedCtx, Running({"block", "if"})
  PROVE  /\ JumpEntry # 0 /\ Entry.end # 0 /\ Entry.body = regs.ip + 1
         /\ EntryFits(Typing(frame.func), Len(functions[frame.func].code), Entry)
         /\ Spans(Typing(frame.func), functions[frame.func].code, Entry, Entry.end - 1)
         /\ Entry.else \in Nat
<1>h. PICK g, f, T, N, p, n, base : Standing(g, f, T, N, p, n, base)
  BY Here DEF Running
<1>1. /\ g = frame /\ f = g.func /\ T = Typing(f) /\ N = Len(functions[f].code)
      /\ p = regs.ip /\ p \in Nat /\ p < N /\ N \in Nat
      /\ Certified(f) /\ functions[f] \in Functions /\ f \in DOMAIN functions
      /\ instr = functions[f].code[p + 1]
  BY <1>h DEF Standing
<1>2. instr.op \in {"block", "if"}
  BY DEF Running, instr
<1> DEFINE jumps == functions[f].block_jump_table
           q == p + 1
<1>3. jumps \in Seq(JumpEntries) /\ q \in Nat /\ q \in 1..N
  <2>1. functions[f] \in Functions
    BY <1>1
  <2>2. jumps \in Seq(JumpEntries)
    BY ONLY <2>1 DEF Functions
  <2>3. q \in Nat /\ q \in 1..N
    BY <1>1
  <2>4. QED BY <2>2, <2>3
<1>4. Ascending(jumps)
  BY <1>1 DEF ValInv, JumpTablesAscend
<1>5. JumpEntry = FindBlockJump(jumps, q) /\ Entry = jumps[JumpEntry]
  BY <1>1 DEF JumpEntry, Entry
<1>6. /\ \A j \in 1..Len(jumps) : EntryFits(T, N, jumps[j]) /\ jumps[j].end # 0
      /\ \A j \in 1..Len(jumps) : Spans(T, functions[f].code, jumps[j], jumps[j].end - 1)
      /\ Covered(functions[f].code, N, jumps)
  BY <1>1 DEF Certified, CertifiedBy
<1>7. functions[f].code[q].op \in {"block", "if"}
  BY <1>1, <1>2
<1> HIDE DEF jumps, q
<1>8. \E j \in 1..Len(jumps) : jumps[j].body = q
  BY <1>3, <1>6, <1>7 DEF Covered
<1>9. JumpEntry \in 1..Len(jumps) /\ JumpEntry # 0 /\ jumps[JumpEntry].body = q
  <2> DEFINE i == JumpEntry
  <2>1. i = FindBlockJump(jumps, q)
    BY <1>5
  <2> HIDE DEF i
  <2>2. i \in 0..Len(jumps) /\ i # 0 /\ jumps[i].body = q
    BY <1>3, <1>4, <1>8, <2>1, FindsEntry
  <2>3. QED BY <2>2 DEF i
<1>10. /\ EntryFits(T, N, jumps[JumpEntry]) /\ jumps[JumpEntry].end # 0
       /\ Spans(T, functions[f].code, jumps[JumpEntry], jumps[JumpEntry].end - 1)
       /\ jumps[JumpEntry].else \in Nat
  <2>1. jumps[JumpEntry] \in JumpEntries
    BY <1>3, <1>9
  <2>2. QED BY <1>6, <1>9, <2>1 DEF JumpEntries
<1>11. QED BY <1>1, <1>5, <1>9, <1>10 DEF q

\* Writing a label changes the labels of the frame on top.
LEMMA LabelWritten ==
  ASSUME ValInv, CtxInv, status = "running", NEW l, EnterLabel(l)
  PROVE  \E h : /\ Len(call_stack') = Len(call_stack)
                /\ call_stack'[Len(call_stack)] = h
                /\ \A k \in 1..Len(call_stack) :
                     k # Len(call_stack) => call_stack'[k] = call_stack[k]
                /\ h.func = frame.func /\ h.locals = frame.locals
                /\ h.labels = SubSeq(frame.labels, 1, regs.label_top) \o <<l>>
<1>1. /\ top \in Nat /\ top > 0 /\ FrameOK(call_stack[top]) /\ frame = call_stack[top]
      /\ Stacked(call_stack, labels_pool_top) /\ top = Len(call_stack)
  BY RunningFrame DEF top
<1> DEFINE labels == SubSeq(frame.labels, 1, regs.label_top) \o <<l>>
           g == [call_stack[top] EXCEPT !.labels = labels]
           ds == [call_stack EXCEPT ![top] = g]
<1>2. call_stack' = ds
  BY <1>1 DEF EnterLabel
<1> HIDE DEF labels
<1>3. g.labels = labels /\ g.func = frame.func /\ g.locals = frame.locals
  BY <1>1 DEF FrameOK, FrameFields
<1> HIDE DEF g
<1>4. PICK S : call_stack \in Seq(S)
  BY <1>1 DEF Stacked
<1>5. top \in 1..Len(call_stack)
  BY <1>1
<1>6. /\ Len(ds) = Len(call_stack)
      /\ \A k \in 1..Len(call_stack) : ds[k] = IF k = top THEN g ELSE call_stack[k]
  BY <1>4, <1>5, SeqSet
<1> HIDE DEF ds
<1>7. ds[Len(call_stack)] = g
  BY <1>1, <1>5, <1>6
<1>8. QED BY <1>1, <1>2, <1>3, <1>6, <1>7 DEF labels

\* The body goes on at q inside a block that was entered.
LEMMA Enters ==
  ASSUME ValInv, CtxInv, TypingInv, TypedCtx, status = "running", UNCHANGED valVars,
         NEW l, EnterLabel(l), stack' \in Seq(Nat), l \in LabelRecs,
         NEW T, T = Typing(frame.func), NEW N, N = Len(functions[frame.func].code),
         NEW q, q \in 0..N, NEW n, n = regs.label_top, NEW m, m = n + 1,
         regs' = [ip |-> q, label_top |-> m],
         Len(T[q].ctrls) = m, Agree(T[regs.ip], T[q], n), ~T[q].ctrls[m].dead,
         NEW base, base = Base(functions, frame), base <= Len(stack'),
         LabelFits(T, N, T[q], m, base, l), T[q].h = Len(stack') - base
  PROVE  TypedCtx'
<1>1. /\ Seated(T, N, base, frame.labels, regs.ip, n, sp - base)
      /\ n \in Nat /\ n > 0
  BY Here DEF Standing
<1> DEFINE ls == SubSeq(frame.labels, 1, n) \o <<l>>
<1>2. PICK h : /\ Len(call_stack') = Len(call_stack)
               /\ call_stack'[Len(call_stack)] = h
               /\ \A k \in 1..Len(call_stack) :
                    k # Len(call_stack) => call_stack'[k] = call_stack[k]
               /\ h.func = frame.func /\ h.locals = frame.locals
               /\ h.labels = ls
  BY LabelWritten
<1>3. Seated(T, N, base, ls, q, m, T[q].h)
  <2>1. ls = SubSeq(frame.labels, 1, n) \o <<l>>
    OBVIOUS
  <2> HIDE DEF ls
  <2>2. Seated(T, N, base, ls, q, n + 1, T[q].h)
    BY <1>1, <2>1, SeatedEnters
  <2>3. QED BY <2>2
<1>4. ls[1] = frame.labels[1]
  <2>1. frame.labels \in Seq(LabelRecs) /\ n <= Len(frame.labels)
    BY <1>1 DEF Seated
  <2>2. QED BY <1>1, <2>1
<1> HIDE DEF ls
<1>5. Seated(T, N, base, h.labels, q, m, Len(stack') - base)
  BY <1>2, <1>3
<1>6. h.labels[1] = frame.labels[1] /\ status' = "running"
  BY <1>2, <1>4 DEF EnterLabel
<1>7. QED BY <1>2, <1>5, <1>6, GoesOn

\* The label was written and the block is left again.
LEMMA EntersNot ==
  ASSUME ValInv, CtxInv, TypingInv, TypedCtx, status = "running", UNCHANGED valVars,
         NEW l, EnterLabel(l), stack' \in Seq(Nat), l \in LabelRecs,
         NEW T, T = Typing(frame.func), NEW N, N = Len(functions[frame.func].code),
         NEW q, NEW n, n = regs.label_top, regs' = [ip |-> q, label_top |-> n],
         NEW base, base = Base(functions, frame), base <= Len(stack'),
         Goes(T, N, q, T[regs.ip], n, Len(stack') - base)
  PROVE  TypedCtx'
<1>1. /\ Seated(T, N, base, frame.labels, regs.ip, n, sp - base)
      /\ n \in Nat /\ n > 0
  BY Here DEF Standing
<1> DEFINE ls == SubSeq(frame.labels, 1, n) \o <<l>>
<1>2. PICK h : /\ Len(call_stack') = Len(call_stack)
               /\ call_stack'[Len(call_stack)] = h
               /\ \A k \in 1..Len(call_stack) :
                    k # Len(call_stack) => call_stack'[k] = call_stack[k]
               /\ h.func = frame.func /\ h.locals = frame.locals
               /\ h.labels = ls
  BY LabelWritten
<1>3. frame.labels \in Seq(LabelRecs) /\ n <= Len(frame.labels)
  BY <1>1 DEF Seated
<1>4. ls \in Seq(LabelRecs) /\ n <= Len(ls) /\ \A j \in 1..n : ls[j] = frame.labels[j]
  BY <1>1, <1>3
<1> HIDE DEF ls
<1>5. n >= 1 /\ n <= n /\ ls[1] = frame.labels[1]
  <2>1. n >= 1 /\ n <= n /\ 1 \in 1..n
    BY <1>1
  <2>2. QED BY <1>4, <2>1
<1>6. Seated(T, N, base, ls, q, n, Len(stack') - base)
  BY <1>1, <1>4, <1>5, SeatedMoves
<1>7. Seated(T, N, base, h.labels, q, n, Len(stack') - base)
  BY <1>2, <1>6
<1>8. h.labels[1] = frame.labels[1] /\ status' = "running"
  BY <1>2, <1>5 DEF EnterLabel
<1>9. QED BY <1>2, <1>7, <1>8, GoesOn

-----------------------------------------------------------------------------
LEMMA OpensFacts ==
  ASSUME NEW s, s \in States, s.ctrls # << >>, ~InnerCtrl(s).dead, NEW r, NEW op, NEW a,
         NEW b, NEW res, Opens(s, r, op, a, b, res)
  PROVE  LET m == Len(s.ctrls) + 1
         IN /\ Len(r.ctrls) = m /\ Agree(s, r, Len(s.ctrls))
            /\ r.ctrls[m] = Ctrl(op, s.h - a, b, res) /\ ~r.ctrls[m].dead
            /\ r.h = s.h - a + b /\ a <= s.h - InnerCtrl(s).height
            /\ InnerCtrl(r) = r.ctrls[m]
<1>1. s.ctrls \in Seq(CtrlRecs)
  BY DEF States
<1> DEFINE c == Ctrl(op, InnerCtrl(r).height, b, res)
           n == Len(s.ctrls)
           m == n + 1
<1>2. /\ r.ctrls = Append(s.ctrls, c) /\ r.h = InnerCtrl(r).height + b
      /\ a <= s.h - InnerCtrl(s).height /\ InnerCtrl(r).height = s.h - a
  BY DEF Opens
<1>3. ~c.dead /\ c = Ctrl(op, s.h - a, b, res)
  BY <1>2 DEF Ctrl
<1> HIDE DEF c
<1>4. /\ Len(r.ctrls) = m /\ r.ctrls[m] = c /\ \A j \in 1..n : r.ctrls[j] = s.ctrls[j]
  BY <1>1, <1>2, SeqPush
<1>5. QED BY <1>1, <1>2, <1>3, <1>4 DEF Agree, InnerCtrl

LEMMA BlockTyped == ASSUME ValInv, CtxInv, TypingInv, TypedCtx, Block PROVE TypedCtx'
<1>h. PICK g, f, T, N, p, n, base : Standing(g, f, T, N, p, n, base)
  BY Here DEF Block, Running
<1> DEFINE q == p + 1
           m == n + 1
           i == instr
           ht == T[p].h - i.params
<1>1. /\ g = frame /\ f = g.func /\ T = Typing(f) /\ N = Len(functions[f].code)
      /\ p = regs.ip /\ p \in Nat /\ n = regs.label_top /\ n = Len(T[p].ctrls)
      /\ n \in Nat /\ n > 0 /\ q \in 0..N /\ q \in Nat
      /\ base = Base(functions, g) /\ base \in Nat /\ base <= sp /\ sp \in Nat
      /\ sp = Len(stack) /\ stack \in Seq(Nat) /\ T[p].h = sp - base
      /\ T[p] \in States /\ T[p].ctrls # << >> /\ ~InnerCtrl(T[p]).dead
      /\ InnerCtrl(T[p]).height \in Nat
      /\ i \in Instructions /\ Checks(T[p], T[q], i, Signatures)
  <2> HIDE DEF i, m, ht
  <2>1. /\ g = frame /\ f = g.func /\ T = Typing(f) /\ N = Len(functions[f].code)
        /\ p = regs.ip /\ p \in Nat /\ n = regs.label_top /\ n = Len(T[p].ctrls)
        /\ n \in Nat /\ n > 0 /\ q \in 0..N /\ q \in Nat
    BY <1>h DEF Standing
  <2>2. /\ base = Base(functions, g) /\ base \in Nat /\ base <= sp /\ sp \in Nat
        /\ sp = Len(stack) /\ stack \in Seq(Nat) /\ T[p].h = sp - base
        /\ T[p] \in States /\ T[p].ctrls # << >> /\ ~InnerCtrl(T[p]).dead
        /\ InnerCtrl(T[p]).height \in Nat
    BY <1>h DEF Standing
  <2>3. i \in Instructions /\ Checks(T[p], T[q], i, Signatures)
    BY <1>h DEF Standing, i
  <2>4. QED BY <2>1, <2>2, <2>3
<1>2. status = "running" /\ i.op \in BlockOps /\ UNCHANGED valVars /\ stack' = stack
  BY DEF Block, Running, instr
<1>3. i.op \in {"block", "loop"} /\ i.params \in Nat /\ i.results \in Nat
  BY <1>1, <1>2, InstructionTypes DEF BlockOps
<1>4. Opens(T[p], T[q], i.op, i.params, i.params, i.results)
  BY <1>1, <1>2 DEF Checks
<1> DEFINE l == [opcode |-> i.op, stack_top |-> sp - i.params,
                 params |-> i.params, results |-> i.results,
                 pc |-> IF i.op = "block" THEN EndTarget ELSE regs.ip + 1]
<1>5. EnterLabel(l) /\ regs' = [ip |-> q, label_top |-> m]
  BY <1>1 DEF Block, Step, Continue
<1> DEFINE c == T[q].ctrls[m]
<1>d. q = p + 1 /\ m = n + 1 /\ ht = T[p].h - i.params
  OBVIOUS
<1> HIDE DEF q, m, ht, i
<1>6. /\ Len(T[q].ctrls) = m /\ Agree(T[p], T[q], n)
      /\ c = Ctrl(i.op, T[p].h - i.params, i.params, i.results) /\ ~c.dead
      /\ T[q].h = T[p].h - i.params + i.params /\ InnerCtrl(T[q]) = c
      /\ i.params <= T[p].h - InnerCtrl(T[p]).height
  <2> DEFINE s == T[p]
             r == T[q]
             o == i.op
             a == i.params
             b == i.params
             u == i.results
  <2>1. /\ s \in States /\ s.ctrls # << >> /\ ~InnerCtrl(s).dead
        /\ n = Len(s.ctrls) /\ Opens(s, r, o, a, b, u)
    BY <1>1, <1>4
  <2> HIDE DEF s, r, o, a, b, u
  <2>2. /\ Len(r.ctrls) = m /\ Agree(s, r, n) /\ r.ctrls[m] = Ctrl(o, s.h - a, b, u)
        /\ ~r.ctrls[m].dead /\ r.h = s.h - a + b /\ a <= s.h - InnerCtrl(s).height
        /\ InnerCtrl(r) = r.ctrls[m]
    <3>1. m = Len(s.ctrls) + 1
      BY <1>d, <2>1
    <3>2. LET k == Len(s.ctrls) + 1
          IN /\ Len(r.ctrls) = k /\ Agree(s, r, Len(s.ctrls))
             /\ r.ctrls[k] = Ctrl(o, s.h - a, b, u) /\ ~r.ctrls[k].dead
             /\ r.h = s.h - a + b /\ a <= s.h - InnerCtrl(s).height
             /\ InnerCtrl(r) = r.ctrls[k]
      BY <2>1, OpensFacts
    <3>3. QED BY <2>1, <3>1, <3>2
  <2>3. QED BY <2>2 DEF s, r, o, a, b, u
<1>7. /\ c.op = i.op /\ c.height = ht /\ c.params = i.params /\ c.results = i.results
  BY <1>6, <1>d DEF Ctrl
<1>8. ht \in Int /\ T[q].h = Len(stack') - base /\ base + ht = sp - i.params
      /\ T[q].h = ht + i.params
  <2>1. T[q].h = T[p].h - i.params + i.params
    BY <1>6
  <2> HIDE DEF c
  <2>2. QED BY <1>1, <1>2, <1>3, <1>d, <2>1
<1> HIDE DEF c
<1>9. i.op = "block" => EndTarget \in Nat /\ Goes(T, N, EndTarget, T[q], n, c.height + c.results)
  <2> SUFFICES ASSUME i.op = "block"
               PROVE  EndTarget \in Nat /\ Goes(T, N, EndTarget, T[q], n, c.height + c.results)
    OBVIOUS
  <2>1. Running({"block", "if"})
    BY DEF Block, Running, instr, i
  <2>2. JumpEntry # 0 /\ Entry.end # 0 /\ Entry.body = q /\ EntryFits(T, N, Entry)
    <3>1. /\ JumpEntry # 0 /\ Entry.end # 0 /\ Entry.body = regs.ip + 1
          /\ EntryFits(Typing(frame.func), Len(functions[frame.func].code), Entry)
      BY <2>1, EntryHere
    <3>2. QED BY <1>1, <1>d, <3>1
  <2>3. EndTarget = Entry.end
    BY <2>2 DEF EndTarget
  <2>4. /\ Entry.end \in 1..N /\ Len(T[Entry.end].ctrls) = m - 1
        /\ Agree(T[q], T[Entry.end], m - 1) /\ T[Entry.end].h = c.height + c.results
    BY <1>6, <2>2 DEF EntryFits
  <2>5. m - 1 = n
    BY <1>1, <1>d
  <2>6. N \in Int
    <3>1. N \in Nat
      BY <1>h DEF Standing
    <3>2. QED BY <3>1
  <2>7. Entry.end \in 0..N /\ Entry.end \in Nat
    BY <2>4, <2>6
  <2>8. QED BY <2>3, <2>4, <2>5, <2>7 DEF Goes
<1>10. l \in LabelRecs
  <2>a. sp \in Nat /\ i.params \in Nat /\ regs.ip \in Nat
    BY <1>1, <1>3
  <2>1. sp - i.params \in Int /\ i.op \in {"block", "loop", "if"} /\ regs.ip + 1 \in Nat
    BY <1>3, <2>a
  <2>2. (IF i.op = "block" THEN EndTarget ELSE regs.ip + 1) \in Nat
    BY <1>9, <2>1
  <2>3. QED BY <1>3, <2>1, <2>2 DEF LabelRecs
<1>11. LabelFits(T, N, T[q], m, base, l)
  <2>1. l.stack_top = base + c.height /\ l.results = c.results
        /\ l.opcode = c.op /\ l.params = c.params
    BY <1>7, <1>8
  <2>2. CASE i.op = "loop"
    <3>1. l.pc = q
      BY <1>1, <1>d, <2>2
    <3>2. T[q].h = c.height + c.params
      BY <1>7, <1>8
    <3>3. Goes(T, N, l.pc, T[q], m, c.height + c.params)
      BY <1>1, <1>6, <3>1, <3>2 DEF Goes, Agree
    <3>4. QED BY <1>7, <2>1, <2>2, <3>3 DEF LabelFits, c
  <2>3. CASE i.op = "block"
    <3>1. l.pc = EndTarget /\ m - 1 = n
      BY <1>1, <1>d, <2>3
    <3>2. Goes(T, N, l.pc, T[q], m - 1, c.height + c.results)
      BY <1>9, <2>3, <3>1
    <3>3. QED BY <1>7, <2>1, <2>3, <3>2 DEF LabelFits, c
  <2>4. QED BY <1>3, <2>2, <2>3
<1> HIDE DEF l, q, m, i
<1>12. stack' \in Seq(Nat) /\ base <= Len(stack') /\ m = n + 1
  BY <1>1, <1>2 DEF m
<1>13. ~T[q].ctrls[m].dead
  BY <1>6 DEF c
<1>14. T = Typing(frame.func) /\ N = Len(functions[frame.func].code)
       /\ base = Base(functions, frame) /\ Agree(T[regs.ip], T[q], n)
  BY <1>1, <1>6
<1>15. QED
  BY <1>1, <1>2, <1>5, <1>6, <1>8, <1>10, <1>11, <1>12, <1>13, <1>14, Enters

LEMMA IfTyped == ASSUME ValInv, CtxInv, TypingInv, TypedCtx, If PROVE TypedCtx'
<1>h. PICK g, f, T, N, p, n, base : Standing(g, f, T, N, p, n, base)
  BY Here DEF If, Running
<1> DEFINE q == p + 1
           m == n + 1
           i == instr
           ht == T[p].h - 1
<1>1. /\ g = frame /\ f = g.func /\ T = Typing(f) /\ N = Len(functions[f].code)
      /\ p = regs.ip /\ p \in Nat /\ n = regs.label_top /\ n = Len(T[p].ctrls)
      /\ n \in Nat /\ n > 0 /\ q \in 0..N /\ q \in Nat /\ N \in Nat
      /\ base = Base(functions, g) /\ base \in Nat /\ base <= sp /\ sp \in Nat
      /\ sp = Len(stack) /\ stack \in Seq(Nat) /\ T[p].h = sp - base
      /\ T[p] \in States /\ T[p].ctrls # << >> /\ ~InnerCtrl(T[p]).dead
      /\ InnerCtrl(T[p]).height \in Nat
      /\ i \in Instructions /\ Checks(T[p], T[q], i, Signatures)
  <2> HIDE DEF i, m, ht
  <2>1. /\ g = frame /\ f = g.func /\ T = Typing(f) /\ N = Len(functions[f].code)
        /\ p = regs.ip /\ p \in Nat /\ n = regs.label_top /\ n = Len(T[p].ctrls)
        /\ n \in Nat /\ n > 0 /\ q \in 0..N /\ q \in Nat /\ N \in Nat
    BY <1>h DEF Standing
  <2>2. /\ base = Base(functions, g) /\ base \in Nat /\ base <= sp /\ sp \in Nat
        /\ sp = Len(stack) /\ stack \in Seq(Nat) /\ T[p].h = sp - base
        /\ T[p] \in States /\ T[p].ctrls # << >> /\ ~InnerCtrl(T[p]).dead
        /\ InnerCtrl(T[p]).height \in Nat
    BY <1>h DEF Standing
  <2>3. i \in Instructions /\ Checks(T[p], T[q], i, Signatures)
    BY <1>h DEF Standing, i
  <2>4. QED BY <2>1, <2>2, <2>3
<1>2. status = "running" /\ i.op = "if" /\ UNCHANGED valVars /\ stack' = Below(stack, 1)
  BY DEF If, Running, instr
<1>3. i.results \in Nat
  BY <1>1, <1>2, InstructionTypes
<1>4. Opens(T[p], T[q], "if", 1, 0, i.results)
  BY <1>1, <1>2 DEF Checks
<1> DEFINE l == [opcode |-> "if", stack_top |-> sp - 1, params |-> 0,
                 results |-> i.results, pc |-> EndTarget]
           c == T[q].ctrls[m]
<1>d. q = p + 1 /\ m = n + 1 /\ ht = T[p].h - 1
  OBVIOUS
<1> HIDE DEF q, m, ht, i
<1>5. /\ Len(T[q].ctrls) = m /\ Agree(T[p], T[q], n)
      /\ c = Ctrl("if", T[p].h - 1, 0, i.results) /\ ~c.dead
      /\ T[q].h = T[p].h - 1 + 0 /\ InnerCtrl(T[q]) = c
      /\ 1 <= T[p].h - InnerCtrl(T[p]).height
  <2> DEFINE s == T[p]
             r == T[q]
             o == "if"
             a == 1
             b == 0
             u == i.results
  <2>1. /\ s \in States /\ s.ctrls # << >> /\ ~InnerCtrl(s).dead
        /\ n = Len(s.ctrls) /\ Opens(s, r, o, a, b, u)
    BY <1>1, <1>4
  <2> HIDE DEF s, r, o, a, b, u
  <2>2. /\ Len(r.ctrls) = m /\ Agree(s, r, n) /\ r.ctrls[m] = Ctrl(o, s.h - a, b, u)
        /\ ~r.ctrls[m].dead /\ r.h = s.h - a + b /\ a <= s.h - InnerCtrl(s).height
        /\ InnerCtrl(r) = r.ctrls[m]
    <3>1. m = Len(s.ctrls) + 1
      BY <1>d, <2>1
    <3>2. LET k == Len(s.ctrls) + 1
          IN /\ Len(r.ctrls) = k /\ Agree(s, r, Len(s.ctrls))
             /\ r.ctrls[k] = Ctrl(o, s.h - a, b, u) /\ ~r.ctrls[k].dead
             /\ r.h = s.h - a + b /\ a <= s.h - InnerCtrl(s).height
             /\ InnerCtrl(r) = r.ctrls[k]
      BY <2>1, OpensFacts
    <3>3. QED BY <2>1, <3>1, <3>2
  <2>3. QED BY <2>2 DEF s, r, o, a, b, u
<1>6. c.op = "if" /\ c.height = ht /\ c.params = 0 /\ c.results = i.results
  BY <1>5, <1>d DEF Ctrl
<1>7. 1 <= Len(stack)
  BY <1>1, <1>5
<1>8. stack' \in Seq(Nat) /\ Len(stack') = sp - 1
  BY <1>1, <1>2, <1>7, BelowNat
<1>9. /\ ht \in Int /\ ht = Len(stack') - base /\ base + ht = sp - 1 /\ base <= Len(stack')
      /\ T[q].h = ht /\ m - 1 = n
  <2>1. T[q].h = T[p].h - 1 + 0
    BY <1>5
  <2>2. m - 1 = n
    BY <1>1, <1>d
  <2>3. T[p].h \in Int
    BY <1>1
  <2>4. ht \in Int /\ T[q].h = ht
    BY <1>d, <2>1, <2>3
  <2>a. /\ sp \in Nat /\ base \in Nat /\ T[p].h = sp - base /\ Len(stack') = sp - 1
        /\ 1 <= T[p].h - InnerCtrl(T[p]).height /\ InnerCtrl(T[p]).height \in Nat
    BY <1>1, <1>5, <1>8
  <2>5. ht = Len(stack') - base /\ base + ht = sp - 1 /\ base <= Len(stack')
    BY <1>d, <2>a
  <2> HIDE DEF c
  <2>6. QED BY <2>2, <2>4, <2>5
<1> HIDE DEF c
<1> DEFINE e == Entry.end
<1>10. /\ JumpEntry # 0 /\ e # 0 /\ Entry.body = q /\ EntryFits(T, N, Entry)
       /\ EndTarget = e
  <2>1. Running({"block", "if"})
    BY DEF If, Running, instr
  <2>2. JumpEntry # 0 /\ e # 0 /\ Entry.body = q /\ EntryFits(T, N, Entry)
    <3>1. /\ JumpEntry # 0 /\ Entry.end # 0 /\ Entry.body = regs.ip + 1
          /\ EntryFits(Typing(frame.func), Len(functions[frame.func].code), Entry)
      BY <2>1, EntryHere
    <3>2. QED BY <1>1, <1>d, <3>1
  <2>3. QED BY <2>2 DEF EndTarget
<1>11. /\ e \in 1..N /\ Len(T[e].ctrls) = n /\ Agree(T[q], T[e], n)
       /\ T[e].h = c.height + c.results /\ (Entry.else = 0 => c.results = 0)
  BY <1>5, <1>6, <1>9, <1>10 DEF EntryFits
<1>12. e \in 0..N /\ e \in Nat
  BY <1>1, <1>11
<1>13. l \in LabelRecs /\ EnterLabel(l)
  <2>1. l \in LabelRecs
    BY <1>1, <1>3, <1>10, <1>12 DEF LabelRecs
  <2>2. EnterLabel(l)
    BY DEF If, i
  <2>3. QED BY <2>1, <2>2
<1>14. ASSUME NEW r, r.ctrls[m].op # "loop", r.ctrls[m].height = ht,
              r.ctrls[m].results = c.results, Agree(T[q], r, n)
       PROVE  LabelFits(T, N, r, m, base, l)
  <2>1. l.stack_top = base + r.ctrls[m].height /\ l.results = r.ctrls[m].results
        /\ l.opcode # "loop" /\ l.pc = e
    BY <1>6, <1>9, <1>10, <1>14
  <2>2. Agree(r, T[e], n)
    BY <1>11, <1>14 DEF Agree
  <2>3. T[e].h = r.ctrls[m].height + r.ctrls[m].results
    BY <1>6, <1>11, <1>14
  <2>4. Goes(T, N, l.pc, r, m - 1, r.ctrls[m].height + r.ctrls[m].results)
    BY <1>9, <1>11, <1>12, <2>1, <2>2, <2>3 DEF Goes
  <2>5. QED BY <1>14, <2>1, <2>4 DEF LabelFits
<1>15. T = Typing(frame.func) /\ N = Len(functions[frame.func].code)
       /\ base = Base(functions, frame) /\ Agree(T[regs.ip], T[q], n) /\ m = n + 1
  BY <1>1, <1>5, <1>d
<1>16. /\ \/ Continue(q, m)
          \/ Entry.else # 0 /\ Continue(Entry.else, m)
          \/ Entry.else = 0 /\ Continue(e, n)
  BY <1>1, <1>10, <1>d DEF If, Step
<1> HIDE DEF l, q, m, i, e
<1>17. CASE Continue(q, m)
  <2>1. LabelFits(T, N, T[q], m, base, l)
    BY <1>5, <1>6, <1>14, <1>15 DEF c, Agree
  <2>2. ~T[q].ctrls[m].dead /\ regs' = [ip |-> q, label_top |-> m]
    BY <1>5, <1>17 DEF c, Continue
  <2>3. T[q].h = Len(stack') - base
    BY <1>9
  <2>4. QED
    BY <1>1, <1>2, <1>5, <1>8, <1>9, <1>13, <1>15, <2>1, <2>2, <2>3, Enters
<1>18. CASE Entry.else # 0 /\ Continue(Entry.else, m)
  <2> DEFINE k == Entry.else
  <2>1. /\ k \in 1..N /\ Len(T[k].ctrls) = m /\ Agree(T[q], T[k], n)
        /\ InnerCtrl(T[k]) = Ctrl("else", c.height, c.params, c.results)
        /\ T[k].h = c.height
    BY <1>5, <1>9, <1>10, <1>18 DEF EntryFits
  <2> HIDE DEF k
  <2>2. /\ T[k].ctrls[m].op # "loop" /\ T[k].ctrls[m].height = ht
        /\ T[k].ctrls[m].results = c.results /\ ~T[k].ctrls[m].dead
    BY <1>6, <2>1 DEF InnerCtrl, Ctrl
  <2>3. LabelFits(T, N, T[k], m, base, l)
    BY <1>14, <2>1, <2>2
  <2>4. regs' = [ip |-> k, label_top |-> m]
    BY <1>18 DEF k, Continue
  <2>5. T[k].h = Len(stack') - base /\ k \in 0..N
    BY <1>1, <1>6, <1>9, <2>1
  <2>6. Agree(T[regs.ip], T[k], n)
    BY <1>15, <2>1 DEF Agree
  <2>7. QED
    BY <1>1, <1>2, <1>8, <1>9, <1>13, <1>15, <2>1, <2>2, <2>3, <2>4, <2>5, <2>6, Enters
<1>19. CASE Entry.else = 0 /\ Continue(e, n)
  <2>1. T[e].h = Len(stack') - base
    BY <1>3, <1>6, <1>9, <1>11, <1>19
  <2>2. Agree(T[regs.ip], T[e], n)
    BY <1>11, <1>15 DEF Agree
  <2>3. Goes(T, N, e, T[regs.ip], n, Len(stack') - base)
    BY <1>11, <1>12, <2>1, <2>2 DEF Goes
  <2>4. regs' = [ip |-> e, label_top |-> n]
    BY <1>19 DEF Continue
  <2>5. QED BY <1>1, <1>2, <1>8, <1>9, <1>13, <1>15, <2>3, <2>4, EntersNot
<1>20. QED BY <1>16, <1>17, <1>18, <1>19

-----------------------------------------------------------------------------
(* The instructions that leave a block or the frame *)

LEMMA ElseTyped == ASSUME ValInv, CtxInv, TypingInv, TypedCtx, Else PROVE TypedCtx'
<1>h. PICK g, f, T, N, p, n, base : Standing(g, f, T, N, p, n, base)
  BY Here DEF Else, Running
<1> DEFINE q == p + 1
<1>1. /\ g = frame /\ f = g.func /\ T = Typing(f) /\ N = Len(functions[f].code)
      /\ p = regs.ip /\ n = regs.label_top /\ n = Len(T[p].ctrls)
      /\ n \in Nat /\ n > 0 /\ base = Base(functions, g) /\ base <= sp
      /\ sp = Len(stack) /\ stack \in Seq(Nat) /\ T[p].h = sp - base
      /\ ~InnerCtrl(T[p]).dead /\ InnerCtrl(T[p]) = T[p].ctrls[n]
      /\ Formed(T[p], functions[f].results)
      /\ Checks(T[p], T[q], instr, Signatures)
      /\ Seated(T, N, base, g.labels, p, n, sp - base)
  BY <1>h DEF Standing
<1>2. status = "running" /\ instr.op = "else" /\ UNCHANGED valVars /\ stack' = stack
  BY DEF Else, Running, instr
<1>3. UNCHANGED <<call_stack, status>> /\ Continue(label.pc, n - 1)
  BY <1>1 DEF Else
<1> DEFINE c == T[p].ctrls[n]
           k == n - 1
<1>4. c.op = "if" /\ T[p].h = c.height + c.results
  BY <1>1, <1>2 DEF Checks, Turns
<1>5. n # 1
  <2>1. n \in 1..Len(T[p].ctrls)
    BY <1>1
  <2>2. QED BY <1>1, <1>4, <2>1 DEF Formed
<1>6. k \in Nat /\ k >= 1 /\ k <= n /\ n \in 2..n
  <2>1. n \in Nat /\ n > 0
    BY <1>1
  <2>2. QED BY <1>5, <2>1
<1>7. LabelFits(T, N, T[p], n, base, g.labels[n])
  BY <1>1, <1>6 DEF Seated
<1>8. Goes(T, N, label.pc, T[p], k, sp - base)
  <2>1. label = g.labels[n]
    BY <1>1 DEF label
  <2>2. QED BY <1>1, <1>4, <1>7, <2>1 DEF LabelFits
<1>9. regs' = [ip |-> label.pc, label_top |-> k]
  BY <1>3 DEF Continue
<1> HIDE DEF k, c, q
<1>10. /\ k <= regs.label_top /\ base = Base(functions, frame) /\ base <= Len(stack')
       /\ stack' \in Seq(Nat) /\ T = Typing(frame.func)
       /\ N = Len(functions[frame.func].code)
       /\ Goes(T, N, label.pc, T[regs.ip], k, Len(stack') - base)
  BY <1>1, <1>2, <1>6, <1>8
<1>11. QED BY <1>2, <1>3, <1>6, <1>9, <1>10, Advances

\* Leaving the frame with the results of its function in place of its locals.
LEMMA LeaveTyped ==
  ASSUME ValInv, CtxInv, TypingInv, TypedCtx, status = "running", LeaveFrame,
         stack' \in Seq(Nat), NEW m, m = functions[frame.func].results, m \in Nat,
         Len(stack') = frame.locals + m, m <= sp - Base(functions, frame)
  PROVE  TypedCtx'
<1>h. PICK g, f, T, N, p, n, base : Standing(g, f, T, N, p, n, base)
  BY Here
<1>1. /\ g = frame /\ f = g.func /\ base = Base(functions, g) /\ base \in Nat
      /\ g.locals \in Nat /\ g.locals <= base /\ sp \in Nat /\ sp = Len(stack)
      /\ g = call_stack[Len(call_stack)] /\ Framed(functions, call_stack)
  BY <1>h DEF Standing
<1>2. Len(stack') <= stack_size
  <2>1. sp <= stack_size
    BY <1>1 DEF TypedCtx
  <2>2. stack_size \in Nat
    BY ContextLimits
  <2> DEFINE v == frame.locals
             b == Base(functions, frame)
             d == Len(stack')
  <2>3. v \in Nat /\ b \in Nat /\ v <= b
    BY <1>1
  <2>4. sp \in Nat /\ m <= sp - b /\ d = v + m
    BY <1>1
  <2> HIDE DEF v, b, d
  <2>5. d <= sp
    BY <2>3, <2>4
  <2>6. d \in Nat
    BY <2>3, <2>4
  <2>7. d <= stack_size
    BY <2>1, <2>2, <2>4, <2>5, <2>6
  <2>8. QED BY <2>7 DEF d
<1>3. /\ top \in Nat /\ top > 0 /\ top = Len(call_stack)
      /\ Stacked(call_stack, labels_pool_top)
  BY RunningFrame DEF top
<1>4. functions' = functions /\ call_stack' = SubSeq(call_stack, 1, top - 1)
  BY DEF LeaveFrame, valVars
<1>5. CASE top = 1
  <2>1. status' = "returned"
    BY <1>5 DEF LeaveFrame
  <2>2. QED BY <1>2, <2>1, TrapTyped
<1>6. CASE top > 1
  <2> DEFINE d == call_stack[top - 1]
  <2>1. status' = "running" /\ regs' = [ip |-> d.ip, label_top |-> d.label_stack_top]
    BY <1>6 DEF LeaveFrame, Continue
  <2>2. PICK S : call_stack \in Seq(S)
    BY <1>3 DEF Stacked
  <2>3. /\ Framed(functions, call_stack') /\ call_stack'[Len(call_stack')] = d
        /\ Waits(functions, d, g)
    BY <1>1, <1>3, <1>4, <1>6, <2>2, FramedPop
  <2> HIDE DEF d
  <2>4. /\ Base(functions, d) <= g.locals
        /\ Placed(functions, d, d.ip, d.label_stack_top, g.locals - Base(functions, d) + m)
    BY <1>1, <2>3 DEF Waits
  <2>5. Base(functions, d) \in Nat
    <3>1. Roomy(functions, d, top - 1)
      <4>1. top - 1 \in 1..Len(call_stack)
        BY <1>3, <1>6
      <4>2. QED BY <1>1, <4>1 DEF Framed, d
    <3>2. FrameOK(d)
      <4>1. top - 1 \in 1..Len(call_stack)
        BY <1>3, <1>6
      <4>2. QED BY <1>3, <4>1 DEF Stacked, d
    <3>3. functions[d.func] \in Functions
      BY <3>2, FunctionFields DEF FrameOK, ValInv
    <3>4. TotalLocals(functions[d.func]) \in Nat
      BY <3>3 DEF TotalLocals, Functions
    <3>5. d.locals \in Nat
      BY <3>1 DEF Roomy
    <3>6. QED BY <3>4, <3>5 DEF Base
  <2>6. Base(functions, d) <= Len(stack')
        /\ g.locals - Base(functions, d) + m = Len(stack') - Base(functions, d)
    <3> DEFINE b == Base(functions, d)
    <3>1. b \in Nat /\ b <= g.locals /\ g.locals \in Nat /\ Len(stack') = g.locals + m
      BY <1>1, <2>4, <2>5
    <3> HIDE DEF b
    <3>2. b <= Len(stack') /\ g.locals - b + m = Len(stack') - b
      BY <3>1
    <3>3. QED BY <3>2 DEF b
  <2>7. OnTop(functions, d, d.ip, d.label_stack_top, Len(stack'))
    BY <2>4, <2>6 DEF OnTop
  <2>8. QED BY <1>2, <1>4, <2>1, <2>3, <2>7 DEF TypedCtx, Active
<1>7. QED BY <1>3, <1>5, <1>6

\* The label of the function unwinds to its locals.
LEMMA UnwoundFrame ==
  ASSUME ValInv, CtxInv, TypingInv, TypedCtx, status = "running", LeaveFrame,
         functions[frame.func].results <= sp - Base(functions, frame),
         stack' = Unwound(stack, frame.labels[1].stack_top, frame.labels[1].results)
  PROVE  TypedCtx'
<1>h. PICK g, f, T, N, p, n, base : Standing(g, f, T, N, p, n, base)
  BY Here
<1>1. /\ g = frame /\ f = g.func /\ base = Base(functions, g) /\ base \in Nat
      /\ g.locals \in Nat /\ g.locals <= base /\ base <= sp /\ sp \in Nat /\ sp = Len(stack)
      /\ stack \in Seq(Nat) /\ functions[f] \in Functions
      /\ Placed(functions, g, p, n, sp - base)
  BY <1>h DEF Standing
<1> DEFINE m == functions[f].results
<1>2. m \in Nat /\ m <= sp - base /\ m = functions[frame.func].results
  BY <1>1 DEF Functions
<1>3. stack' = Unwound(stack, g.locals, m)
  BY <1>1 DEF Placed
<1> HIDE DEF m
<1>4. g.locals <= Len(stack) /\ m <= Len(stack)
  BY <1>1, <1>2
<1>5. stack' \in Seq(Nat) /\ Len(stack') = g.locals + m
  BY <1>1, <1>2, <1>3, <1>4, UnwoundNat
<1>6. QED BY <1>1, <1>2, <1>5, LeaveTyped

LEMMA EndTyped == ASSUME ValInv, CtxInv, TypingInv, TypedCtx, End PROVE TypedCtx'
<1>h. PICK g, f, T, N, p, n, base : Standing(g, f, T, N, p, n, base)
  BY Here DEF End, Running
<1> DEFINE q == p + 1
           c == T[p].ctrls[n]
           l == g.labels[n]
<1>1. /\ g = frame /\ f = g.func /\ T = Typing(f) /\ N = Len(functions[f].code)
      /\ p = regs.ip /\ n = regs.label_top /\ n = Len(T[p].ctrls) /\ q \in 0..N
      /\ n \in Nat /\ n > 0 /\ base = Base(functions, g) /\ base <= sp /\ base \in Nat
      /\ sp = Len(stack) /\ sp \in Nat /\ stack \in Seq(Nat) /\ T[p].h = sp - base
      /\ ~c.dead /\ InnerCtrl(T[p]) = c /\ c.height \in Nat /\ c.results \in Nat
      /\ T[p].ctrls # << >>
      /\ Formed(T[p], functions[f].results) /\ T[p] \in States
      /\ Checks(T[p], T[q], instr, Signatures)
      /\ Seated(T, N, base, g.labels, p, n, sp - base)
  BY <1>h DEF Standing
<1>2. status = "running" /\ instr.op = "end"
  BY DEF End, Running, instr
<1>3. /\ T[q].ctrls = SubSeq(T[p].ctrls, 1, n - 1) /\ T[q].h = c.height + c.results
      /\ T[p].h = c.height + c.results
  <2>1. Closes(T[p], T[q])
    <3>1. Checks(T[p], T[q], instr, Signatures)
      BY <1>1
    <3>2. instr.op = "end"
      BY <1>2
    <3>3. QED BY ONLY <3>1, <3>2 DEF Checks
  <2>2. InnerCtrl(T[p]) = c /\ n = Len(T[p].ctrls) /\ ~c.dead
    BY <1>1
  <2> HIDE DEF c
  <2>3. QED BY ONLY <2>1, <2>2 DEF Closes
<1>4. stack' = Unwound(stack, l.stack_top, l.results)
  <2>1. stack' = IF regs.label_top = 0 THEN stack
                 ELSE Unwound(stack, label.stack_top, label.results)
    BY DEF End
  <2>2. regs.label_top # 0
    BY <1>1
  <2>3. label = l
    BY <1>1 DEF label
  <2>4. QED BY <2>1, <2>2, <2>3
<1>5. CASE n > 1
  <2>1. UNCHANGED <<valVars, call_stack, status>> /\ Step(n - 1)
    BY <1>1, <1>5 DEF End
  <2> DEFINE k == n - 1
  <2>2. k \in Nat /\ k >= 1 /\ k <= n /\ n \in 2..n
    BY <1>1, <1>5
  <2>3. l.stack_top = base + c.height /\ l.results = c.results
    BY <1>1, <2>2 DEF Seated, LabelFits
  <2>4. /\ c.height \in Nat /\ c.results \in Nat /\ T[q].h = c.height + c.results
        /\ T[p].h = c.height + c.results
    BY <1>1, <1>3
  <2>a. /\ base \in Nat /\ base <= sp /\ sp \in Nat /\ sp = Len(stack) /\ T[p].h = sp - base
        /\ stack \in Seq(Nat)
    BY <1>1
  <2> HIDE DEF c, q
  <2> DEFINE e == c.height
             m == c.results
             d == base + e
             s == T[p].h
             r == T[q].h
  <2>b. /\ e \in Nat /\ m \in Nat /\ d = base + e /\ r = e + m /\ s = e + m /\ s = sp - base
        /\ stack' = Unwound(stack, d, m)
    BY <1>4, <2>3, <2>4, <2>a
  <2> HIDE DEF d, e, m, s, r
  <2>c. d \in Nat /\ d <= Len(stack) /\ m <= Len(stack) /\ m \in Nat
    BY <2>a, <2>b
  <2>d. Unwound(stack, d, m) \in Seq(Nat) /\ Len(Unwound(stack, d, m)) = d + m
    BY <2>a, <2>c, UnwoundNat
  <2>5. stack' \in Seq(Nat) /\ Len(stack') = d + m
    BY <2>b, <2>d
  <2>6. T[q].h = Len(stack') - base /\ base <= Len(stack')
    <3>1. r = Len(stack') - base /\ base <= Len(stack')
      BY <2>5, <2>a, <2>b
    <3>2. QED BY <3>1 DEF r
  <2>7. Len(T[q].ctrls) = k /\ Agree(T[p], T[q], k)
    <3>1. T[p].ctrls \in Seq(CtrlRecs) /\ Len(T[p].ctrls) > 0 /\ Len(T[p].ctrls) = n
      BY <1>1 DEF States
    <3> DEFINE cs == T[p].ctrls
               ds == T[q].ctrls
    <3>2. cs \in Seq(CtrlRecs) /\ Len(cs) > 0 /\ ds = SubSeq(cs, 1, Len(cs) - 1)
      BY <1>3, <3>1
    <3> HIDE DEF cs, ds
    <3>3. Len(ds) = Len(cs) - 1 /\ \A j \in 1..(Len(cs) - 1) : ds[j] = cs[j]
      BY <3>2, SeqPop
    <3>4. QED BY <3>1, <3>3 DEF Agree, cs, ds
  <2>8. regs' = [ip |-> q, label_top |-> k]
    BY <1>1, <2>1 DEF Step, Continue, q
  <2> HIDE DEF k, q, l
  <2>9. Goes(T, N, q, T[regs.ip], k, Len(stack') - base)
    BY <1>1, <2>6, <2>7 DEF Goes
  <2>10. /\ k <= regs.label_top /\ base = Base(functions, frame) /\ T = Typing(frame.func)
         /\ N = Len(functions[frame.func].code)
    BY <1>1, <2>2
  <2>11. QED BY <1>2, <2>1, <2>2, <2>5, <2>6, <2>8, <2>9, <2>10, Advances
<1>6. CASE n = 1
  <2>1. LeaveFrame
    BY <1>1, <1>6 DEF End
  <2>2. c.height = 0 /\ c.results = functions[f].results
    BY <1>1, <1>6 DEF Formed
  <2>3. c.results <= sp - base
    BY <1>1, <1>3, <2>2
  <2> HIDE DEF c
  <2>4. /\ functions[frame.func].results <= sp - Base(functions, frame)
        /\ stack' = Unwound(stack, frame.labels[1].stack_top, frame.labels[1].results)
    BY <1>1, <1>4, <1>6, <2>2, <2>3
  <2>5. QED BY <1>2, <2>1, <2>4, UnwoundFrame
<1>7. QED
  <2>1. n \in Nat /\ n > 0
    BY <1>1
  <2>2. QED BY <1>5, <1>6, <2>1

LEMMA ReturnTyped == ASSUME ValInv, CtxInv, TypingInv, TypedCtx, Return PROVE TypedCtx'
<1>h. PICK g, f, T, N, p, n, base : Standing(g, f, T, N, p, n, base)
  BY Here DEF Return, Running
<1> DEFINE m == functions[f].results
<1>1. /\ g = frame /\ f = g.func /\ T = Typing(f)
      /\ p = regs.ip /\ base = Base(functions, g) /\ sp \in Nat /\ T[p].h = sp - base
      /\ base \in Nat
      /\ ~InnerCtrl(T[p]).dead /\ InnerCtrl(T[p]).height \in Nat /\ T[p].ctrls # << >>
      /\ Formed(T[p], m) /\ Checks(T[p], T[p + 1], instr, Signatures)
      /\ functions[f] \in Functions
  BY <1>h DEF Standing
<1>2. status = "running" /\ instr.op = "return" /\ LeaveFrame
      /\ stack' = Unwound(stack, frame.labels[1].stack_top, frame.labels[1].results)
  BY DEF Return, Running, instr
<1>3. T[p].ctrls[1].results = m
  BY <1>1 DEF Formed
<1>4. m <= T[p].h - InnerCtrl(T[p]).height
  BY <1>1, <1>2, <1>3 DEF Checks, Dies
<1>5. m \in Nat
  BY <1>1 DEF Functions
<1>6. m = functions[frame.func].results /\ m <= sp - Base(functions, frame)
  BY <1>1, <1>4, <1>5
<1>7. QED BY <1>2, <1>6, UnwoundFrame

-----------------------------------------------------------------------------
(* Branches *)

\* Writing ip and label_stack_top back changes nothing else of the frames.
OnlyWrote(cs, ds, i, t) ==
  \E h : /\ Len(ds) = Len(cs) /\ ds[Len(cs)] = h
         /\ \A k \in 1..Len(cs) : k # Len(cs) => ds[k] = cs[k]
         /\ h.func = cs[Len(cs)].func /\ h.locals = cs[Len(cs)].locals
         /\ h.labels = cs[Len(cs)].labels /\ h.ip = i /\ h.label_stack_top = t

LEMMA WrittenBack ==
  ASSUME ValInv, CtxInv, status = "running", NEW i, NEW t, NEW ds,
         ds = [call_stack EXCEPT ![top].ip = i, ![top].label_stack_top = t]
  PROVE  OnlyWrote(call_stack, ds, i, t)
<1>1. /\ top \in Nat /\ top > 0 /\ FrameOK(call_stack[top]) /\ frame = call_stack[top]
      /\ Stacked(call_stack, labels_pool_top) /\ top = Len(call_stack)
  BY RunningFrame DEF top
<1> DEFINE g == [call_stack[top] EXCEPT !.ip = i, !.label_stack_top = t]
           es == [call_stack EXCEPT ![top] = g]
<1>2. PICK S : call_stack \in Seq(S)
  BY <1>1 DEF Stacked
<1>3. top \in DOMAIN call_stack /\ top \in 1..Len(call_stack)
  BY <1>1, <1>2
<1>4. ds = es
  BY <1>3
<1>5. /\ g.func = frame.func /\ g.locals = frame.locals /\ g.labels = frame.labels
      /\ g.ip = i /\ g.label_stack_top = t
  BY <1>1 DEF FrameOK, FrameFields
<1> HIDE DEF g
<1>6. /\ Len(es) = Len(call_stack)
      /\ \A k \in 1..Len(call_stack) : es[k] = IF k = top THEN g ELSE call_stack[k]
  BY <1>2, <1>3, SeqSet
<1> HIDE DEF es
<1>7. es[Len(call_stack)] = g
  BY <1>1, <1>3, <1>6
<1>8. QED BY <1>1, <1>4, <1>5, <1>6, <1>7 DEF OnlyWrote

\* Where a branch goes.
BranchesTo(T, N, p, base, n, l, t) ==
  LET k == n - l - (IF t.opcode = "loop" THEN 0 ELSE 1)
      c == T[p].ctrls[n - l]
  IN /\ n - l \in 1..n /\ k \in Nat /\ k >= 1 /\ k <= n
     /\ (IF t.opcode = "loop" THEN t.params ELSE t.results) = Arity(T[p], l)
     /\ t.stack_top = base + c.height
     /\ Goes(T, N, t.pc, T[p], k, c.height + Arity(T[p], l))

LEMMA BranchGoes ==
  ASSUME NEW T, NEW N, NEW p, NEW base, NEW labels, NEW n, NEW x,
         Seated(T, N, base, labels, p, n, x), T[p] \in States, n \in Nat,
         NEW l, l \in Nat, LabelOk(T[p], l), Features = {},
         NEW t, t = labels[n - l]
  PROVE  BranchesTo(T, N, p, base, n, l, t)
<1> DEFINE j == n - l
           c == T[p].ctrls[j]
<1>1. n = Len(T[p].ctrls)
  BY DEF Seated
<1>2. l < n /\ l # n - 1
  BY <1>1 DEF LabelOk
<1>3. j \in Nat /\ j \in 2..n /\ j \in 1..n
  BY <1>2
<1>4. LabelFits(T, N, T[p], j, base, labels[j])
  BY <1>3 DEF Seated
<1>5. t = labels[j] /\ Target(T[p], l) = c
  BY <1>1 DEF Target
<1> HIDE DEF j
<1>6. /\ t.stack_top = base + c.height /\ t.results = c.results
      /\ t.opcode = "loop" <=> c.op = "loop"
      /\ c.op = "loop" => t.params = c.params /\ Goes(T, N, t.pc, T[p], j, c.height + c.params)
      /\ c.op # "loop" => Goes(T, N, t.pc, T[p], j - 1, c.height + c.results)
  BY <1>4, <1>5 DEF LabelFits
<1>7. j - 1 \in Nat /\ j - 1 >= 1 /\ j - 1 <= n /\ j >= 1 /\ j <= n /\ j - 0 = j
  BY <1>3
<1>8. CASE c.op = "loop"
  BY <1>3, <1>5, <1>6, <1>7, <1>8 DEF Arity, j, BranchesTo
<1>9. CASE c.op # "loop"
  BY <1>3, <1>5, <1>6, <1>7, <1>9 DEF Arity, j, BranchesTo
<1>10. QED BY <1>8, <1>9

LEMMA BranchTyped ==
  ASSUME ValInv, CtxInv, TypingInv, TypedCtx, Features = {}, status = "running",
         NEW s, s \in Seq(Nat), NEW l, l \in Nat, BranchTo(s, l),
         NEW t, t = Typing(frame.func)[regs.ip], LabelOk(t, l), NEW a, a = Arity(t, l),
         a \in Nat, Base(functions, frame) + InnerCtrl(t).height + a <= Len(s)
  PROVE  TypedCtx'
<1>h. PICK g, f, T, N, p, n, base : Standing(g, f, T, N, p, n, base)
  BY Here
<1>1. /\ g = frame /\ f = g.func /\ T = Typing(f) /\ N = Len(functions[f].code)
      /\ p = regs.ip /\ n = regs.label_top /\ n = Len(T[p].ctrls)
      /\ n \in Nat /\ n > 0 /\ base = Base(functions, g) /\ base \in Nat
      /\ InnerCtrl(T[p]) = T[p].ctrls[n] /\ InnerCtrl(T[p]).height \in Nat
      /\ Formed(T[p], functions[f].results) /\ T[p] \in States /\ T[p].ctrls # << >>
      /\ Seated(T, N, base, g.labels, p, n, sp - base) /\ t = T[p]
  BY <1>h DEF Standing
<1> DEFINE target == frame.labels[regs.label_top - l]
           arity == IF target.opcode = "loop" THEN target.params ELSE target.results
           k == regs.label_top - l - (IF target.opcode = "loop" THEN 0 ELSE 1)
           c == T[p].ctrls[n - l]
<1>2. /\ stack' = Unwound(s, target.stack_top, arity)
      /\ call_stack' = [call_stack EXCEPT ![top].ip = target.pc, ![top].label_stack_top = k]
      /\ regs' = [ip |-> target.pc, label_top |-> k]
      /\ UNCHANGED <<valVars, status>>
  BY DEF BranchTo, Continue
<1>3. target = g.labels[n - l] /\ k = n - l - (IF target.opcode = "loop" THEN 0 ELSE 1)
  BY <1>1
<1> HIDE DEF target, k
<1>4. /\ n - l \in 1..n /\ k \in Nat /\ k >= 1 /\ k <= n /\ arity = a
      /\ target.stack_top = base + c.height
      /\ Goes(T, N, target.pc, T[p], k, c.height + a)
  <2>1. LabelOk(T[p], l) /\ a = Arity(T[p], l)
    BY <1>1
  <2>2. BranchesTo(T, N, p, base, n, l, target)
    BY <1>1, <1>3, <2>1, BranchGoes
  <2>3. QED BY <1>3, <2>1, <2>2 DEF BranchesTo
<1> HIDE DEF arity
<1>5. c.height \in Nat /\ c.height <= InnerCtrl(T[p]).height
  <2>1. n - l \in 1..n /\ n \in 1..n /\ n - l <= n
    <3>1. n \in Nat /\ l \in Nat /\ n - l \in 1..n
      BY <1>1, <1>4
    <3>2. QED BY <3>1
  <2> DEFINE j == n - l
  <2>2. j \in 1..n /\ j <= n
    BY <2>1
  <2> HIDE DEF j
  <2>3. T[p].ctrls[j].height <= T[p].ctrls[n].height
    BY <1>1, <2>1, <2>2 DEF Formed
  <2>4. T[p].ctrls[j].height \in Nat
    BY <1>1, <2>2, InnerFacts
  <2>5. QED BY <1>1, <2>3, <2>4 DEF j
<1> DEFINE e == c.height
           d == base + e
           y == e + a
<1>6. /\ e \in Nat /\ d = base + e /\ y = e + a /\ stack' = Unwound(s, d, a)
      /\ e <= InnerCtrl(T[p]).height /\ InnerCtrl(T[p]).height \in Nat
      /\ base + InnerCtrl(T[p]).height + a <= Len(s) /\ base \in Nat
      /\ Goes(T, N, target.pc, T[p], k, y)
  BY <1>1, <1>2, <1>4, <1>5
<1> HIDE DEF c, e, d, y
<1>7. d \in Nat /\ d <= Len(s) /\ a <= Len(s)
  <2> DEFINE i == InnerCtrl(T[p]).height
             m == Len(s)
  <2>1. i \in Nat /\ m \in Nat /\ base + i + a <= m /\ e <= i
    BY <1>6
  <2>a. d = base + e /\ e \in Nat /\ base \in Nat
    BY <1>6
  <2> HIDE DEF i, m
  <2>2. d \in Nat /\ d <= m /\ a <= m
    BY <2>1, <2>a
  <2>3. QED BY <2>2 DEF m
<1>8. stack' \in Seq(Nat) /\ Len(stack') = d + a
  <2>1. Unwound(s, d, a) \in Seq(Nat) /\ Len(Unwound(s, d, a)) = d + a
    BY <1>7, UnwoundNat
  <2>2. QED BY <1>6, <2>1
<1>9. Len(stack') - base = y /\ base <= Len(stack')
  <2>1. d = base + e /\ y = e + a /\ e \in Nat /\ base \in Nat /\ Len(stack') = d + a
    BY <1>6, <1>8
  <2>2. QED BY <2>1
<1>10. PICK h : /\ Len(call_stack') = Len(call_stack) /\ call_stack'[Len(call_stack)] = h
                /\ \A m \in 1..Len(call_stack) :
                     m # Len(call_stack) => call_stack'[m] = call_stack[m]
                /\ h.func = frame.func /\ h.locals = frame.locals /\ h.labels = frame.labels
  <2> DEFINE pc == target.pc
  <2>1. call_stack' = [call_stack EXCEPT ![top].ip = pc, ![top].label_stack_top = k]
    BY <1>2
  <2> HIDE DEF pc
  <2>2. OnlyWrote(call_stack, call_stack', pc, k)
    BY <2>1, WrittenBack
  <2>3. frame = call_stack[Len(call_stack)]
    BY DEF frame, top
  <2>4. QED BY <2>2, <2>3 DEF OnlyWrote
<1>11. g.labels \in Seq(LabelRecs) /\ k <= Len(g.labels)
  <2>1. g.labels \in Seq(LabelRecs) /\ n <= Len(g.labels)
    BY <1>1 DEF Seated
  <2>2. QED BY <1>1, <1>4, <2>1
<1>12. Seated(T, N, base, g.labels, target.pc, k, y)
  BY <1>1, <1>4, <1>6, <1>11, SeatedMoves
<1>13. Seated(T, N, base, h.labels, target.pc, k, Len(stack') - base)
  BY <1>1, <1>9, <1>10, <1>12
<1>14. QED
  BY <1>1, <1>2, <1>8, <1>9, <1>10, <1>13, GoesOn

LEMMA BrTyped ==
  ASSUME ValInv, CtxInv, TypingInv, TypedCtx, Features = {}, Br
  PROVE  TypedCtx'
<1>h. PICK g, f, T, N, p, n, base : Standing(g, f, T, N, p, n, base)
  BY Here DEF Br, Running
<1> DEFINE t == T[p]
           l == instr.label
           a == Arity(t, l)
<1>1. /\ g = frame /\ f = g.func /\ T = Typing(f) /\ p = regs.ip
      /\ base = Base(functions, g) /\ base \in Nat /\ sp \in Nat
      /\ sp = Len(stack) /\ stack \in Seq(Nat) /\ t.h = sp - base
      /\ ~InnerCtrl(t).dead /\ InnerCtrl(t).height \in Nat /\ Upright(t)
      /\ instr \in Instructions /\ Checks(t, T[p + 1], instr, Signatures)
  BY <1>h DEF Standing
<1>2. status = "running" /\ instr.op = "br" /\ BranchTo(stack, l)
  BY DEF Br, Running, instr
<1>3. l \in Nat
  BY <1>1, <1>2, InstructionTypes
<1>4. LabelOk(t, l) /\ a <= t.h - InnerCtrl(t).height
  BY <1>1, <1>2 DEF Checks, Dies
<1>5. t = Typing(frame.func)[regs.ip]
  BY <1>1
<1> HIDE DEF t, l
<1>6. a \in Nat
  BY <1>1, <1>3, <1>4, ArityNat
<1> HIDE DEF a
<1>7. base + InnerCtrl(t).height + a <= Len(stack)
  BY <1>1, <1>4, <1>6
<1>8. QED BY <1>1, <1>2, <1>3, <1>4, <1>5, <1>6, <1>7, BranchTyped DEF a

\* A branch after its condition or its index was taken.
LEMMA BranchPopped ==
  ASSUME ValInv, CtxInv, TypingInv, TypedCtx, Features = {}, status = "running",
         NEW l, l \in Nat, BranchTo(Below(stack, 1), l),
         NEW t, t = Typing(frame.func)[regs.ip], LabelOk(t, l), NEW a, a = Arity(t, l),
         a + 1 <= t.h - InnerCtrl(t).height
  PROVE  TypedCtx'
<1>h. PICK g, f, T, N, p, n, base : Standing(g, f, T, N, p, n, base)
  BY Here
<1>1. /\ g = frame /\ base = Base(functions, g) /\ base \in Nat /\ sp \in Nat
      /\ sp = Len(stack) /\ stack \in Seq(Nat) /\ t.h = sp - base
      /\ InnerCtrl(t).height \in Nat /\ Upright(t)
  BY <1>h DEF Standing
<1>2. a \in Nat
  BY <1>1, ArityNat
<1>3. 1 <= Len(stack)
  BY <1>1, <1>2
<1> DEFINE s == Below(stack, 1)
<1>4. s \in Seq(Nat) /\ Len(s) = sp - 1
  BY <1>1, <1>3, BelowNat
<1>5. BranchTo(s, l)
  OBVIOUS
<1> HIDE DEF s
<1>6. Base(functions, frame) + InnerCtrl(t).height + a <= Len(s)
  <2> DEFINE i == InnerCtrl(t).height
             h == t.h
             m == Len(s)
  <2>1. /\ base \in Nat /\ sp \in Nat /\ h = sp - base /\ i \in Nat /\ a \in Nat
        /\ a + 1 <= h - i /\ m = sp - 1 /\ base = Base(functions, frame)
    BY <1>1, <1>2, <1>4
  <2> HIDE DEF i, h, m
  <2>2. base + i + a <= m
    BY <2>1
  <2>3. QED BY <2>1, <2>2 DEF i, m
<1>7. QED BY <1>2, <1>4, <1>5, <1>6, BranchTyped

LEMMA BrIfTyped ==
  ASSUME ValInv, CtxInv, TypingInv, TypedCtx, Features = {}, BrIf
  PROVE  TypedCtx'
<1>h. PICK g, f, T, N, p, n, base : Standing(g, f, T, N, p, n, base)
  BY Here DEF BrIf, Running
<1> DEFINE t == T[p]
           l == instr.label
           a == Arity(t, l)
<1>1. /\ g = frame /\ f = g.func /\ T = Typing(f) /\ p = regs.ip /\ ~InnerCtrl(t).dead
      /\ instr \in Instructions /\ Checks(t, T[p + 1], instr, Signatures) /\ Upright(t)
  BY <1>h DEF Standing
<1>2. status = "running" /\ instr.op = "br_if"
  BY DEF BrIf, Running, instr
<1>3. l \in Nat
  BY <1>1, <1>2, InstructionTypes
<1>4. LabelOk(t, l) /\ Moves(t, T[p + 1], a + 1, a)
  BY <1>1, <1>2 DEF Checks
<1>5. a + 1 <= t.h - InnerCtrl(t).height
  BY <1>1, <1>4 DEF Moves
<1>6. t = Typing(frame.func)[regs.ip] /\ T[p + 1] = Typing(frame.func)[regs.ip + 1]
  BY <1>1
<1> DEFINE r == T[p + 1]
<1>r. Moves(t, r, a + 1, a) /\ r = Typing(frame.func)[regs.ip + 1]
  BY <1>4, <1>6
<1> HIDE DEF t, l, r
<1>7. CASE BranchTo(Below(stack, 1), l)
  BY <1>2, <1>3, <1>4, <1>5, <1>6, <1>7, BranchPopped
<1>8. CASE /\ stack' = Below(stack, 1) /\ Step(regs.label_top)
           /\ UNCHANGED <<valVars, call_stack, status>>
  <2>1. a \in Nat
    BY <1>1, <1>3, <1>4, ArityNat
  <2> DEFINE b == a + 1
  <2>2. b \in Nat /\ Moves(Typing(frame.func)[regs.ip], Typing(frame.func)[regs.ip + 1], b, a)
    BY <1>6, <1>r, <2>1
  <2>3. b = a + 1
    OBVIOUS
  <2> HIDE DEF a, b
  <2>4. b <= sp /\ sp \in Nat /\ sp = Len(stack) /\ stack \in Seq(Nat)
    BY <1>2, <2>2, Takes
  <2>5. 1 <= Len(stack)
    BY <2>1, <2>3, <2>4
  <2>6. stack' \in Seq(Nat) /\ Len(stack') = sp - 1
    <3>1. Below(stack, 1) \in Seq(Nat) /\ Len(Below(stack, 1)) = sp - 1
      BY <2>4, <2>5, BelowNat
    <3>2. QED BY <1>8, <3>1
  <2>7. Len(stack') = sp - b + a
    BY <2>1, <2>3, <2>4, <2>6
  <2>8. QED BY <1>2, <1>8, <2>1, <2>2, <2>6, <2>7, MovesOn
<1>9. QED BY <1>7, <1>8 DEF BrIf, l

LEMMA BrTableTyped ==
  ASSUME ValInv, CtxInv, TypingInv, TypedCtx, Features = {}, BrTable
  PROVE  TypedCtx'
<1>h. PICK g, f, T, N, p, n, base : Standing(g, f, T, N, p, n, base)
  BY Here DEF BrTable, Running
<1> DEFINE t == T[p]
           m == Len(instr.labels)
           v == stack[sp]
           k == IF v + 1 < m THEN v + 1 ELSE m
           l == instr.labels[k]
           a == Arity(t, l)
<1>1. /\ g = frame /\ f = g.func /\ T = Typing(f) /\ p = regs.ip /\ ~InnerCtrl(t).dead
      /\ instr \in Instructions /\ Checks(t, T[p + 1], instr, Signatures) /\ Upright(t)
      /\ t.ctrls # << >> /\ t \in States
      /\ base = Base(functions, g) /\ base \in Nat /\ sp \in Nat /\ base <= sp
      /\ sp = Len(stack) /\ stack \in Seq(Nat) /\ t.h = sp - base
      /\ InnerCtrl(t).height \in Nat /\ InnerCtrl(t).height <= t.h
  BY <1>h DEF Standing
<1>2. status = "running" /\ instr.op = "br_table" /\ BranchTo(Below(stack, 1), l)
  BY DEF BrTable, Running, instr
<1>3. instr.labels \in Seq(Nat) /\ instr.labels # << >>
  BY <1>1, <1>2, InstructionTypes
<1>4. /\ \A j \in DOMAIN instr.labels : LabelOk(t, instr.labels[j])
                                       /\ Arity(t, instr.labels[j]) = Arity(t, instr.labels[1])
      /\ Dies(t, T[p + 1], Arity(t, instr.labels[1]) + 1)
  BY <1>1, <1>2 DEF Checks
<1>5. Arity(t, instr.labels[1]) + 1 <= t.h - InnerCtrl(t).height
  BY <1>1, <1>4 DEF Dies
<1>6. Arity(t, instr.labels[1]) \in Nat
  <2>1. 1 \in DOMAIN instr.labels /\ instr.labels[1] \in Nat
    BY <1>3
  <2>2. LabelOk(t, instr.labels[1])
    BY <1>4, <2>1
  <2> HIDE DEF t
  <2>3. QED BY <1>1, <2>1, <2>2, ArityNat
<1>7. v \in Nat
  <2> DEFINE e == t.h
             i == InnerCtrl(t).height
             u == Arity(t, instr.labels[1])
  <2>1. /\ base \in Nat /\ sp \in Nat /\ e = sp - base /\ i \in Nat /\ u + 1 <= e - i
        /\ u \in Nat
    BY <1>1, <1>5, <1>6
  <2> HIDE DEF e, i, u
  <2>2. sp \in 1..sp
    BY <2>1
  <2>3. QED BY <1>1, <2>2
<1>8. k \in DOMAIN instr.labels
  <2>1. m \in Nat /\ m > 0 /\ DOMAIN instr.labels = 1..m
    BY <1>3
  <2> HIDE DEF m, v
  <2>2. k \in 1..m
    BY <1>7, <2>1
  <2>3. QED BY <2>1, <2>2
<1> HIDE DEF k
<1>9. l \in Nat /\ LabelOk(t, l) /\ a = Arity(t, instr.labels[1])
  BY <1>3, <1>4, <1>8
<1>10. t = Typing(frame.func)[regs.ip]
  BY <1>1
<1> HIDE DEF t, l
<1>11. a + 1 <= t.h - InnerCtrl(t).height
  BY <1>5, <1>9
<1>12. QED BY <1>2, <1>9, <1>10, <1>11, BranchPopped

-----------------------------------------------------------------------------
(* Calls *)

\* A frame at the beginning of a function that was validated.
LEMMA EntersFunction ==
  ASSUME ValInv, TypingInv, phase = "done", verdict = "kOk",
         NEW k, k \in DOMAIN functions, functions[k].kind = "local", NEW b, b \in Nat,
         NEW g, g = NewFrame(k, b)
  PROVE  /\ Placed(functions, g, 0, 1, 0) /\ g.func = k /\ g.locals = b
         /\ Base(functions, g) = b + functions[k].params + functions[k].local_count
         /\ functions[k].max_stack_depth \in Nat
         /\ functions[k].params \in Nat /\ functions[k].local_count \in Nat
         /\ functions[k].results \in Nat
         /\ TotalLocals(functions[k]) <= stack_size
<1>1. k \in Locals
  BY DEF Locals
<1>2. Body(k) /\ Certified(k) /\ functions[k] \in Functions
  BY <1>1, ExecutedBody
<1>3. PICK T, N, results : /\ T = Typing(k) /\ N = Len(functions[k].code)
                           /\ results = functions[k].results
  OBVIOUS
<1>4. /\ functions[k].params \in Nat /\ functions[k].local_count \in Nat /\ results \in Nat
      /\ functions[k].max_stack_depth \in Int /\ N \in Nat
  BY <1>2, <1>3 DEF Functions
<1>5. T[0] = Entered(results)
  BY <1>2, <1>3 DEF Body
<1>6. /\ Live(T[0]) /\ T[0].h = 0 /\ Len(T[0].ctrls) = 1
  BY <1>4, <1>5, EnteredFormed
<1>7. T[0].ctrls # << >>
  <2>1. Len(<< >>) = 0
    OBVIOUS
  <2>2. QED BY <1>6, <2>1
<1>8. 0 \in 0..N /\ 0 < N
  <2>1. 0 \in 0..N
    BY <1>4
  <2>2. N # 0
    BY <1>2, <1>3, <1>7, <2>1 DEF Body
  <2>3. QED BY <1>4, <2>1, <2>2
<1>9. functions[k].max_stack_depth \in Nat
  <2>1. T[0].h <= functions[k].max_stack_depth
    BY <1>2, <1>3, <1>6, <1>7, <1>8 DEF Certified, CertifiedBy, HeightsFit
  <2>2. QED BY <1>4, <1>6, <2>1
<1>10. TotalLocals(functions[k]) <= stack_size
  <2>1. TotalLocals(functions[k]) + T[0].h <= stack_size
    BY <1>1, <1>3, <1>8 DEF TypingInv, FirstFrameFits
  <2>2. TotalLocals(functions[k]) \in Nat
    BY <1>4 DEF TotalLocals
  <2>3. QED BY <1>6, <2>1, <2>2
<1> DEFINE l == FuncLabel(k, b)
<1>11. /\ l \in LabelRecs /\ l.stack_top = b /\ l.results = results
  BY <1>3, <1>4 DEF FuncLabel, LabelRecs
<1>12. g.func = k /\ g.locals = b /\ g.labels = <<l>>
  BY DEF NewFrame
<1> HIDE DEF l
<1>13. /\ g.labels \in Seq(LabelRecs) /\ Len(g.labels) = 1 /\ g.labels[1] = l
  BY <1>11, <1>12
<1>14. Base(functions, g) = b + functions[k].params + functions[k].local_count
  BY <1>4, <1>12 DEF Base, TotalLocals
<1>15. Seated(T, N, Base(functions, g), g.labels, 0, 1, 0)
  <2>1. \A j \in 2..1 : LabelFits(T, N, T[0], j, Base(functions, g), g.labels[j])
    OBVIOUS
  <2>2. QED BY <1>6, <1>7, <1>8, <1>13, <2>1 DEF Seated
<1>16. Placed(functions, g, 0, 1, 0)
  BY <1>3, <1>11, <1>12, <1>13, <1>15, TypingHere DEF Placed
<1>17. QED BY <1>3, <1>4, <1>9, <1>10, <1>12, <1>14, <1>16

\* The frame on top waits at the next instruction for b operands above x.
Waiting(q, n, x) ==
  /\ x - Base(functions, frame) \in Nat
  /\ Goes(Typing(frame.func), Len(functions[frame.func].code), q,
          Typing(frame.func)[regs.ip], n, x - Base(functions, frame))

\* The frames after ip and label_stack_top were saved.
Saved(q, n, x) ==
  /\ Framed(functions, SaveFrame) /\ Len(SaveFrame) = Len(call_stack)
  /\ Len(call_stack) \in Nat /\ Len(call_stack) > 0
  /\ \E S : SaveFrame \in Seq(S)
  /\ \E h : /\ h = SaveFrame[Len(call_stack)]
            /\ h.func = frame.func /\ h.locals = frame.locals
            /\ h.ip = q /\ h.label_stack_top = n
            /\ q \in 1..Len(functions[frame.func].code)
            /\ Placed(functions, h, q, n, x - Base(functions, frame))

LEMMA SavedFrame ==
  ASSUME ValInv, CtxInv, TypingInv, TypedCtx, status = "running", NEW x, NEW q, NEW n,
         q = regs.ip + 1, n = regs.label_top, Waiting(q, n, x)
  PROVE  Saved(q, n, x)
<1>h. PICK g, f, T, N, p, m, base : Standing(g, f, T, N, p, m, base)
  BY Here
<1>1. /\ g = frame /\ f = g.func /\ T = Typing(f) /\ N = Len(functions[f].code)
      /\ p = regs.ip /\ m = regs.label_top /\ m \in Nat /\ m > 0 /\ p \in Nat /\ p < N
      /\ N \in Nat /\ base = Base(functions, g)
      /\ Placed(functions, g, p, m, sp - base)
      /\ Seated(T, N, base, g.labels, p, m, sp - base) /\ Framed(functions, call_stack)
  BY <1>h DEF Standing
<1>2. Len(call_stack) \in Nat /\ Len(call_stack) > 0 /\ frame = call_stack[Len(call_stack)]
  BY RunningFrame DEF top
<1>3. (\E S : SaveFrame \in Seq(S)) /\ Len(SaveFrame) = Len(call_stack)
  BY SaveKeeps DEF Stacked, top
<1>4. OnlyWrote(call_stack, SaveFrame, q, n)
  BY WrittenBack DEF SaveFrame
<1>5. PICK h : /\ h = SaveFrame[Len(call_stack)]
               /\ \A k \in 1..Len(call_stack) :
                    k # Len(call_stack) => SaveFrame[k] = call_stack[k]
               /\ h.func = g.func /\ h.locals = g.locals /\ h.labels = g.labels
               /\ h.ip = q /\ h.label_stack_top = n
  BY <1>1, <1>2, <1>4 DEF OnlyWrote
<1>6. Framed(functions, SaveFrame)
  BY <1>1, <1>2, <1>3, <1>5, FramedSame
<1>7. g.labels \in Seq(LabelRecs) /\ n <= Len(g.labels) /\ n = m /\ n >= 1 /\ n <= n
  BY <1>1 DEF Seated
<1> DEFINE y == x - base
<1>8. Goes(T, N, q, T[p], n, y)
  BY <1>1 DEF Waiting
<1> HIDE DEF y
<1>9. Seated(T, N, base, g.labels, q, n, y)
  BY <1>1, <1>7, <1>8, SeatedMoves
<1>10. Placed(functions, h, q, n, y)
  <2>1. Base(functions, h) = base
    BY <1>1, <1>5 DEF Base
  <2>2. QED BY <1>1, <1>5, <1>9, <2>1, TypingHere DEF Placed
<1>11. q \in 1..N
  BY <1>1
<1>12. QED BY <1>1, <1>2, <1>3, <1>5, <1>6, <1>10, <1>11 DEF y, Saved

\* A call of a function that the host implements.
LEMMA CallHostTyped ==
  ASSUME ValInv, CtxInv, TypingInv, TypedCtx, status = "running", UNCHANGED valVars,
         NEW s, s \in Seq(Nat), Len(s) <= sp, NEW k, k \in DOMAIN functions,
         NEW a, a = functions[k].params, NEW b, b = functions[k].results,
         b = IF instr.op = "call" THEN functions[instr.func].results ELSE instr.results,
         Base(functions, frame) + a <= Len(s),
         NEW q, q = regs.ip + 1, NEW n, n = regs.label_top,
         Waiting(q, n, Len(s) - a + b), CallHost(s, k)
  PROVE  TypedCtx'
<1>h. PICK g, f, T, N, p, m, base : Standing(g, f, T, N, p, m, base)
  BY Here
<1>1. /\ g = frame /\ f = g.func /\ T = Typing(f) /\ N = Len(functions[f].code)
      /\ p = regs.ip /\ m = regs.label_top /\ m \in Nat /\ m > 0
      /\ sp \in Nat /\ sp = Len(stack) /\ base = Base(functions, g) /\ base \in Nat
      /\ instr = functions[f].code[p + 1]
  BY <1>h DEF Standing
<1>i. instr = functions[f].code[q]
  <2>1. q = p + 1
    BY <1>1
  <2>2. QED BY <1>1, <2>1
<1>j. n \in Nat /\ n >= 1 /\ n <= regs.label_top
  <2>1. n = regs.label_top /\ regs.label_top = m
    BY <1>1
  <2>2. m \in Nat /\ m > 0
    BY <1>1
  <2>3. QED BY <2>1, <2>2
<1>2. a \in Nat /\ b \in Nat
  <2>1. functions[k] \in Functions
    BY FunctionFields DEF ValInv
  <2>2. QED BY <2>1 DEF Functions
<1> DEFINE z == Len(s)
           rest == Below(s, a)
           x == z - a
           y == x + b
<1>b. z \in Nat /\ z <= sp /\ sp \in Nat /\ base \in Nat /\ base + a <= z
      /\ z = Len(s)
  <2>1. base = Base(functions, frame)
    BY <1>1
  <2>2. Len(s) \in Nat
    OBVIOUS
  <2>3. base + a <= Len(s)
    BY <2>1
  <2>4. QED BY <1>1, <2>2, <2>3
<1> HIDE DEF z
<1>k. base \in Nat
  BY <1>1
<1>x. a <= z /\ x \in Nat /\ base <= x /\ x <= sp /\ x = z - a
  <2>1. a \in Nat /\ z \in Nat /\ z <= sp /\ sp \in Nat /\ base \in Nat /\ base + a <= z
    BY <1>2, <1>b
  <2>2. QED BY <2>1
<1> HIDE DEF x
<1>y. y \in Nat /\ base <= y /\ y = x + b
  <2>1. x \in Nat /\ b \in Nat /\ base \in Nat /\ base <= x /\ y = x + b
    BY <1>2, <1>x, <1>k
  <2> HIDE DEF y
  <2>2. QED BY ONLY <2>1
<1> HIDE DEF y
<1>3. /\ a <= z /\ x \in Nat /\ base <= x /\ x <= sp /\ y \in Nat /\ base <= y
      /\ x = z - a /\ y = x + b /\ y = z - a + b
  BY <1>x, <1>y
<1>4. rest \in Seq(Nat) /\ Len(rest) = x
  BY <1>2, <1>3, <1>b, BelowNat
<1>5. x <= stack_size
  <2>1. sp <= stack_size
    BY <1>1 DEF TypedCtx
  <2>2. stack_size \in Nat
    BY ContextLimits
  <2>3. QED BY <1>3, <1>b, <2>1, <2>2
<1>6. Waiting(q, n, y)
  BY <1>3, <1>b
<1>7. functions' = functions
  BY DEF valVars
<1>8. CASE /\ \E r \in Tuples(functions[k].results) : stack' = rest \o r
           /\ Step(regs.label_top) /\ UNCHANGED <<call_stack, status>>
  <2>1. PICK r : r \in Tuples(b) /\ stack' = rest \o r
    BY <1>8
  <2>2. r \in Seq(Nat) /\ Len(r) = b
    BY <1>2, <2>1, TuplesNat
  <2> HIDE DEF rest
  <2>3. stack' \in Seq(Nat) /\ Len(stack') = y
    BY <1>3, <1>4, <2>1, <2>2, ConcatNat
  <2>4. base <= Len(stack')
    BY <1>3, <2>3
  <2>5. regs' = [ip |-> q, label_top |-> n]
    BY <1>8 DEF Step, Continue
  <2>6. Goes(T, N, q, T[regs.ip], n, Len(stack') - base)
    BY <1>1, <1>6, <2>3 DEF Waiting
  <2>8. base = Base(functions, frame) /\ T = Typing(frame.func)
        /\ N = Len(functions[frame.func].code)
    BY <1>1
  <2>9. QED BY <1>j, <1>8, <2>3, <2>4, <2>5, <2>6, <2>8, Advances
<1>9. CASE stack' = rest /\ status' = "yielded" /\ call_stack' = SaveFrame
  <2>s. Saved(q, n, y)
    BY <1>6, SavedFrame
  <2>1. PICK h : /\ Framed(functions, SaveFrame) /\ Len(SaveFrame) = Len(call_stack)
                 /\ h = SaveFrame[Len(call_stack)]
                 /\ h.func = frame.func /\ h.locals = frame.locals
                 /\ h.ip = q /\ h.label_stack_top = n
                 /\ q \in 1..Len(functions[frame.func].code)
                 /\ Placed(functions, h, q, n, y - Base(functions, frame))
    BY <2>s DEF Saved
  <2>2. Base(functions, h) = base
    BY <1>1, <2>1 DEF Base
  <2>3. Awaited(functions, h) = b
    BY <1>1, <1>i, <2>1 DEF Awaited
  <2>4. OnTop(functions, h, q, n, y)
    BY <1>1, <1>3, <2>1, <2>2 DEF OnTop
  <2>5. Suspended(functions, h, x)
    BY <1>1, <1>2, <1>3, <2>1, <2>2, <2>3, <2>4 DEF Suspended
  <2>6. call_stack'[Len(call_stack')] = h /\ Framed(functions, call_stack')
    BY <1>9, <2>1
  <2> HIDE DEF rest
  <2>7. stack' \in Seq(Nat) /\ Len(stack') <= stack_size /\ Len(stack') = x
    BY <1>4, <1>5, <1>9
  <2>8. QED BY <1>7, <1>9, <2>5, <2>6, <2>7 DEF TypedCtx
<1>10. CASE stack' = rest /\ Trap("kErrorExecuteRuntimeError")
  <2> HIDE DEF rest
  <2>1. status' = "kErrorExecuteRuntimeError"
    BY <1>10 DEF Trap
  <2>2. stack' \in Seq(Nat) /\ Len(stack') <= stack_size
    BY <1>4, <1>5, <1>10
  <2>3. QED BY <2>1, <2>2, TrapTyped
<1>11. QED BY <1>8, <1>9, <1>10 DEF CallHost

\* A call of a function of the module.
LEMMA PushTyped ==
  ASSUME ValInv, CtxInv, TypingInv, TypedCtx, status = "running", UNCHANGED valVars,
         NEW s, s \in Seq(Nat), Len(s) <= sp, NEW k, k \in DOMAIN functions,
         functions[k].kind = "local",
         NEW a, a = functions[k].params, NEW b, b = functions[k].results,
         Base(functions, frame) + a <= Len(s),
         NEW q, q = regs.ip + 1, NEW n, n = regs.label_top,
         Waiting(q, n, Len(s) - a + b),
         NEW overflow, overflow \notin {"running", "yielded"}, PushCallFrame(s, k, overflow)
  PROVE  TypedCtx'
<1>h. PICK g, f, T, N, p, m, base : Standing(g, f, T, N, p, m, base)
  BY Here
<1>1. /\ g = frame /\ base = Base(functions, g) /\ base \in Nat
      /\ sp = Len(stack) /\ sp \in Nat
  BY <1>h DEF Standing
<1>2. base = Base(functions, frame)
  BY <1>1
<1>3. phase = "done" /\ verdict = "kOk" /\ functions' = functions
  BY RunningFrame DEF valVars
<1>4. Len(s) \in Nat /\ a \in Nat /\ b \in Nat
  <2>1. functions[k] \in Functions
    BY FunctionFields DEF ValInv
  <2>2. QED BY <2>1 DEF Functions
<1>s. Len(s) <= stack_size /\ stack_size \in Nat
  <2>1. sp <= stack_size
    BY <1>1 DEF TypedCtx
  <2>2. stack_size \in Nat
    BY ContextLimits
  <2>3. QED BY <1>1, <1>4, <2>1, <2>2
<1> DEFINE z == Len(s)
           x == z - a
           full == s \o Zeros(functions[k].local_count)
<1>5. z \in Nat /\ base + a <= z
  BY <1>2, <1>4
<1>w. Waiting(q, n, x + b)
  OBVIOUS
<1>z. z = Len(s) /\ x = Len(s) - a
  OBVIOUS
<1> HIDE DEF z
<1>6. x \in Nat /\ base <= x /\ x + a = z
  <2>1. base \in Nat /\ a \in Nat /\ z \in Nat /\ base + a <= z
    BY <1>1, <1>4, <1>5
  <2>2. QED BY <2>1
<1> HIDE DEF x
<1>7. PICK e : e = NewFrame(k, x)
  OBVIOUS
<1>8. /\ Placed(functions, e, 0, 1, 0) /\ e.func = k /\ e.locals = x
      /\ Base(functions, e) = x + a + functions[k].local_count
      /\ functions[k].max_stack_depth \in Nat /\ functions[k].local_count \in Nat
  <2>1. /\ Placed(functions, e, 0, 1, 0) /\ e.func = k /\ e.locals = x
        /\ Base(functions, e) = x + functions[k].params + functions[k].local_count
        /\ functions[k].max_stack_depth \in Nat /\ functions[k].local_count \in Nat
    <3>1. /\ phase = "done" /\ verdict = "kOk" /\ x \in Nat /\ e = NewFrame(k, x)
          /\ ValInv /\ TypingInv /\ k \in DOMAIN functions /\ functions[k].kind = "local"
      BY <1>3, <1>6, <1>7
    <3> HIDE DEF full
    <3>2. QED BY ONLY <3>1, EntersFunction
  <2>2. QED BY <2>1
<1>9. full \in Seq(Nat) /\ Len(full) = z + functions[k].local_count
  <2>1. /\ Zeros(functions[k].local_count) \in Seq(Nat)
        /\ Len(Zeros(functions[k].local_count)) = functions[k].local_count
    BY <1>8, ZerosNat
  <2>2. QED BY <1>z, <2>1, ConcatNat
<1> HIDE DEF full
<1>10. Len(full) = Base(functions, e) /\ Len(full) \in Nat
  BY <1>4, <1>5, <1>6, <1>8, <1>9
<1>11. ASSUME stack' = s, status' \notin {"running", "yielded"}
       PROVE  TypedCtx'
  BY <1>11, <1>s, TrapTyped
<1>12. CASE /\ ~DataFull(Len(full), k) /\ stack' = full
            /\ call_stack' = Append(SaveFrame, e) /\ Continue(0, 1) /\ UNCHANGED status
  <2>1. Len(full) <= stack_size
    <3>1. ~(Len(full) + functions[k].max_stack_depth > stack_size)
      BY <1>12 DEF DataFull
    <3>2. QED BY <1>8, <1>10, <1>s, <3>1
  <2>2. Base(functions, e) + functions[k].max_stack_depth <= stack_size
    <3>1. ~(Len(full) + functions[k].max_stack_depth > stack_size)
      BY <1>12 DEF DataFull
    <3>2. QED BY <1>8, <1>10, <1>s, <3>1
  <2> DEFINE y == x + b
  <2>y. Waiting(q, n, y) /\ y = x + b
    BY <1>w
  <2> HIDE DEF y
  <2>s. Saved(q, n, y)
    BY <2>y, SavedFrame
  <2>f. PICK S : SaveFrame \in Seq(S)
    BY <2>s DEF Saved
  <2>k. /\ Framed(functions, SaveFrame) /\ Len(SaveFrame) = Len(call_stack)
        /\ Len(call_stack) \in Nat /\ Len(call_stack) > 0
    BY <2>s DEF Saved
  <2>3. PICK h :
              /\ h = SaveFrame[Len(call_stack)]
              /\ h.func = frame.func /\ h.locals = frame.locals
              /\ h.ip = q /\ h.label_stack_top = n
              /\ Placed(functions, h, q, n, y - Base(functions, frame))
    BY <2>s DEF Saved
  <2>4. Base(functions, h) = base
    BY <1>1, <2>3 DEF Base
  <2>5. y - base = x - base + b
    BY <1>1, <1>4, <1>6, <2>y
  <2>6. Waits(functions, h, e)
    BY <1>2, <1>6, <1>8, <2>3, <2>4, <2>5 DEF Waits
  <2>7. Roomy(functions, e, Len(call_stack) + 1)
    <3>1. Len(call_stack) + 1 # 1
      BY <2>k
    <3>2. QED BY <1>6, <1>8, <2>2, <3>1 DEF Roomy
  <2>8. Framed(functions, Append(SaveFrame, e))
    BY <2>3, <2>6, <2>7, <2>f, <2>k, FramedPush
  <2>9. /\ Len(call_stack') = Len(call_stack) + 1
        /\ call_stack'[Len(call_stack')] = e
    BY <1>12, <2>k, <2>f, SeqPush
  <2>10. OnTop(functions, e, 0, 1, Len(full))
    <3>1. Len(full) - Base(functions, e) = 0 /\ Base(functions, e) <= Len(full)
      BY <1>10
    <3>2. QED BY <1>8, <3>1 DEF OnTop
  <2>11. regs'.ip = 0 /\ regs'.label_top = 1 /\ status' = "running"
    BY <1>12 DEF Continue
  <2>12. QED BY <1>3, <1>9, <1>12, <2>1, <2>8, <2>9, <2>10, <2>11 DEF TypedCtx
<1>13. \/ stack' = s /\ status' \notin {"running", "yielded"}
       \/ /\ ~DataFull(Len(full), k) /\ stack' = full
          /\ call_stack' = Append(SaveFrame, e) /\ Continue(0, 1) /\ UNCHANGED status
  BY <1>7, <1>z DEF PushCallFrame, full
<1>14. QED BY <1>11, <1>12, <1>13

LEMMA InvokeTyped ==
  ASSUME ValInv, CtxInv, TypingInv, TypedCtx, status = "running",
         NEW s, s \in Seq(Nat), Len(s) <= sp, NEW k, k \in DOMAIN functions,
         functions[k].results =
           IF instr.op = "call" THEN functions[instr.func].results ELSE instr.results,
         Base(functions, frame) + functions[k].params <= Len(s),
         Waiting(regs.ip + 1, regs.label_top,
                 Len(s) - functions[k].params + functions[k].results),
         NEW overflow, overflow \notin {"running", "yielded"}, Invoke(s, k, overflow)
  PROVE  TypedCtx'
<1>1. UNCHANGED valVars
  BY DEF Invoke
<1>2. CASE functions[k].kind = "host" /\ CallHost(s, k)
  BY <1>1, <1>2, CallHostTyped
<1>3. CASE functions[k].kind = "local" /\ PushCallFrame(s, k, overflow)
  BY <1>1, <1>3, PushTyped
<1>4. QED BY <1>2, <1>3 DEF Invoke

\* What a call takes is there, and the frame goes on behind the call.
LEMMA MovesWaiting ==
  ASSUME ValInv, CtxInv, TypingInv, TypedCtx, status = "running",
         NEW a, NEW b, a \in Nat, b \in Nat,
         Moves(Typing(frame.func)[regs.ip], Typing(frame.func)[regs.ip + 1], a, b),
         NEW x, x = sp - a + b
  PROVE  /\ Waiting(regs.ip + 1, regs.label_top, x)
         /\ Base(functions, frame) + a <= sp /\ sp \in Nat /\ stack \in Seq(Nat)
         /\ sp = Len(stack) /\ a <= sp /\ Base(functions, frame) \in Nat
<1>h. PICK g, f, T, N, p, n, base : Standing(g, f, T, N, p, n, base)
  BY Here
<1>1. /\ g = frame /\ f = g.func /\ T = Typing(f) /\ N = Len(functions[f].code)
      /\ p = regs.ip /\ n = regs.label_top /\ base = Base(functions, g)
      /\ n = Len(T[p].ctrls) /\ p + 1 \in 0..N /\ base \in Nat
      /\ T[p].h = sp - base /\ base <= sp /\ sp \in Nat
      /\ stack \in Seq(Nat) /\ sp = Len(stack)
      /\ ~InnerCtrl(T[p]).dead
      /\ InnerCtrl(T[p]).height \in Nat /\ InnerCtrl(T[p]).height <= T[p].h
  BY <1>h DEF Standing
<1> DEFINE q == p + 1
           y == x - base
<1>2. q \in 0..N /\ Moves(T[p], T[q], a, b) /\ q = regs.ip + 1
  BY <1>1
<1> HIDE DEF q
<1>3. a <= T[p].h - InnerCtrl(T[p]).height /\ T[q].h = T[p].h - a + b
  BY <1>1, <1>2 DEF Moves
<1> DEFINE th == T[p].h
           ih == InnerCtrl(T[p]).height
<1>4. th = sp - base /\ ih \in Nat /\ ih <= th /\ a <= th - ih /\ T[q].h = th - a + b
      /\ base \in Nat /\ sp \in Nat
  BY <1>1, <1>3
<1> HIDE DEF th, ih
<1>5. T[q].h = y /\ y \in Nat /\ base + a <= sp /\ a <= sp
  BY <1>4
<1>6. Goes(T, N, q, T[p], n, T[q].h)
  BY <1>1, <1>2, MovesGoes
<1>7. p = regs.ip /\ T = Typing(frame.func) /\ n = regs.label_top
      /\ N = Len(functions[frame.func].code) /\ base = Base(functions, frame)
  BY <1>1
<1>8. Goes(T, N, q, T[regs.ip], n, y)
  BY <1>5, <1>6, <1>7
<1>9. Waiting(q, n, x)
  BY <1>5, <1>7, <1>8 DEF Waiting
<1>10. QED BY <1>1, <1>2, <1>5, <1>7, <1>9

LEMMA CallTyped ==
  ASSUME ValInv, CtxInv, TypingInv, TypedCtx, Call
  PROVE  TypedCtx'
<1>1. status = "running" /\ Running({"call"}) /\ instr.op = "call"
  BY DEF Call, Running, instr
<1> DEFINE k == instr.func
<1>2. k \in DOMAIN functions
  BY <1>1, CallTarget
<1>3. functions[k].params \in Nat /\ functions[k].results \in Nat
  <2>1. functions[k] \in Functions
    BY <1>2, FunctionFields DEF ValInv
  <2>2. QED BY <2>1 DEF Functions
<1>4. Moves(Typing(frame.func)[regs.ip], Typing(frame.func)[regs.ip + 1],
            functions[k].params, functions[k].results)
  <2>1. Checks(Typing(frame.func)[regs.ip], Typing(frame.func)[regs.ip + 1], instr,
               Signatures)
    BY <1>1, Here DEF Standing
  <2>2. Moves(Typing(frame.func)[regs.ip], Typing(frame.func)[regs.ip + 1],
              Signatures[k].params, Signatures[k].results)
    BY <1>1, <2>1 DEF Checks
  <2>3. Signatures[k].params = functions[k].params
        /\ Signatures[k].results = functions[k].results
    BY <1>2 DEF Signatures
  <2>4. QED BY <2>2, <2>3
<1>5. /\ Waiting(regs.ip + 1, regs.label_top,
                 sp - functions[k].params + functions[k].results)
      /\ Base(functions, frame) + functions[k].params <= sp /\ sp \in Nat
      /\ stack \in Seq(Nat) /\ sp = Len(stack)
  BY <1>1, <1>3, <1>4, MovesWaiting
<1>6. functions[k].results =
        IF instr.op = "call" THEN functions[instr.func].results ELSE instr.results
  BY <1>1
<1>7. Invoke(stack, k, "kErrorExecuteTrapStackOverflow")
  BY DEF Call
<1> HIDE DEF k
<1>8. /\ Len(stack) <= sp /\ Base(functions, frame) + functions[k].params <= Len(stack)
      /\ Waiting(regs.ip + 1, regs.label_top,
                 Len(stack) - functions[k].params + functions[k].results)
  BY <1>5
<1>9. QED BY <1>1, <1>2, <1>5, <1>6, <1>7, <1>8, InvokeTyped

LEMMA CallIndirectTyped ==
  ASSUME ValInv, CtxInv, TypingInv, TypedCtx, CallIndirect
  PROVE  TypedCtx'
<1>1. status = "running" /\ Running({"call_indirect"}) /\ instr.op = "call_indirect"
  BY DEF CallIndirect, Running, instr
<1> DEFINE a == instr.params
           b == instr.results
<1>2. a \in Nat /\ b \in Nat
  <2>1. instr \in Instructions
    BY <1>1, Here DEF Standing
  <2>2. QED BY <1>1, <2>1, InstructionTypes
<1>3. Moves(Typing(frame.func)[regs.ip], Typing(frame.func)[regs.ip + 1], a + 1, b)
  <2>1. Checks(Typing(frame.func)[regs.ip], Typing(frame.func)[regs.ip + 1], instr,
               Signatures)
    BY <1>1, Here DEF Standing
  <2>2. QED BY <1>1, <2>1 DEF Checks
<1> HIDE DEF a, b
<1>4. a + 1 \in Nat
  BY <1>2
<1>5. /\ Waiting(regs.ip + 1, regs.label_top, sp - (a + 1) + b)
      /\ Base(functions, frame) + (a + 1) <= sp /\ sp \in Nat
      /\ stack \in Seq(Nat) /\ sp = Len(stack) /\ a + 1 <= sp
      /\ Base(functions, frame) \in Nat
  BY <1>1, <1>2, <1>3, <1>4, MovesWaiting
<1> DEFINE s == Below(stack, 1)
           z == Len(s)
           base == Base(functions, frame)
<1>6. s \in Seq(Nat) /\ z = sp - 1
  <2>1. 1 <= sp
    BY <1>2, <1>5
  <2>2. QED BY <1>5, <2>1, BelowNat
<1> HIDE DEF s
<1>z. z = Len(s) /\ base = Base(functions, frame)
  OBVIOUS
<1> HIDE DEF z, base
<1>b. base \in Nat /\ base + (a + 1) <= sp
  BY <1>5, <1>z
<1>7. base + a <= z /\ z <= sp /\ sp - (a + 1) + b = z - a + b /\ z \in Nat
  BY <1>2, <1>5, <1>6, <1>b
<1>8. ASSUME stack' = s, NEW r, r \notin {"running", "yielded"}, Trap(r) PROVE TypedCtx'
  <2>1. sp <= stack_size
    BY <1>5 DEF TypedCtx
  <2>2. Len(stack') <= stack_size
    <3>1. stack_size \in Nat
      BY ContextLimits
    <3>2. QED BY <1>5, <1>6, <1>7, <1>8, <1>z, <2>1, <3>1
  <2>3. status' \notin {"running", "yielded"} /\ stack' \in Seq(Nat)
    BY <1>6, <1>8 DEF Trap
  <2>4. QED BY <2>2, <2>3, TrapTyped
<1>9. ASSUME NEW k, k \in DOMAIN functions, functions[k].params = a,
             functions[k].results = b, Invoke(s, k, "kErrorExecuteTrapCallStackOverflow")
      PROVE  TypedCtx'
  <2>1. functions[k].results =
          IF instr.op = "call" THEN functions[instr.func].results ELSE instr.results
    BY <1>1, <1>9 DEF b
  <2>2. Len(s) <= sp /\ Base(functions, frame) + functions[k].params <= Len(s)
    BY <1>7, <1>9, <1>z
  <2>3. Waiting(regs.ip + 1, regs.label_top, z - a + b)
    BY <1>5, <1>7
  <2>4. Waiting(regs.ip + 1, regs.label_top,
                Len(s) - functions[k].params + functions[k].results)
    BY <1>9, <1>z, <2>3
  <2>5. QED BY <1>1, <1>6, <1>9, <2>1, <2>2, <2>4, InvokeTyped
<1> DEFINE elem == stack[sp] + 1
<1>10. \/ \E r \in {"kErrorExecuteTrapTableOutOfBounds",
                    "kErrorExecuteTrapTableUninitializedElement",
                    "kErrorExecuteTrapIndirectCallSignatureMismatch"} :
            stack' = s /\ Trap(r)
       \/ /\ elem \in DOMAIN table /\ table[elem] # 0
          /\ functions[table[elem]].params = a /\ functions[table[elem]].results = b
          /\ Invoke(s, table[elem], "kErrorExecuteTrapCallStackOverflow")
  BY DEF CallIndirect, s, a, b
<1> HIDE DEF elem
<1>11. CASE \E r \in {"kErrorExecuteTrapTableOutOfBounds",
                      "kErrorExecuteTrapTableUninitializedElement",
                      "kErrorExecuteTrapIndirectCallSignatureMismatch"} :
              stack' = s /\ Trap(r)
  BY <1>8, <1>11
<1>12. CASE /\ elem \in DOMAIN table /\ table[elem] # 0
            /\ functions[table[elem]].params = a /\ functions[table[elem]].results = b
            /\ Invoke(s, table[elem], "kErrorExecuteTrapCallStackOverflow")
  <2>1. functions \in Seq(Functions) /\ table[elem] \in 0..Len(functions)
    BY <1>12 DEF ValInv, ValidatorTypeOK, Progress
  <2>2. table[elem] \in DOMAIN functions BY <1>12, <2>1
  <2>3. QED BY <1>9, <1>12, <2>2
<1>13. QED BY <1>10, <1>11, <1>12

\* The frame of a thread that the host suspended.
LEMMA YieldedFrame ==
  ASSUME ValInv, CtxInv, TypedCtx, status = "yielded"
  PROVE  /\ Len(call_stack) \in Nat /\ Len(call_stack) > 0
         /\ frame = call_stack[Len(call_stack)] /\ frame.func \in Locals
         /\ phase = "done" /\ verdict = "kOk" /\ Framed(functions, call_stack)
         /\ Roomy(functions, frame, Len(call_stack))
         /\ Suspended(functions, frame, Len(stack))
<1>1. call_stack # << >> /\ phase = "done" /\ verdict = "kOk" BY DEF CtxInv
<1>2. PICK S : call_stack \in Seq(S) BY DEF CtxInv, Stacked
<1>3. Len(call_stack) \in Nat /\ Len(call_stack) > 0 BY <1>1, <1>2
<1>4. frame = call_stack[Len(call_stack)] BY DEF frame, top
<1>5. FrameOK(frame) BY <1>3, <1>4 DEF CtxInv, Stacked
<1>6. Framed(functions, call_stack) /\ Suspended(functions, frame, Len(stack))
  BY <1>4 DEF TypedCtx, Active
<1>7. Roomy(functions, frame, Len(call_stack))
  BY <1>3, <1>4, <1>6 DEF Framed
<1>8. QED BY <1>1, <1>3, <1>4, <1>5, <1>6, <1>7 DEF FrameOK, Locals

\* What the frame of a suspended thread waits for fits on the stack.
LEMMA YieldedFits ==
  ASSUME ValInv, CtxInv, TypingInv, TypedCtx, status = "yielded",
         NEW g, g = frame, NEW x, x = Len(stack) + Awaited(functions, g)
  PROVE  /\ Awaited(functions, g) \in Nat /\ Len(stack) \in Nat
         /\ Base(functions, g) <= Len(stack) /\ Base(functions, g) \in Nat
         /\ OnTop(functions, g, g.ip, g.label_stack_top, x) /\ x <= stack_size
         /\ x - Base(functions, g) \in 0..functions[g.func].max_stack_depth
         /\ g.label_stack_top <= functions[g.func].max_label_depth
<1>1. /\ g.func \in Locals /\ phase = "done" /\ verdict = "kOk"
      /\ Roomy(functions, g, Len(call_stack)) /\ Suspended(functions, g, Len(stack))
  BY YieldedFrame
<1>2. /\ Awaited(functions, g) \in Nat /\ Base(functions, g) <= Len(stack)
      /\ OnTop(functions, g, g.ip, g.label_stack_top, x)
  BY <1>1 DEF Suspended
<1>3. Len(stack) \in Nat BY DEF TypedCtx
<1>4. Seated(Typing(g.func), Len(functions[g.func].code), Base(functions, g), g.labels,
             g.ip, g.label_stack_top, x - Base(functions, g))
  BY <1>2, TypingHere DEF OnTop, Placed
<1>5. /\ x - Base(functions, g) \in 0..functions[g.func].max_stack_depth
      /\ g.label_stack_top <= functions[g.func].max_label_depth
      /\ Base(functions, g) \in Nat
      /\ Base(functions, g) + (x - Base(functions, g)) <= stack_size
  BY <1>1, <1>4, SeatedFits
<1> DEFINE base == Base(functions, g)
           a == Awaited(functions, g)
           z == Len(stack)
<1>6. base \in Nat /\ a \in Nat /\ z \in Nat /\ x = z + a /\ base + (x - base) <= stack_size
  BY <1>2, <1>3, <1>5
<1> HIDE DEF base, a, z
<1>7. x <= stack_size BY <1>6, ContextLimits
<1>8. QED BY <1>2, <1>3, <1>5, <1>7

LEMMA ResumeTyped ==
  ASSUME ValInv, CtxInv, TypingInv, TypedCtx, Resume
  PROVE  TypedCtx'
<1>1. status = "yielded" BY DEF Resume
<1>2. PICK g, a, x : /\ g = frame /\ a = Awaited(functions, g) /\ x = Len(stack) + a
  OBVIOUS
<1>3. /\ Len(call_stack) \in Nat /\ Len(call_stack) > 0
      /\ g = call_stack[Len(call_stack)] /\ Framed(functions, call_stack)
  BY <1>1, <1>2, YieldedFrame
<1>4. /\ a \in Nat /\ OnTop(functions, g, g.ip, g.label_stack_top, x) /\ x <= stack_size
  BY <1>1, <1>2, YieldedFits
<1>5. Pending = a BY <1>2 DEF Pending, Awaited, body
<1>6. PICK r : r \in Tuples(a) /\ stack' = stack \o r BY <1>5 DEF Resume
<1>7. stack' \in Seq(Nat) /\ Len(stack') = x
  <2>1. r \in Seq(Nat) /\ Len(r) = a BY <1>4, <1>6, TuplesNat
  <2>2. stack \in Seq(Nat) BY DEF TypedCtx
  <2>3. QED BY <1>2, <1>6, <2>1, <2>2, ConcatNat
<1>8. /\ regs'.ip = g.ip /\ regs'.label_top = g.label_stack_top /\ status' = "running"
      /\ UNCHANGED <<functions, call_stack>>
  BY <1>2 DEF Resume, Continue, valVars
<1>9. QED BY <1>3, <1>4, <1>7, <1>8 DEF TypedCtx

LEMMA ExecuteTyped ==
  ASSUME ValInv, CtxInv, TypingInv, TypedCtx, NEW f, f \in DOMAIN functions,
         NEW args, args \in Tuples(functions[f].params), Execute(f, args)
  PROVE  TypedCtx'
<1>1. /\ phase = "done" /\ verdict = "kOk" /\ functions[f].kind = "local"
      /\ functions' = functions
  BY DEF Execute, valVars
<1>2. PICK e : e = NewFrame(f, 0)
  OBVIOUS
<1>3. 0 \in Nat
  OBVIOUS
<1>4. /\ Placed(functions, e, 0, 1, 0) /\ e.func = f /\ e.locals = 0
      /\ Base(functions, e) = 0 + functions[f].params + functions[f].local_count
      /\ functions[f].params \in Nat /\ functions[f].local_count \in Nat
      /\ TotalLocals(functions[f]) <= stack_size
  BY <1>1, <1>2, <1>3, EntersFunction
<1> DEFINE a == functions[f].params
           n == functions[f].local_count
<1>5. a \in Nat /\ n \in Nat /\ a + n <= stack_size /\ Base(functions, e) = a + n
  BY <1>4 DEF TotalLocals
<1>6. args \in Seq(Nat) /\ Len(args) = a
  BY <1>4, TuplesNat
<1>7. Zeros(n) \in Seq(Nat) /\ Len(Zeros(n)) = n
  BY <1>4, ZerosNat
<1>8. args \o Zeros(n) \in Seq(Nat) /\ Len(args \o Zeros(n)) = a + n
  <2> HIDE DEF a, n
  <2>1. QED BY <1>6, <1>7, ConcatNat
<1>9. CASE status' = "kErrorExecuteTrapLabelStackOverflow" /\ stack' = args
  <2> HIDE DEF a, n
  <2>1. Len(stack') <= stack_size BY <1>5, <1>6, <1>9, ContextLimits
  <2>2. QED BY <1>6, <1>9, <2>1, TrapTyped
<1>10. CASE /\ call_stack' = <<e>> /\ stack' = args \o Zeros(n) /\ status' = "running"
            /\ regs' = [ip |-> 0, label_top |-> 1]
  <2> HIDE DEF a, n
  <2>1. stack' \in Seq(Nat) /\ Len(stack') = a + n BY <1>8, <1>10
  <2>2. /\ Len(<<e>>) = 1 /\ <<e>>[1] = e
        /\ (\A k \in 1..1 : k = 1) /\ 1..(1 - 1) = {}
    OBVIOUS
  <2>3. Roomy(functions, e, 1) BY <1>4 DEF Roomy
  <2>4. Framed(functions, <<e>>) BY <2>2, <2>3 DEF Framed
  <2>5. OnTop(functions, e, 0, 1, Len(stack'))
    <3> DEFINE z == Len(stack')
    <3>1. z - Base(functions, e) = 0 /\ Base(functions, e) <= z BY <1>5, <2>1
    <3> HIDE DEF z
    <3>2. Placed(functions, e, 0, 1, z - Base(functions, e)) BY <1>4, <3>1
    <3>3. OnTop(functions, e, 0, 1, z) BY <3>1, <3>2 DEF OnTop
    <3>4. QED BY <3>3 DEF z
  <2>6. QED BY <1>1, <1>5, <1>10, <2>1, <2>2, <2>4, <2>5 DEF TypedCtx
<1>11. QED BY <1>2, <1>9, <1>10 DEF Execute

LEMMA TypingSame ==
  ASSUME ValInv, TypingInv, UNCHANGED valVars PROVE TypingInv'
<1>1. UNCHANGED <<functions, func_idx, phase, scan>> BY DEF valVars
<1>2. Typing(func_idx)' = Typing(func_idx) /\ Code' = Code
  BY <1>1 DEF Typing, Signatures, Code
<1>3. ScanFits' BY <1>1, <1>2 DEF TypingInv, ScanFits
<1>4. QED BY <1>1, <1>3, TypingStays

\* Each step leaves the body that is scanned or executed where the checker of
\* WebAssembly is.
LEMMA StepTyped ==
  ASSUME Features = {}, ValInv, CtxInv, TypingInv, TypedCtx, [Next]_vars
  PROVE  TypingInv' /\ TypedCtx'
<1>1. TypingInv'
  BY ValidatorOrNot, ValidatorFits, TypingSame
<1>2. CASE ValidatorNext /\ UNCHANGED ctxVars
  <2>1. phase # "done"
    BY <1>2 DEF ValidatorNext, SkipFunction, AllValidated, BeginBody,
       RejectInstruction, ScanBlock, ScanIf, ScanElse, ScanEnd, ScanJump, ScanCall,
       ScanCallIndirect, ScanOperands, EndBody, Accepting, At, Scanning
  <2>2. status \notin {"running", "yielded"} BY <2>1 DEF CtxInv
  <2>3. UNCHANGED <<stack, status>> BY <1>2 DEF ctxVars
  <2>4. QED BY <1>1, <2>2, <2>3, TrapTyped DEF TypedCtx
<1>3. CASE \E f \in DOMAIN functions :
             \E args \in Tuples(functions[f].params) : Execute(f, args)
  <2>1. PICK f \in DOMAIN functions :
          \E args \in Tuples(functions[f].params) : Execute(f, args)
    BY <1>3
  <2>2. PICK args \in Tuples(functions[f].params) : Execute(f, args) BY <2>1
  <2>3. QED BY <1>1, <2>2, ExecuteTyped
<1>4. CASE Operand \/ Unreachable
  BY <1>1, <1>4, OperandTyped, UnreachableTyped
<1>5. CASE Block \/ If \/ Else
  BY <1>1, <1>5, BlockTyped, IfTyped, ElseTyped
<1>6. CASE Br \/ BrIf \/ BrTable
  BY <1>1, <1>6, BrTyped, BrIfTyped, BrTableTyped
<1>7. CASE End \/ Return
  BY <1>1, <1>7, EndTyped, ReturnTyped
<1>8. CASE Call \/ CallIndirect \/ Resume
  BY <1>1, <1>8, CallTyped, CallIndirectTyped, ResumeTyped
<1>9. CASE Done \/ UNCHANGED vars
  <2>1. UNCHANGED valVars /\ UNCHANGED ctxVars BY <1>9 DEF Done, vars
  <2>2. UNCHANGED <<functions, call_stack, stack, regs, status>>
    BY <2>1 DEF valVars, ctxVars
  <2>3. QED BY <1>1, <2>2 DEF TypedCtx, Active
<1>10. QED
  BY <1>2, <1>3, <1>4, <1>5, <1>6, <1>7, <1>8, <1>9 DEF Next

LEMMA InitTyped ==
  ASSUME InterpreterInit, ValidModule, FirstFrameFits PROVE TypingInv /\ TypedCtx
<1>1. /\ functions \in Seq(Functions) /\ func_idx = 1 /\ phase = "begin"
      /\ stack = << >> /\ status = "idle"
  BY DEF InterpreterInit, ValidatorInit
<1>2. ScanFits BY <1>1 DEF ScanFits
<1>3. Certificates
  <2>1. \A f \in Locals : ~(f < func_idx) BY <1>1 DEF Locals
  <2>2. QED BY <2>1 DEF Certificates
<1>4. stack \in Seq(Nat) /\ Len(stack) = 0 BY <1>1
<1>5. TypedCtx BY <1>1, <1>4, ContextLimits DEF TypedCtx, Active
<1>6. QED BY <1>2, <1>3, <1>5 DEF TypingInv

-----------------------------------------------------------------------------
\* What the frames hold of the operand stack and of their labels.
HeldBy(k) ==
  LET f == functions[call_stack[k].func]
      labels == IF k = top /\ status = "running" THEN regs.label_top
                ELSE call_stack[k].label_stack_top
  IN /\ OperandEnd(k) - OperandBase(k) \in 0..f.max_stack_depth
     /\ labels <= f.max_label_depth

LEMMA HeldBelow ==
  ASSUME ValInv, CtxInv, TypingInv, TypedCtx, Active, NEW k \in 1..top, k # top
  PROVE  HeldBy(k)
<1>1. call_stack # << >> /\ phase = "done" /\ verdict = "kOk" BY DEF CtxInv, Active
<1>2. PICK S : call_stack \in Seq(S) BY DEF CtxInv, Stacked
<1>3. top \in Nat /\ top = Len(call_stack) BY <1>2 DEF top
<1>4. k \in 1..(Len(call_stack) - 1) /\ k \in 1..Len(call_stack)
      /\ k + 1 \in 1..Len(call_stack)
  BY <1>3
<1>5. PICK g, h : g = call_stack[k] /\ h = call_stack[k + 1]
  OBVIOUS
<1>6. Waits(functions, g, h) /\ Roomy(functions, g, k) /\ Roomy(functions, h, k + 1)
  BY <1>4, <1>5 DEF TypedCtx, Framed
<1>7. FrameOK(g) /\ FrameOK(h) BY <1>4, <1>5 DEF CtxInv, Stacked
<1>8. g.func \in Locals /\ functions[h.func].results \in Nat
  <2>1. functions[h.func] \in Functions BY <1>7, FunctionFields DEF ValInv, FrameOK
  <2>2. QED BY <1>7, <2>1 DEF FrameOK, Locals, Functions
<1> DEFINE base == Base(functions, g)
           r == functions[h.func].results
           x == h.locals - base + r
<1>9. Seated(Typing(g.func), Len(functions[g.func].code), base, g.labels,
             g.ip, g.label_stack_top, x)
  BY <1>6, TypingHere DEF Waits, Placed
<1>10. /\ x \in 0..functions[g.func].max_stack_depth /\ base \in Nat
       /\ g.label_stack_top <= functions[g.func].max_label_depth
  <2> HIDE DEF x
  <2>1. QED BY <1>1, <1>6, <1>8, <1>9, SeatedFits
<1>11. functions[g.func].max_stack_depth \in Int
  <2>1. functions[g.func] \in Functions BY <1>7, FunctionFields DEF ValInv, FrameOK
  <2>2. QED BY <2>1 DEF Functions
<1>12. base <= h.locals /\ h.locals \in Nat /\ r \in Nat
  BY <1>6, <1>8 DEF Waits, Roomy
<1>13. OperandBase(k) = base BY <1>5 DEF OperandBase, Base
<1>14. OperandEnd(k) = h.locals BY <1>5 DEF OperandEnd
<1> DEFINE m == functions[g.func].max_stack_depth
           y == h.locals
<1>15. y - base \in 0..m
  <2>1. x = y - base + r OBVIOUS
  <2>2. x \in 0..m /\ m \in Int /\ base \in Nat /\ base <= y /\ y \in Nat /\ r \in Nat
    BY <1>10, <1>11, <1>12
  <2> HIDE DEF x, m, y, base, r
  <2>3. QED BY <2>1, <2>2
<1>16. QED BY <1>5, <1>10, <1>13, <1>14, <1>15 DEF HeldBy

LEMMA HeldOnTop ==
  ASSUME ValInv, CtxInv, TypingInv, TypedCtx, Active PROVE HeldBy(top)
<1>1. CASE status = "running"
  <2>h. PICK g, f, T, N, p, n, base : Standing(g, f, T, N, p, n, base)
    BY <1>1, Here
  <2>1. /\ g = call_stack[top] /\ f = g.func /\ f \in Locals /\ T = Typing(f)
        /\ N = Len(functions[f].code) /\ n = regs.label_top /\ base = Base(functions, g)
        /\ Roomy(functions, g, Len(call_stack))
        /\ Seated(T, N, base, g.labels, p, n, sp - base)
    BY <2>h DEF Standing, top
  <2>2. phase = "done" /\ verdict = "kOk" BY <1>1, RunningFrame
  <2>3. /\ sp - base \in 0..functions[f].max_stack_depth
        /\ n <= functions[f].max_label_depth
    BY <2>1, <2>2, SeatedFits
  <2>4. OperandBase(top) = base BY <2>1 DEF OperandBase, Base
  <2>5. OperandEnd(top) = sp BY DEF OperandEnd
  <2>6. QED BY <1>1, <2>1, <2>3, <2>4, <2>5 DEF HeldBy
<1>2. CASE status = "yielded"
  <2>1. PICK g, x : g = frame /\ x = Len(stack) + Awaited(functions, g) OBVIOUS
  <2>2. /\ Awaited(functions, g) \in Nat /\ Len(stack) \in Nat
        /\ Base(functions, g) <= Len(stack) /\ Base(functions, g) \in Nat
        /\ x - Base(functions, g) \in 0..functions[g.func].max_stack_depth
        /\ g.label_stack_top <= functions[g.func].max_label_depth
    BY <1>2, <2>1, YieldedFits
  <2>3. functions[g.func].max_stack_depth \in Int
    <3>1. g.func \in DOMAIN functions BY <1>2, <2>1, YieldedFrame DEF Locals
    <3>2. functions[g.func] \in Functions BY <3>1, FunctionFields DEF ValInv
    <3>3. QED BY <3>2 DEF Functions
  <2> DEFINE base == Base(functions, g)
             m == functions[g.func].max_stack_depth
             a == Awaited(functions, g)
  <2>4. sp - base \in 0..m
    <3>1. sp = Len(stack) BY DEF sp
    <3>2. /\ x = sp + a /\ a \in Nat /\ sp \in Nat /\ base <= sp /\ base \in Nat
          /\ x - base \in 0..m /\ m \in Int
      BY <2>1, <2>2, <2>3, <3>1
    <3> HIDE DEF base, m, a
    <3>3. QED BY <3>2
  <2>5. g = call_stack[top] BY <2>1 DEF frame
  <2>6. OperandBase(top) = base BY <2>5 DEF OperandBase, Base
  <2>7. OperandEnd(top) = sp BY DEF OperandEnd
  <2>8. QED BY <1>2, <2>2, <2>4, <2>5, <2>6, <2>7 DEF HeldBy
<1>3. QED BY <1>1, <1>2 DEF Active

LEMMA TypedReserve ==
  ASSUME ValInv, CtxInv, TypingInv, TypedCtx PROVE WithinReserve /\ StackFits
<1>1. ASSUME Active, NEW k \in 1..top PROVE HeldBy(k)
  BY <1>1, HeldBelow, HeldOnTop
<1>2. WithinReserve BY <1>1 DEF WithinReserve, HeldBy
<1>3. StackFits BY DEF TypedCtx, StackFits, sp
<1>4. QED BY <1>2, <1>3

LEMMA TypedFetch ==
  ASSUME ValInv, CtxInv, TypingInv, TypedCtx PROVE FetchInBody
<1> SUFFICES ASSUME status = "running" PROVE regs.ip < Len(body)
  BY DEF FetchInBody
<1>h. PICK g, f, T, N, p, n, base : Standing(g, f, T, N, p, n, base)
  BY Here
<1>1. QED BY <1>h DEF Standing

\* For a module that WebAssembly calls valid, and a stack with room for the
\* first frame, the body that is scanned or executed is where the checker of
\* WebAssembly is, in every frame.
THEOREM TypedInvariant ==
  ASSUME Features = {}
  PROVE  Spec /\ ValidModule /\ FirstFrameFits => [](TypingInv /\ TypedCtx)
<1>1. InterpreterInit /\ ValidModule /\ FirstFrameFits => TypingInv /\ TypedCtx
  BY InitTyped
<1>2. ValInv /\ CtxInv /\ TypingInv /\ TypedCtx /\ [Next]_vars => (TypingInv /\ TypedCtx)'
  BY StepTyped
<1>3. QED BY <1>1, <1>2, InterpreterInvariant, PTL DEF Spec

\* No frame of such a module ever holds more operands or labels than the
\* validator counted, so that what RunLoop no longer tests is true.
THEOREM CapacitiesCorrect ==
  ASSUME Features = {}
  PROVE  Spec /\ ValidModule /\ FirstFrameFits => []CapacitiesKept
<1>1. BuffersFit /\ ValInv /\ CtxInv /\ TypingInv /\ TypedCtx => CapacitiesKept
  BY TypedReserve DEF CapacitiesKept
<1>2. QED BY <1>1, InterpreterInvariant, BuffersCorrect, TypedInvariant, PTL

\* RunLoop fetches inside the body of the function, although it does not
\* compare ip with the limit.
THEOREM FetchCorrect ==
  ASSUME Features = {}
  PROVE  Spec /\ ValidModule /\ FirstFrameFits => []FetchInBody
<1>1. ValInv /\ CtxInv /\ TypingInv /\ TypedCtx => FetchInBody
  BY TypedFetch
<1>2. QED BY <1>1, InterpreterInvariant, TypedInvariant, PTL
=============================================================================
