-------------------------- MODULE RefinementProofs --------------------------
(***************************************************************************)
(* Proofs that the interpreter implements the structured semantics of      *)
(* WasmMachine, for every valid module, limit and table.  The jump tables  *)
(* say where the nesting ends a block; the labels cut the one stack into   *)
(* the operands of the blocks; and what the top frame does leaves what the *)
(* frames below wait with alone.  With that each action of the interpreter *)
(* is the action of WasmMachine of the same instruction.                   *)
(***************************************************************************)
EXTENDS InterpreterProofs, WasmRefinement, FiniteSetTheorems

-----------------------------------------------------------------------------
(* Where a block ends: the nesting of the code and the jump table *)

\* WasmMachine counts with the Cardinality of its own FiniteSets.
LEMMA CardinalSame == ASSUME NEW S PROVE Abstract!Cardinality(S) = Cardinality(S)
BY DEF Abstract!Cardinality, Cardinality

LEMMA CountNext ==
  ASSUME NEW code, NEW i \in Nat, NEW j \in Int, i <= j + 1, NEW ops
  PROVE  /\ Abstract!Count(code, i, i - 1, ops) = 0
         /\ Abstract!Count(code, i, j, ops) \in Nat
         /\ Abstract!Count(code, i, j + 1, ops) =
              Abstract!Count(code, i, j, ops) + IF code[j + 1].op \in ops THEN 1 ELSE 0
<1> DEFINE Hits(k) == {m \in i..k : code[m].op \in ops}
<1>1. \A k : Abstract!Count(code, i, k, ops) = Cardinality(Hits(k))
  BY CardinalSame DEF Abstract!Count
<1>2. Hits(i - 1) = {}
  OBVIOUS
<1>3. IsFiniteSet(Hits(j))
  <2>1. IsFiniteSet(i..j) BY FS_Interval
  <2>2. QED BY <2>1, FS_Subset
<1>4. Hits(j + 1) = IF code[j + 1].op \in ops THEN Hits(j) \union {j + 1} ELSE Hits(j)
  <2>1. i..(j + 1) = (i..j) \union {j + 1} OBVIOUS
  <2>2. QED BY <2>1
<1>5. j + 1 \notin Hits(j)
  OBVIOUS
<1> HIDE DEF Hits
<1>6. Cardinality(Hits(i - 1)) = 0 /\ Cardinality(Hits(j)) \in Nat
  BY <1>2, <1>3, FS_EmptySet, FS_CardinalityType
<1>7. Cardinality(Hits(j) \union {j + 1}) = Cardinality(Hits(j)) + 1
  BY <1>3, <1>5, FS_AddElement
<1>8. Cardinality(Hits(j + 1)) =
        Cardinality(Hits(j)) + IF code[j + 1].op \in ops THEN 1 ELSE 0
  BY <1>4, <1>6, <1>7
<1>9. QED BY <1>1, <1>6, <1>8

\* What an instruction adds to the nesting.
Grows(op) == IF op \in Abstract!Openers THEN 1 ELSE IF op = "end" THEN -1 ELSE 0

Nesting(T, code) ==
  \A n \in 0..Len(code) : n < Len(code) =>
    Len(T[n + 1].ctrls) = Len(T[n].ctrls) + Grows(code[n + 1].op)

LEMMA BodyNests ==
  ASSUME NEW f, Body(f) PROVE Nesting(Typing(f), functions[f].code)
<1> DEFINE code == functions[f].code
           T == Typing(f)
           N == Len(code)
<1>1. /\ \A n \in 0..N : Formed(T[n], functions[f].results)
      /\ \A n \in 0..N : T[n].ctrls = << >> <=> n = N
      /\ \A n \in 0..N : n < N =>
           /\ Checks(T[n], T[n + 1], code[n + 1], Signatures)
           /\ code[n + 1].op \in AllOps
  BY DEF Body
<1> HIDE DEF T, code, N
<1>2. ASSUME NEW n \in 0..N, n < N
      PROVE  Len(T[n + 1].ctrls) = Len(T[n].ctrls) + Grows(code[n + 1].op)
  <2> DEFINE i == code[n + 1]
             s == T[n]
             r == T[n + 1]
  <2>1. /\ Formed(s, functions[f].results) /\ s.ctrls # << >>
        /\ Checks(s, r, i, Signatures) /\ i.op \in AllOps
    BY <1>1, <1>2
  <2> HIDE DEF i, s, r
  <2>2. /\ Len(s.ctrls) \in Nat
        /\ Len(r.ctrls) = IF i.op \in BlockOps \union {"if"} THEN Len(s.ctrls) + 1
                          ELSE IF i.op = "end" THEN Len(s.ctrls) - 1 ELSE Len(s.ctrls)
    BY <2>1, Nests
  <2>3. Len(r.ctrls) = Len(s.ctrls) + Grows(i.op)
    <3>1. PICK a, b, op : a = Len(s.ctrls) /\ b = Len(r.ctrls) /\ op = i.op
      OBVIOUS
    <3>2. /\ a \in Nat
          /\ b = IF op \in {"block", "loop", "if"} THEN a + 1
                 ELSE IF op = "end" THEN a - 1 ELSE a
      BY <2>2, <3>1 DEF BlockOps
    <3>3. b = a + Grows(op)
      <4>1. Grows(op) = IF op \in {"block", "loop", "if"} THEN 1
                        ELSE IF op = "end" THEN -1 ELSE 0
        BY DEF Grows, Abstract!Openers
      <4>2. CASE op \in {"block", "loop", "if"}
        BY <3>2, <4>1, <4>2
      <4>3. CASE op \notin {"block", "loop", "if"}
        BY <3>2, <4>1, <4>3
      <4>4. QED BY <4>2, <4>3
    <3>4. QED BY <3>1, <3>3
  <2>4. QED BY <2>3 DEF i, s, r
<1>3. QED BY <1>2 DEF Nesting, T, code, N

LEMMA LevelNext ==
  ASSUME NEW code, NEW i \in Nat, NEW j \in Int, i <= j + 1
  PROVE  /\ Abstract!Level(code, i, i - 1) = 0 /\ Abstract!Level(code, i, j) \in Int
         /\ Abstract!Level(code, i, j + 1) = Abstract!Level(code, i, j) + Grows(code[j + 1].op)
<1> DEFINE up(k) == Abstract!Count(code, i, k, Abstract!Openers)
           down(k) == Abstract!Count(code, i, k, {"end"})
<1>1. PICK op : op = code[j + 1].op
  OBVIOUS
<1>2. /\ up(i - 1) = 0 /\ up(j) \in Nat
      /\ up(j + 1) = up(j) + IF op \in Abstract!Openers THEN 1 ELSE 0
  BY <1>1, CountNext
<1>3. /\ down(i - 1) = 0 /\ down(j) \in Nat
      /\ down(j + 1) = down(j) + IF op \in {"end"} THEN 1 ELSE 0
  BY <1>1, CountNext
<1>4. \A k : Abstract!Level(code, i, k) = up(k) - down(k)
  BY DEF Abstract!Level
<1> HIDE DEF up, down
<1>5. op \in Abstract!Openers => op # "end"
  BY DEF Abstract!Openers
<1>6. up(j + 1) - down(j + 1) = (up(j) - down(j)) + Grows(op)
  <2>1. CASE op \in Abstract!Openers
    BY <1>2, <1>3, <1>5, <2>1 DEF Grows
  <2>2. CASE op \notin Abstract!Openers
    BY <1>2, <1>3, <2>2 DEF Grows
  <2>3. QED BY <2>1, <2>2
<1>7. QED BY <1>1, <1>2, <1>3, <1>4, <1>6

\* Counted from instruction i on, the nesting is what was opened since.
LEMMA LevelIs ==
  ASSUME NEW f, Body(f), NEW T, T = Typing(f), NEW code, code = functions[f].code,
         NEW i, i \in 1..Len(code)
  PROVE  \A j \in i..Len(code) :
           Abstract!Level(code, i, j) = Len(T[j].ctrls) - Len(T[i - 1].ctrls)
<1> DEFINE N == Len(code)
           L(k) == Len(T[k].ctrls)
           P(k) == i + k <= N => Abstract!Level(code, i, i + k) = L(i + k) - L(i - 1)
<1>1. /\ N \in Nat /\ i \in Nat /\ i >= 1 /\ i <= N
      /\ \A n \in 0..N : Formed(T[n], functions[f].results)
  BY DEF Body
<1>2. \A k \in 0..N : L(k) \in Nat
  BY <1>1 DEF Formed, States
<1>3. \A n \in 0..N : n < N => L(n + 1) = L(n) + Grows(code[n + 1].op)
  BY BodyNests DEF Nesting
<1>g. \A op : Grows(op) \in Int
  BY DEF Grows
<1> HIDE DEF N, L
<1>4. P(0)
  <2>1. i - 1 \in 0..N /\ i - 1 < N /\ i - 1 \in Int /\ i <= (i - 1) + 1 /\ (i - 1) + 1 = i
    BY <1>1
  <2>2. L(i) = L(i - 1) + Grows(code[i].op)
    BY <1>3, <2>1
  <2>3. Abstract!Level(code, i, i) = 0 + Grows(code[i].op)
    BY <1>1, <2>1, LevelNext
  <2>4. L(i - 1) \in Nat /\ Grows(code[i].op) \in Int
    BY <1>2, <1>g, <2>1
  <2>5. i + 0 = i
    BY <1>1
  <2>6. Abstract!Level(code, i, i) = L(i) - L(i - 1)
    BY <2>2, <2>3, <2>4
  <2>7. QED BY <2>5, <2>6
<1>5. ASSUME NEW k \in Nat, P(k) PROVE P(k + 1)
  <2> SUFFICES ASSUME i + (k + 1) <= N
               PROVE  Abstract!Level(code, i, i + (k + 1)) = L(i + (k + 1)) - L(i - 1)
    OBVIOUS
  <2>1. PICK m : m = i + k
    OBVIOUS
  <2>2. /\ m \in Nat /\ m \in 0..N /\ m < N /\ i <= m + 1 /\ m \in Int /\ i + (k + 1) = m + 1
        /\ i + k <= N /\ i - 1 \in 0..N
    BY <1>1, <2>1
  <2>3. Abstract!Level(code, i, m) = L(m) - L(i - 1)
    BY <1>5, <2>1, <2>2
  <2>4. Abstract!Level(code, i, m + 1) = Abstract!Level(code, i, m) + Grows(code[m + 1].op)
    BY <1>1, <2>2, LevelNext
  <2>5. L(m + 1) = L(m) + Grows(code[m + 1].op)
    BY <1>3, <2>2
  <2>6. L(m) \in Nat /\ L(i - 1) \in Nat /\ Grows(code[m + 1].op) \in Int
    BY <1>2, <1>g, <2>2
  <2>7. Abstract!Level(code, i, m + 1) = L(m + 1) - L(i - 1)
    BY <2>3, <2>4, <2>5, <2>6
  <2>8. QED BY <2>2, <2>7
<1> HIDE DEF P
<1>6. \A k \in 0..N : P(k)
  <2> DEFINE Met == {m \in 0..N : P(m)}
  <2>1. 0 \in Met /\ \A m \in 1..N : m - 1 \in Met => m \in Met
    <3>1. \A m \in 1..N : m - 1 \in Nat /\ (m - 1) + 1 = m /\ m \in 0..N
      BY <1>1
    <3>2. 0 \in 0..N
      BY <1>1
    <3>3. QED BY <1>4, <1>5, <3>1, <3>2
  <2> HIDE DEF Met
  <2>2. \A m \in 0..N : m \in Met
    BY <1>1, <2>1, Reached
  <2>3. QED BY <2>2 DEF Met
<1>7. ASSUME NEW j \in i..N PROVE Abstract!Level(code, i, j) = L(j) - L(i - 1)
  <2>1. j - i \in 0..N /\ i + (j - i) = j /\ i + (j - i) <= N
    BY <1>1
  <2>2. QED BY <1>6, <2>1 DEF P
<1>8. QED BY <1>7 DEF N, L

\* An entry of the jump table says where WebAssembly ends the block and where
\* its else is.
LEMMA EntryEnds ==
  ASSUME NEW f, Body(f), NEW T, T = Typing(f), NEW code, code = functions[f].code,
         NEW e, EntryFits(T, Len(code), e), Spans(T, code, e, e.end - 1), e.end # 0,
         code[e.body].op \in Abstract!Openers, e.else \in Nat
  PROVE  e.end = Abstract!EndOf(code, e.body) /\ e.else = Abstract!ElseOf(code, e.body)
<1>1. PICK N, i, d, k, x : /\ N = Len(code) /\ i = e.body /\ d = e.end
                           /\ k = Len(T[i].ctrls) /\ x = e.else
  OBVIOUS
<1>2. /\ i \in 1..N /\ d \in 1..N /\ k \in Nat /\ Len(T[d].ctrls) = k - 1
      /\ x # 0 => Len(T[x].ctrls) = k
  <2>1. /\ i \in 1..N /\ T[i] \in States
        /\ d \in 1..N /\ Len(T[d].ctrls) = Len(T[i].ctrls) - 1
        /\ x # 0 => Len(T[x].ctrls) = Len(T[i].ctrls)
    BY <1>1 DEF EntryFits
  <2>2. QED BY <1>1, <2>1 DEF States
<1>3. /\ i <= d - 1
      /\ \A m \in i..(d - 1) : Len(T[m].ctrls) >= k
      /\ \A m \in i..(d - 1) : code[m].op = "else" /\ Len(T[m].ctrls) = k => m = x
      /\ x # 0 => x \in i..(d - 1) /\ code[x].op = "else"
  BY <1>1 DEF Spans
<1>n. N \in Nat /\ \A n \in 0..N : Formed(T[n], functions[f].results)
  BY <1>1 DEF Body
<1>4. \A j \in i..N : Len(T[j].ctrls) \in Nat
  <2>1. \A j \in i..N : j \in 0..N
    BY <1>2, <1>n
  <2>2. QED BY <1>n, <2>1 DEF Formed, States
<1>5. Len(T[i - 1].ctrls) = k - 1
  <2>1. i - 1 \in 0..N /\ i - 1 < N /\ (i - 1) + 1 = i
    BY <1>2, <1>n
  <2>2. Len(T[(i - 1) + 1].ctrls) = Len(T[i - 1].ctrls) + Grows(code[(i - 1) + 1].op)
    BY <1>1, <2>1, BodyNests DEF Nesting
  <2>3. Grows(code[i].op) = 1
    BY <1>1 DEF Grows
  <2>4. Len(T[i - 1].ctrls) \in Nat
    BY <1>n, <2>1 DEF Formed, States
  <2>5. PICK q, l : q = i - 1 /\ l = Len(T[q].ctrls)
    OBVIOUS
  <2>6. k = l + 1 /\ l \in Nat
    <3>1. q + 1 = i BY <2>1, <2>5
    <3>2. Len(T[i].ctrls) = l + 1 BY <2>2, <2>3, <2>5, <3>1
    <3>3. QED BY <1>1, <2>4, <2>5, <3>2
  <2>7. l = k - 1 BY <2>6
  <2>8. QED BY <2>5, <2>7
<1> DEFINE V(j) == Abstract!Level(code, i, j)
<1>6. \A j \in i..N : V(j) = Len(T[j].ctrls) - (k - 1)
  <2>1. \A j \in i..N : Abstract!Level(code, i, j) = Len(T[j].ctrls) - Len(T[i - 1].ctrls)
    <3>1. i \in 1..Len(code) BY <1>1, <1>2
    <3>2. \A j \in i..Len(code) :
            Abstract!Level(code, i, j) = Len(T[j].ctrls) - Len(T[i - 1].ctrls)
      BY <3>1, LevelIs
    <3>3. QED BY <1>1, <3>2
  <2>2. PICK l : l = Len(T[i - 1].ctrls) /\ l = k - 1
    BY <1>5
  <2>3. QED BY <2>1, <2>2
<1>7. \A j \in i..N : V(j) \in Int
  BY <1>2, <1>4, <1>6
<1>8. d \in i..N /\ \A j \in i..(d - 1) : j \in i..N
  BY <1>2, <1>3, <1>n
<1>9. V(d) = 0 /\ \A j \in i..(d - 1) : V(j) > 0
  <2>1. V(d) = 0
    BY <1>2, <1>6, <1>8
  <2>2. ASSUME NEW j \in i..(d - 1) PROVE V(j) > 0
    <3>1. V(j) = Len(T[j].ctrls) - (k - 1) /\ Len(T[j].ctrls) >= k /\ Len(T[j].ctrls) \in Nat
      BY <1>3, <1>4, <1>6, <1>8
    <3>2. QED BY <1>2, <3>1
  <2>3. QED BY <2>1, <2>2
<1> DEFINE Ends(j) == V(j) = 0 /\ \A m \in i..(j - 1) : V(m) > 0
<1>10. \A j \in i..N : Ends(j) => j = d
  <2>1. SUFFICES ASSUME NEW j \in i..N, Ends(j), j # d PROVE FALSE
    OBVIOUS
  <2>2. CASE j < d
    <3>1. j \in i..(d - 1)
      BY <1>2, <1>n, <2>2
    <3>2. V(j) > 0 /\ V(j) = 0
      BY <1>9, <2>1, <3>1
    <3> HIDE DEF V
    <3>3. QED BY <3>2
  <2>3. CASE j > d
    <3>1. d \in i..(j - 1)
      BY <1>2, <1>3, <1>n, <2>3
    <3>2. V(d) > 0 /\ V(d) = 0
      BY <1>9, <2>1, <3>1
    <3> HIDE DEF V
    <3>3. QED BY <3>2
  <2>4. QED BY <1>2, <1>n, <2>1, <2>2, <2>3
<1>11. Abstract!EndOf(code, i) = CHOOSE j \in i..N : Ends(j)
  BY <1>1 DEF Abstract!EndOf
<1>12. Ends(d)
  BY <1>9
<1> HIDE DEF Ends
<1>13. Abstract!EndOf(code, i) = d
  BY <1>8, <1>10, <1>11, <1>12
<1> DEFINE at == {j \in i..d : code[j].op = "else" /\ V(j) = 1}
<1>14. Abstract!ElseOf(code, i) = IF at = {} THEN 0 ELSE CHOOSE j \in at : TRUE
  BY <1>13 DEF Abstract!ElseOf
<1>15. \A j \in at : j = x /\ x # 0
  <2>1. SUFFICES ASSUME NEW j \in i..d, code[j].op = "else", V(j) = 1
                 PROVE  j = x /\ j # 0
    OBVIOUS
  <2>2. j # d /\ j # 0
    BY <1>2, <1>9, <2>1
  <2>3. j \in i..(d - 1) /\ j \in i..N
    BY <1>2, <1>n, <2>2
  <2>4. V(j) = Len(T[j].ctrls) - (k - 1) /\ Len(T[j].ctrls) \in Nat
    BY <1>4, <1>6, <2>3
  <2>5. Len(T[j].ctrls) = k
    <3>1. PICK l : l = Len(T[j].ctrls) OBVIOUS
    <3>2. l \in Nat /\ 1 = l - (k - 1)
      BY <2>1, <2>4, <3>1
    <3>3. l = k BY ONLY <1>2, <3>2
    <3>4. QED BY <3>1, <3>3
  <2>6. QED BY <1>3, <2>1, <2>2, <2>3, <2>5
<1>16. x # 0 => x \in at
  <2>1. SUFFICES ASSUME x # 0 PROVE x \in at
    OBVIOUS
  <2>2. x \in i..(d - 1) /\ code[x].op = "else" /\ Len(T[x].ctrls) = k
    BY <1>2, <1>3, <2>1
  <2>3. x \in i..d /\ x \in i..N
    BY <1>2, <1>8, <2>2
  <2>4. V(x) = 1
    BY <1>2, <1>6, <2>2, <2>3
  <2>5. QED BY <2>2, <2>3, <2>4
<1> HIDE DEF at
<1>17. Abstract!ElseOf(code, i) = x
  <2>1. CASE x = 0
    <3>1. at = {}
      BY <1>15, <2>1
    <3>2. QED BY <1>14, <2>1, <3>1
  <2>2. CASE x # 0
    <3>1. at # {} /\ (CHOOSE j \in at : TRUE) \in at
      BY <1>16, <2>2
    <3>2. QED BY <1>14, <1>15, <3>1
  <2>3. QED BY <2>1, <2>2
<1>18. QED BY <1>1, <1>13, <1>17

-----------------------------------------------------------------------------
(* Slices of the one stack *)

\* The slots a + 1 to b.
Slice(s, a, b) == SubSeq(s, a + 1, b)

LEMMA SliceFacts ==
  ASSUME NEW s, s \in Seq(Nat), NEW a, a \in Nat, NEW b, b \in Nat, a <= b, b <= Len(s)
  PROVE  /\ SubSeq(s, a + 1, b) \in Seq(Nat) /\ Len(SubSeq(s, a + 1, b)) = b - a
         /\ \A i \in 1..(b - a) : SubSeq(s, a + 1, b)[i] = s[a + i]
<1>1. PICK c : c = a + 1
  OBVIOUS
<1>2. /\ c \in Int /\ b \in Int /\ \A i \in c..b : s[i] \in Nat
      /\ b - c + 1 = b - a
  <2>1. Len(s) \in Nat
    OBVIOUS
  <2>2. \A i \in c..b : i \in 1..Len(s)
    BY <1>1, <2>1
  <2>3. QED BY <1>1, <2>2
<1>3. /\ SubSeq(s, c, b) \in Seq(Nat)
      /\ Len(SubSeq(s, c, b)) = IF c <= b THEN b - c + 1 ELSE 0
      /\ \A i \in 1..(b - c + 1) : SubSeq(s, c, b)[i] = s[c + i - 1]
  BY <1>2, SubSeqProperties
<1>4. Len(SubSeq(s, c, b)) = b - a
  BY <1>1, <1>3
<1>5. \A i \in 1..(b - a) : c + i - 1 = a + i
  BY <1>1
<1>6. \A i \in 1..(b - a) : SubSeq(s, c, b)[i] = s[a + i]
  BY <1>2, <1>3, <1>5
<1>7. QED BY <1>1, <1>3, <1>4, <1>6

LEMMA SameNat ==
  ASSUME NEW s, s \in Seq(Nat), NEW t, t \in Seq(Nat), Len(s) = Len(t),
         \A i \in 1..Len(s) : s[i] = t[i]
  PROVE  s = t
OBVIOUS

LEMMA SliceSame ==
  ASSUME NEW s, s \in Seq(Nat), NEW t, t \in Seq(Nat), NEW a, a \in Nat, NEW b, b \in Nat,
         a <= b, b <= Len(s), b <= Len(t), \A i \in (a + 1)..b : t[i] = s[i]
  PROVE  SubSeq(t, a + 1, b) = SubSeq(s, a + 1, b)
<1>1. /\ SubSeq(s, a + 1, b) \in Seq(Nat) /\ Len(SubSeq(s, a + 1, b)) = b - a
      /\ \A i \in 1..(b - a) : SubSeq(s, a + 1, b)[i] = s[a + i]
  BY SliceFacts
<1>2. /\ SubSeq(t, a + 1, b) \in Seq(Nat) /\ Len(SubSeq(t, a + 1, b)) = b - a
      /\ \A i \in 1..(b - a) : SubSeq(t, a + 1, b)[i] = t[a + i]
  BY SliceFacts
<1>3. \A i \in 1..(b - a) : t[a + i] = s[a + i]
  <2>1. \A i \in 1..(b - a) : a + i \in (a + 1)..b
    OBVIOUS
  <2>2. QED BY <2>1
<1>4. PICK p, q, n : p = SubSeq(s, a + 1, b) /\ q = SubSeq(t, a + 1, b) /\ n = b - a
  OBVIOUS
<1>5. p \in Seq(Nat) /\ q \in Seq(Nat) /\ Len(p) = Len(q) /\ \A i \in 1..Len(p) : q[i] = p[i]
  BY <1>1, <1>2, <1>3, <1>4
<1>6. p = q
  BY ONLY <1>5, SameNat
<1>7. QED BY <1>4, <1>6

\* A slice with k slots on top of it.
Parts(s, a, b, k, e) ==
  /\ s \in Seq(Nat) /\ a \in Nat /\ b \in Nat /\ a <= b /\ b <= Len(s)
  /\ k \in Nat /\ k <= b - a /\ e = b - k

LEMMA KeepSlice ==
  ASSUME NEW s, NEW a, NEW b, NEW k, NEW e, Parts(s, a, b, k, e)
  PROVE  Abstract!Keep(Slice(s, a, b), k) = Slice(s, a, e)
<1>1. /\ s \in Seq(Nat) /\ a \in Nat /\ b \in Nat /\ a <= b /\ b <= Len(s)
      /\ k \in Nat /\ k <= b - a /\ e = b - k /\ e \in Nat /\ a <= e /\ e <= Len(s)
  BY DEF Parts
<1>2. /\ SubSeq(s, a + 1, b) \in Seq(Nat) /\ Len(SubSeq(s, a + 1, b)) = b - a
      /\ \A i \in 1..(b - a) : SubSeq(s, a + 1, b)[i] = s[a + i]
  BY ONLY <1>1, SliceFacts
<1>3. /\ SubSeq(s, a + 1, e) \in Seq(Nat) /\ Len(SubSeq(s, a + 1, e)) = e - a
      /\ \A i \in 1..(e - a) : SubSeq(s, a + 1, e)[i] = s[a + i]
  BY ONLY <1>1, SliceFacts
<1>4. PICK u, n, v, m, w : /\ u = Slice(s, a, b) /\ n = b - a /\ v = Slice(s, a, e)
                           /\ m = e - a /\ w = SubSeq(u, 1, m)
  OBVIOUS
<1>5. u \in Seq(Nat) /\ Len(u) = n /\ \A i \in 1..n : u[i] = s[a + i]
  BY <1>2, <1>4 DEF Slice
<1>6. v \in Seq(Nat) /\ Len(v) = m /\ \A i \in 1..m : v[i] = s[a + i]
  BY <1>3, <1>4 DEF Slice
<1>7. n \in Nat /\ m \in Nat /\ m <= n /\ m = n - k /\ 0 \in Nat /\ 0 <= m
  BY <1>1, <1>4
<1>8. w \in Seq(Nat) /\ Len(w) = m /\ \A i \in 1..m : w[i] = u[i]
  BY <1>4, <1>5, <1>7
<1>9. \A i \in 1..m : i \in 1..n
  BY ONLY <1>7
<1>10. \A i \in 1..m : w[i] = v[i]
  BY <1>5, <1>6, <1>8, <1>9
<1>11. w = v
  BY <1>6, <1>8, <1>10, SameNat
<1>12. Abstract!Keep(u, k) = w
  BY <1>4, <1>5, <1>7 DEF Abstract!Keep
<1>13. QED BY <1>4, <1>11, <1>12

LEMMA TopSlice ==
  ASSUME NEW s, NEW a, NEW b, NEW k, NEW e, Parts(s, a, b, k, e)
  PROVE  Abstract!TopOf(Slice(s, a, b), k) = Slice(s, e, b)
<1>1. /\ s \in Seq(Nat) /\ a \in Nat /\ b \in Nat /\ a <= b /\ b <= Len(s)
      /\ k \in Nat /\ k <= b - a /\ e = b - k /\ e \in Nat /\ a <= e /\ e <= b
  BY DEF Parts
<1>2. /\ SubSeq(s, a + 1, b) \in Seq(Nat) /\ Len(SubSeq(s, a + 1, b)) = b - a
      /\ \A i \in 1..(b - a) : SubSeq(s, a + 1, b)[i] = s[a + i]
  BY ONLY <1>1, SliceFacts
<1>3. /\ SubSeq(s, e + 1, b) \in Seq(Nat) /\ Len(SubSeq(s, e + 1, b)) = b - e
      /\ \A i \in 1..(b - e) : SubSeq(s, e + 1, b)[i] = s[e + i]
  BY ONLY <1>1, SliceFacts
<1>4. PICK u, n, v, m : /\ u = Slice(s, a, b) /\ n = b - a /\ v = Slice(s, e, b)
                        /\ m = n - k
  OBVIOUS
<1>5. u \in Seq(Nat) /\ Len(u) = n /\ \A i \in 1..n : u[i] = s[a + i]
  BY <1>2, <1>4 DEF Slice
<1>6. n \in Nat /\ m \in Nat /\ m <= n /\ n - m = k /\ b - e = k /\ e = a + m
  BY <1>1, <1>4
<1>7. v \in Seq(Nat) /\ Len(v) = k /\ \A i \in 1..k : v[i] = s[e + i]
  BY <1>3, <1>4, <1>6 DEF Slice
<1>8. /\ SubSeq(u, m + 1, n) \in Seq(Nat) /\ Len(SubSeq(u, m + 1, n)) = n - m
      /\ \A i \in 1..(n - m) : SubSeq(u, m + 1, n)[i] = u[m + i]
  <2>1. u \in Seq(Nat) /\ m \in Nat /\ n \in Nat /\ m <= n /\ n <= Len(u)
    BY <1>5, <1>6
  <2>2. QED BY ONLY <2>1, SliceFacts
<1>9. PICK w : w = SubSeq(u, m + 1, n)
  OBVIOUS
<1>10. w \in Seq(Nat) /\ Len(w) = k /\ \A i \in 1..k : w[i] = u[m + i]
  BY <1>6, <1>8, <1>9
<1>11. \A i \in 1..k : m + i \in 1..n /\ a + (m + i) = e + i
  BY ONLY <1>1, <1>6
<1>12. \A i \in 1..k : w[i] = v[i]
  BY <1>5, <1>7, <1>10, <1>11
<1>13. w = v
  BY <1>7, <1>10, <1>12, SameNat
<1>14. Abstract!TopOf(u, k) = w
  BY <1>4, <1>5, <1>9 DEF Abstract!TopOf
<1>15. QED BY <1>4, <1>13, <1>14

LEMMA PartsOf ==
  ASSUME NEW s, NEW a, NEW b, NEW k, NEW e, Parts(s, a, b, k, e)
  PROVE  /\ Abstract!Keep(Slice(s, a, b), k) = Slice(s, a, e)
         /\ Abstract!TopOf(Slice(s, a, b), k) = Slice(s, e, b)
BY KeepSlice, TopSlice

LEMMA ConcatElems ==
  ASSUME NEW s, s \in Seq(Nat), NEW r, r \in Seq(Nat), NEW m, m = Len(s), NEW n, n = Len(r)
  PROVE  /\ s \o r \in Seq(Nat) /\ Len(s \o r) = m + n
         /\ \A i \in 1..m : (s \o r)[i] = s[i]
         /\ \A i \in 1..n : (s \o r)[m + i] = r[i]
OBVIOUS

LEMMA SlicePush ==
  ASSUME NEW s, s \in Seq(Nat), NEW r, r \in Seq(Nat), NEW a, a \in Nat, a <= Len(s)
  PROVE  SubSeq(s \o r, a + 1, Len(s) + Len(r)) = SubSeq(s, a + 1, Len(s)) \o r
<1>1. PICK t, m, n, b : t = s \o r /\ m = Len(s) /\ n = Len(r) /\ b = m + n
  OBVIOUS
<1>2. /\ t \in Seq(Nat) /\ Len(t) = b /\ m \in Nat /\ n \in Nat /\ b \in Nat
      /\ \A i \in 1..m : t[i] = s[i]
      /\ \A i \in 1..n : t[m + i] = r[i]
  BY <1>1
<1>3. t \in Seq(Nat) /\ a \in Nat /\ b \in Nat /\ a <= b /\ b <= Len(t)
  BY <1>1, <1>2
<1>4. /\ SubSeq(t, a + 1, b) \in Seq(Nat) /\ Len(SubSeq(t, a + 1, b)) = b - a
      /\ \A i \in 1..(b - a) : SubSeq(t, a + 1, b)[i] = t[a + i]
  BY ONLY <1>3, SliceFacts
<1>5. s \in Seq(Nat) /\ a \in Nat /\ m \in Nat /\ a <= m /\ m <= Len(s)
  BY <1>1, <1>2
<1>6. /\ SubSeq(s, a + 1, m) \in Seq(Nat) /\ Len(SubSeq(s, a + 1, m)) = m - a
      /\ \A i \in 1..(m - a) : SubSeq(s, a + 1, m)[i] = s[a + i]
  BY ONLY <1>5, SliceFacts
<1>7. PICK u, v, k, w : /\ u = SubSeq(t, a + 1, b) /\ v = SubSeq(s, a + 1, m)
                        /\ k = m - a /\ w = v \o r
  OBVIOUS
<1>8. k \in Nat /\ b - a = k + n /\ m = a + k
  BY <1>1, <1>5, <1>7, <1>2
<1>9. u \in Seq(Nat) /\ Len(u) = k + n /\ \A i \in 1..(k + n) : u[i] = t[a + i]
  BY <1>4, <1>7, <1>8
<1>10. v \in Seq(Nat) /\ Len(v) = k /\ \A i \in 1..k : v[i] = s[a + i]
  BY <1>6, <1>7
<1>11. /\ w \in Seq(Nat) /\ Len(w) = k + n /\ \A i \in 1..k : w[i] = v[i]
       /\ \A i \in 1..n : w[k + i] = r[i]
  <2>1. v \in Seq(Nat) /\ r \in Seq(Nat) /\ k = Len(v) /\ n = Len(r) /\ w = v \o r
    BY <1>1, <1>7, <1>10
  <2>2. /\ v \o r \in Seq(Nat) /\ Len(v \o r) = k + n
        /\ \A i \in 1..k : (v \o r)[i] = v[i]
        /\ \A i \in 1..n : (v \o r)[k + i] = r[i]
    BY ONLY <2>1, ConcatElems
  <2>3. QED BY <2>1, <2>2
<1>12. ASSUME NEW i \in 1..(k + n) PROVE u[i] = w[i]
  <2>1. CASE i <= k
    <3>1. i \in 1..k /\ a + i \in 1..m
      BY <1>8, <1>5, <2>1
    <3>2. u[i] = s[a + i]
      BY <1>2, <1>9, <3>1
    <3>3. QED BY <1>10, <1>11, <3>1, <3>2
  <2>2. CASE i > k
    <3>1. PICK j : j = i - k
      OBVIOUS
    <3>2. j \in 1..n /\ i = k + j /\ a + i = m + j
      BY <1>8, <1>5, <1>2, <2>2, <3>1
    <3>3. u[i] = r[j]
      BY <1>2, <1>9, <3>2
    <3>4. w[i] = r[j]
      BY <1>11, <3>2
    <3>5. QED BY <3>3, <3>4
  <2>3. QED BY <1>8, <1>2, <2>1, <2>2
<1>13. u = w
  BY <1>9, <1>11, <1>12, SameNat
<1>14. QED BY <1>1, <1>7, <1>13

LEMMA BelowSlice ==
  ASSUME NEW s, s \in Seq(Nat), NEW k, k \in Nat, k <= Len(s)
  PROVE  \A i \in 1..(Len(s) - k) : Below(s, k)[i] = s[i]
BY DEF Below

\* The k topmost slots move down to d.
Unwinds(s, a, d, k) ==
  /\ s \in Seq(Nat) /\ a \in Nat /\ d \in Nat /\ a <= d /\ d <= Len(s)
  /\ k \in Nat /\ k <= Len(s)

UnwoundTo(s, a, d, k) ==
  /\ SubSeq(Unwound(s, d, k), a + 1, d + k) =
       SubSeq(s, a + 1, d) \o SubSeq(s, Len(s) - k + 1, Len(s))
  /\ \A i \in 1..d : Unwound(s, d, k)[i] = s[i]

LEMMA UnwoundSlice ==
  ASSUME NEW s, NEW a, NEW d, NEW k, Unwinds(s, a, d, k)
  PROVE  UnwoundTo(s, a, d, k)
<1>1. /\ s \in Seq(Nat) /\ a \in Nat /\ d \in Nat /\ a <= d /\ d <= Len(s)
      /\ k \in Nat /\ k <= Len(s)
  BY DEF Unwinds
<1>2. PICK p, r : p = SubSeq(s, 1, d) /\ r = Topmost(s, k)
  OBVIOUS
<1>3. r \in Seq(Nat) /\ Len(r) = k
  BY <1>1, <1>2, TopmostNat
<1>4. p \in Seq(Nat) /\ Len(p) = d /\ \A i \in 1..d : p[i] = s[i]
  BY <1>1, <1>2
<1>5. SubSeq(p \o r, a + 1, Len(p) + Len(r)) = SubSeq(p, a + 1, Len(p)) \o r
  BY <1>1, <1>3, <1>4, SlicePush
<1>6. SubSeq(p, a + 1, d) = SubSeq(s, a + 1, d)
  <2>1. \A i \in (a + 1)..d : i \in 1..d
    BY <1>1
  <2>2. \A i \in (a + 1)..d : p[i] = s[i]
    BY <1>4, <2>1
  <2>3. d <= Len(p)
    BY <1>1, <1>4
  <2>4. QED BY <1>1, <1>4, <2>2, <2>3, SliceSame
<1>7. \A i \in 1..d : (p \o r)[i] = s[i]
  BY <1>3, <1>4
<1>8. Unwound(s, d, k) = p \o r /\ r = SubSeq(s, Len(s) - k + 1, Len(s))
  BY <1>2 DEF Unwound, Topmost
<1>9. QED BY <1>3, <1>4, <1>5, <1>6, <1>7, <1>8 DEF UnwoundTo

-----------------------------------------------------------------------------
(* The blocks of a frame *)

\* A function on 1..n that was made a tuple is the same function.
LEMMA TupleSame ==
  ASSUME NEW n, n \in Nat, NEW f, f = [j \in 1..n |-> f[j]]
  PROVE  AsTuple(f) = f /\ (\E S : f \in Seq(S)) /\ Len(f) = n /\ DOMAIN f = 1..n
<1>1. PICK S : S = {f[j] : j \in 1..n}
  OBVIOUS
<1>2. \A j \in 1..n : f[j] \in S
  BY <1>1
<1>3. f \in Seq(S) /\ Len(f) = n /\ DOMAIN f = 1..n
  BY <1>2
<1>4. << >> \o f = f
  BY <1>3
<1>5. QED BY <1>3, <1>4 DEF AsTuple

ASeq(B) == \E S : B \in Seq(S)

BlocksAre(B, labels, base, s, n, e) ==
  /\ B = [j \in 1..n |-> B[j]] /\ ASeq(B) /\ Len(B) = n
  /\ \A j \in 1..n : B[j] = BlockOf(labels[j],
       SubSeq(s, FirstOf(labels, base, j) + 1, LastOf(labels, n, e, j)))

LEMMA BlocksFacts ==
  ASSUME NEW labels, NEW base, NEW s, NEW n, n \in Nat, NEW e
  PROVE  BlocksAre(Blocks(labels, base, s, n, e), labels, base, s, n, e)
<1> DEFINE B == [j \in 1..n |-> BlockOf(labels[j],
                  SubSeq(s, FirstOf(labels, base, j) + 1, LastOf(labels, n, e, j)))]
<1>1. \A j \in 1..n : B[j] = BlockOf(labels[j],
        SubSeq(s, FirstOf(labels, base, j) + 1, LastOf(labels, n, e, j)))
  OBVIOUS
<1>2. B = [j \in 1..n |-> B[j]]
  OBVIOUS
<1>3. Blocks(labels, base, s, n, e) = AsTuple(B)
  BY DEF Blocks
<1> HIDE DEF B
<1>4. AsTuple(B) = B /\ (\E S : B \in Seq(S)) /\ Len(B) = n
  BY <1>2, TupleSame
<1>5. QED BY <1>1, <1>2, <1>3, <1>4 DEF BlocksAre, ASeq

\* The labels cut the operands of a frame, base to e, in ascending order.
Cut(labels, base, n, e) ==
  /\ base \in Nat /\ e \in Nat /\ n \in Nat /\ n >= 1
  /\ \A j \in 1..n : /\ FirstOf(labels, base, j) \in Nat
                     /\ base <= FirstOf(labels, base, j) /\ FirstOf(labels, base, j) <= e
  /\ \A i, j \in 1..n : i <= j => FirstOf(labels, base, i) <= FirstOf(labels, base, j)

LEMMA BlockVals ==
  ASSUME NEW l, NEW v, NEW w
  PROVE  /\ [BlockOf(l, v) EXCEPT !.vals = w] = BlockOf(l, w)
         /\ BlockOf(l, v).vals = v /\ BlockOf(l, v).exit = l.pc
         /\ BlockOf(l, v).results = l.results
         /\ BlockOf(l, v).arity = (IF l.opcode = "loop" THEN l.params ELSE l.results)
         /\ BlockOf(l, v).loop = (l.opcode = "loop")
BY DEF BlockOf

LEMMA SameSeq ==
  ASSUME NEW n, NEW x, NEW y, x = [j \in 1..n |-> x[j]], y = [j \in 1..n |-> y[j]],
         \A j \in 1..n : x[j] = y[j]
  PROVE  x = y
OBVIOUS

\* The m outermost blocks, the innermost with the slots from a to d of t.
BlocksPopped(B, m, t, a, d) == [SubSeq(B, 1, m) EXCEPT ![m].vals = SubSeq(t, a + 1, d)]

\* The labels of ls agree with m of those that cut s, and so does t below a.
Carries(labels, base, n, e, s, t, m, a, ls) ==
  /\ Cut(labels, base, n, e) /\ s \in Seq(Nat) /\ e <= Len(s) /\ t \in Seq(Nat)
  /\ m \in 1..n /\ a = FirstOf(labels, base, m) /\ a <= Len(t)
  /\ \A i \in (base + 1)..a : t[i] = s[i]
  /\ \A j \in 1..m : ls[j] = labels[j]

LEMMA BlocksPop ==
  ASSUME NEW labels, NEW base, NEW n, NEW e, NEW s, NEW t, NEW m, NEW a, NEW ls, NEW d,
         Carries(labels, base, n, e, s, t, m, a, ls)
  PROVE  Blocks(ls, base, t, m, d) = BlocksPopped(Blocks(labels, base, s, n, e), m, t, a, d)
<1> USE DEF Carries
<1> DEFINE First(j) == FirstOf(labels, base, j)
<1>1. /\ base \in Nat /\ e \in Nat /\ n \in Nat /\ n >= 1 /\ m \in Nat
      /\ \A j \in 1..n : First(j) \in Nat /\ base <= First(j) /\ First(j) <= e
      /\ \A i, j \in 1..n : i <= j => First(i) <= First(j)
  BY DEF Cut
<1>2. PICK B, C : B = Blocks(labels, base, s, n, e) /\ C = Blocks(ls, base, t, m, d)
  OBVIOUS
<1>3. /\ B = [j \in 1..n |-> B[j]] /\ ASeq(B) /\ Len(B) = n
      /\ \A j \in 1..n : B[j] = BlockOf(labels[j],
           SubSeq(s, First(j) + 1, LastOf(labels, n, e, j)))
  <2>1. BlocksAre(Blocks(labels, base, s, n, e), labels, base, s, n, e)
    BY <1>1, BlocksFacts
  <2>2. BlocksAre(B, labels, base, s, n, e)
    BY <1>2, <2>1
  <2>3. QED BY <2>2 DEF BlocksAre
<1>4. /\ C = [j \in 1..m |-> C[j]]
      /\ \A j \in 1..m : C[j] = BlockOf(ls[j],
           SubSeq(t, FirstOf(ls, base, j) + 1, LastOf(ls, m, d, j)))
  <2>1. BlocksAre(Blocks(ls, base, t, m, d), ls, base, t, m, d)
    BY <1>1, BlocksFacts
  <2>2. BlocksAre(C, ls, base, t, m, d)
    BY <1>2, <2>1
  <2>3. QED BY <2>2 DEF BlocksAre
<1>5. /\ \A j \in 1..m : FirstOf(ls, base, j) = First(j) /\ j \in 1..n /\ ls[j] = labels[j]
      /\ \A j \in 1..m : j # m => j + 1 \in 1..m /\ j + 1 \in 1..n /\ j + 1 # 1 /\ j # n
  <2>1. m \in 1..n OBVIOUS
  <2>2. \A j \in 1..m : j \in 1..n /\ (j # m => j + 1 \in 1..m /\ j + 1 \in 1..n /\ j + 1 # 1 /\ j # n)
    BY ONLY <1>1, <2>1
  <2>3. \A j \in 1..m : FirstOf(ls, base, j) = First(j)
    BY DEF FirstOf
  <2>4. QED BY <2>2, <2>3
<1> DEFINE D == [j \in 1..m |-> IF j = m THEN BlockOf(labels[m], SubSeq(t, a + 1, d)) ELSE B[j]]
<1>6. ASSUME NEW j \in 1..m PROVE C[j] = D[j]
  <2>1. CASE j = m
    <3>1. LastOf(ls, m, d, j) = d BY <2>1 DEF LastOf
    <3>2. C[m] = BlockOf(labels[m], SubSeq(t, a + 1, d))
      BY <1>4, <1>5, <2>1, <3>1
    <3>3. QED BY <2>1, <3>2
  <2>2. CASE j # m
    <3>1. /\ j + 1 \in 1..m /\ j + 1 \in 1..n /\ j + 1 # 1 /\ j # n /\ j \in 1..n /\ m \in 1..n
          /\ j <= j + 1 /\ j + 1 <= m
      BY <1>1, <1>5, <2>2
    <3>2. LastOf(ls, m, d, j) = First(j + 1) /\ LastOf(labels, n, e, j) = First(j + 1)
      BY <1>5, <2>2, <3>1 DEF LastOf, FirstOf
    <3>3. PICK x, y : x = First(j) /\ y = First(j + 1)
      OBVIOUS
    <3>4. x \in Nat /\ y \in Nat /\ x <= y /\ y <= a /\ base <= x /\ y <= e /\ a \in Nat
      BY <1>1, <3>1, <3>3
    <3>5. y <= Len(s) /\ y <= Len(t) /\ \A i \in (x + 1)..y : i \in (base + 1)..a
      BY <1>1, <3>4
    <3>6. \A i \in (x + 1)..y : t[i] = s[i]
      BY <3>5
    <3>7. SubSeq(t, x + 1, y) = SubSeq(s, x + 1, y)
      <4>1. /\ s \in Seq(Nat) /\ t \in Seq(Nat) /\ x \in Nat /\ y \in Nat
            /\ x <= y /\ y <= Len(s) /\ y <= Len(t) /\ \A i \in (x + 1)..y : t[i] = s[i]
        BY <3>4, <3>5, <3>6
      <4>2. QED BY ONLY <4>1, SliceSame
    <3>8. C[j] = BlockOf(ls[j], SubSeq(t, FirstOf(ls, base, j) + 1, LastOf(ls, m, d, j)))
      BY <1>4
    <3>9. B[j] = BlockOf(labels[j], SubSeq(s, First(j) + 1, LastOf(labels, n, e, j)))
      BY <1>3, <3>1
    <3> HIDE DEF First
    <3>10. C[j] = B[j]
      BY <1>5, <3>2, <3>3, <3>7, <3>8, <3>9
    <3>11. QED BY <2>2, <3>10
  <2>3. QED BY <2>1, <2>2
<1>7. D = [j \in 1..m |-> D[j]]
  OBVIOUS
<1>8. C = D
  <2> HIDE DEF D
  <2>1. QED BY ONLY <1>4, <1>6, <1>7, SameSeq
<1>9. D = BlocksPopped(B, m, t, a, d)
  <2>1. PICK K : K = SubSeq(B, 1, m)
    OBVIOUS
  <2>2. K = [j \in 1..m |-> B[j]]
    <3>1. PICK S : B \in Seq(S) BY <1>3 DEF ASeq
    <3>2. m <= Len(B) /\ 1 <= m BY <1>1, <1>3
    <3>3. QED BY <1>1, <2>1, <3>1, <3>2
  <2>3. m \in 1..m /\ m \in 1..n BY <1>1
  <2>4. B[m] = BlockOf(labels[m], SubSeq(s, First(m) + 1, LastOf(labels, n, e, m)))
    BY <1>3, <2>3
  <2>5. PICK w, v : /\ w = SubSeq(t, a + 1, d)
                    /\ v = SubSeq(s, First(m) + 1, LastOf(labels, n, e, m))
    OBVIOUS
  <2>6. [B[m] EXCEPT !.vals = w] = BlockOf(labels[m], w)
    <3>1. B[m] = BlockOf(labels[m], v)
      BY <2>4, <2>5
    <3>2. QED BY ONLY <3>1, BlockVals
  <2>7. [K EXCEPT ![m].vals = w] = [j \in 1..m |-> IF j = m THEN [B[m] EXCEPT !.vals = w] ELSE B[j]]
    BY <2>2, <2>3
  <2>8. QED BY <2>1, <2>5, <2>6, <2>7 DEF BlocksPopped
<1>10. QED BY <1>2, <1>8, <1>9

BlocksFilled(B, n, t, a, d) == [B EXCEPT ![n].vals = SubSeq(t, a + 1, d)]

LEMMA BlocksTop ==
  ASSUME NEW labels, NEW base, NEW n, NEW e, NEW s, NEW t, NEW a, NEW ls, NEW d,
         Carries(labels, base, n, e, s, t, n, a, ls)
  PROVE  Blocks(ls, base, t, n, d) = BlocksFilled(Blocks(labels, base, s, n, e), n, t, a, d)
<1>1. n \in Nat /\ n \in 1..n
  BY DEF Cut, Carries
<1>2. Blocks(ls, base, t, n, d) = BlocksPopped(Blocks(labels, base, s, n, e), n, t, a, d)
  BY BlocksPop
<1>3. PICK B : B = Blocks(labels, base, s, n, e)
  OBVIOUS
<1>4. ASeq(B) /\ Len(B) = n
  <2>1. BlocksAre(Blocks(labels, base, s, n, e), labels, base, s, n, e)
    BY <1>1, BlocksFacts
  <2>2. BlocksAre(B, labels, base, s, n, e)
    BY <1>3, <2>1
  <2>3. QED BY <2>2 DEF BlocksAre
<1>5. SubSeq(B, 1, n) = B
  <2>1. PICK S : B \in Seq(S) BY <1>4 DEF ASeq
  <2>2. QED BY ONLY <1>1, <1>4, <2>1
<1>6. QED BY <1>2, <1>3, <1>5 DEF BlocksPopped, BlocksFilled

\* A new label on top: what it takes is cut off the block below it.
LEMMA BlocksPush ==
  ASSUME NEW labels, NEW base, NEW n, NEW e, NEW s, NEW t, NEW a, NEW ls,
         Carries(labels, base, n, e, s, t, n, a, ls),
         NEW l, ls[n + 1] = l, NEW d, NEW m, m = n + 1
  PROVE  Blocks(ls, base, t, m, d) =
           Append(BlocksFilled(Blocks(labels, base, s, n, e), n, t, a, l.stack_top),
                  BlockOf(l, SubSeq(t, l.stack_top + 1, d)))
<1>1. n \in Nat /\ n >= 1 /\ m \in Nat
  BY DEF Cut, Carries
<1>2. PICK h, b : h = l.stack_top /\ b = BlockOf(l, SubSeq(t, h + 1, d))
  OBVIOUS
<1>3. Blocks(ls, base, t, n, h) = BlocksFilled(Blocks(labels, base, s, n, e), n, t, a, h)
  BY BlocksTop
<1>4. PICK C, D : C = Blocks(ls, base, t, n, h) /\ D = Blocks(ls, base, t, m, d)
  OBVIOUS
<1>5. /\ C = [j \in 1..n |-> C[j]] /\ ASeq(C) /\ Len(C) = n
      /\ \A j \in 1..n : C[j] = BlockOf(ls[j],
           SubSeq(t, FirstOf(ls, base, j) + 1, LastOf(ls, n, h, j)))
  <2>1. BlocksAre(Blocks(ls, base, t, n, h), ls, base, t, n, h)
    BY <1>1, BlocksFacts
  <2>2. BlocksAre(C, ls, base, t, n, h)
    BY <1>4, <2>1
  <2>3. QED BY <2>2 DEF BlocksAre
<1>6. /\ D = [j \in 1..m |-> D[j]]
      /\ \A j \in 1..m : D[j] = BlockOf(ls[j],
           SubSeq(t, FirstOf(ls, base, j) + 1, LastOf(ls, m, d, j)))
  <2>1. BlocksAre(Blocks(ls, base, t, m, d), ls, base, t, m, d)
    BY <1>1, BlocksFacts
  <2>2. BlocksAre(D, ls, base, t, m, d)
    BY <1>4, <2>1
  <2>3. QED BY <2>2 DEF BlocksAre
<1>7. PICK X : X = Append(C, b)
  OBVIOUS
<1>8. X = [j \in 1..m |-> X[j]] /\ X[m] = b /\ \A j \in 1..n : X[j] = C[j]
  <2>1. PICK S : C \in Seq(S)
    BY <1>5 DEF ASeq
  <2>2. /\ (\E Q : Append(C, b) \in Seq(Q)) /\ Len(Append(C, b)) = Len(C) + 1
        /\ \A j \in 1..Len(C) : Append(C, b)[j] = C[j]
        /\ Append(C, b)[Len(C) + 1] = b
    BY ONLY <2>1, SeqPush
  <2>3. (\E Q : X \in Seq(Q)) /\ Len(X) = m
    BY <1>5, <1>7, <2>2
  <2>4. X = [j \in 1..m |-> X[j]]
    BY ONLY <2>3
  <2>5. QED BY <1>5, <1>7, <2>2, <2>4
<1>9. ASSUME NEW j \in 1..m PROVE D[j] = X[j]
  <2>1. CASE j = m
    <3>1. FirstOf(ls, base, m) = h /\ LastOf(ls, m, d, m) = d
      BY <1>1, <1>2 DEF FirstOf, LastOf
    <3>2. D[m] = BlockOf(ls[m], SubSeq(t, FirstOf(ls, base, m) + 1, LastOf(ls, m, d, m)))
      BY <1>6, <2>1
    <3>3. D[m] = b
      BY <1>2, <3>1, <3>2
    <3>4. QED BY <1>8, <2>1, <3>3
  <2>2. CASE j # m
    <3>1. j \in 1..n /\ (j = n => j + 1 = m)
      BY <1>1, <2>2
    <3>2. LastOf(ls, m, d, j) = LastOf(ls, n, h, j)
      BY <1>2, <2>2, <3>1 DEF LastOf
    <3>3. D[j] = C[j]
      BY <1>5, <1>6, <3>1, <3>2
    <3>4. QED BY <1>8, <3>1, <3>3
  <2>3. QED BY <2>1, <2>2
<1>10. D = X
  BY ONLY <1>6, <1>8, <1>9, SameSeq
<1>11. QED BY <1>2, <1>3, <1>4, <1>7, <1>10

\* The only block of a frame that starts.
LEMMA BlocksFirst ==
  ASSUME NEW l, NEW base, base \in Nat, NEW s, s \in Seq(Nat), Len(s) = base
  PROVE  Blocks(<<l>>, base, s, 1, base) = <<BlockOf(l, << >>)>>
<1>1. PICK C : C = Blocks(<<l>>, base, s, 1, base)
  OBVIOUS
<1>2. /\ C = [j \in 1..1 |-> C[j]]
      /\ \A j \in 1..1 : C[j] = BlockOf(<<l>>[j],
           SubSeq(s, FirstOf(<<l>>, base, j) + 1, LastOf(<<l>>, 1, base, j)))
  <2>1. BlocksAre(Blocks(<<l>>, base, s, 1, base), <<l>>, base, s, 1, base)
    BY BlocksFacts
  <2>2. BlocksAre(C, <<l>>, base, s, 1, base)
    BY <1>1, <2>1
  <2>3. QED BY <2>2 DEF BlocksAre
<1>3. SubSeq(s, base + 1, base) = << >>
  OBVIOUS
<1>4. C[1] = BlockOf(l, << >>)
  <2>1. FirstOf(<<l>>, base, 1) = base /\ LastOf(<<l>>, 1, base, 1) = base /\ <<l>>[1] = l
    BY DEF FirstOf, LastOf
  <2>2. C[1] = BlockOf(<<l>>[1],
          SubSeq(s, FirstOf(<<l>>, base, 1) + 1, LastOf(<<l>>, 1, base, 1)))
    BY <1>2
  <2>3. QED BY <1>3, <2>1, <2>2
<1>5. C = <<C[1]>>
  BY <1>2
<1>6. QED BY <1>1, <1>4, <1>5

-----------------------------------------------------------------------------
(* The frames of WasmMachine *)

LEMMA ProgramFacts ==
  ASSUME ValInv
  PROVE  /\ DOMAIN Program = DOMAIN functions
         /\ \A f \in DOMAIN functions :
              /\ Program[f].kind = functions[f].kind
              /\ Program[f].params = functions[f].params
              /\ Program[f].results = functions[f].results
              /\ Program[f].local_count = functions[f].local_count
              /\ Program[f].code = functions[f].code
<1> DEFINE P == [f \in DOMAIN functions |->
                  [kind |-> functions[f].kind, params |-> functions[f].params,
                   results |-> functions[f].results, local_count |-> functions[f].local_count,
                   code |-> functions[f].code]]
<1>1. PICK n : n = Len(functions)
  OBVIOUS
<1>2. n \in Nat /\ DOMAIN functions = 1..n
  BY <1>1 DEF ValInv, ValidatorTypeOK
<1>3. P = [f \in 1..n |-> P[f]]
  BY <1>2
<1>4. \A f \in DOMAIN functions :
        /\ P[f].kind = functions[f].kind /\ P[f].params = functions[f].params
        /\ P[f].results = functions[f].results /\ P[f].local_count = functions[f].local_count
        /\ P[f].code = functions[f].code
  OBVIOUS
<1>5. Program = AsTuple(P)
  BY DEF Program
<1> HIDE DEF P
<1>6. AsTuple(P) = P /\ DOMAIN P = 1..n
  BY <1>2, <1>3, TupleSame
<1>7. QED BY <1>2, <1>4, <1>5, <1>6

ViewAt(k) ==
  View(call_stack[k], OperandBase(k), stack, IpOf(k), LabelTopOf(k), OperandEnd(k))

FramesAre(F, n) == ASeq(F) /\ Len(F) = n /\ F = [k \in 1..n |-> F[k]]

LEMMA FramesNow ==
  ASSUME Active, Len(call_stack) \in Nat
  PROVE  /\ FramesAre(Activations, Len(call_stack))
         /\ \A k \in 1..Len(call_stack) : Activations[k] = ViewAt(k)
<1> DEFINE F == [k \in 1..Len(call_stack) |-> ViewAt(k)]
<1>1. PICK n : n = Len(call_stack) /\ n \in Nat
  OBVIOUS
<1>2. F = [k \in 1..n |-> F[k]] /\ \A k \in 1..Len(call_stack) : F[k] = ViewAt(k)
  BY <1>1
<1>3. Activations = AsTuple(F)
  BY DEF Activations, Frames, ViewAt, top
<1> HIDE DEF F
<1>4. AsTuple(F) = F /\ (\E S : F \in Seq(S)) /\ Len(F) = n
  BY <1>1, <1>2, TupleSame
<1>5. QED BY <1>1, <1>2, <1>3, <1>4 DEF FramesAre, ASeq

LEMMA FramesNext ==
  ASSUME Active', Len(call_stack') \in Nat
  PROVE  /\ FramesAre(Activations', Len(call_stack'))
         /\ \A k \in 1..Len(call_stack') : Activations'[k] = ViewAt(k)'
<1> DEFINE F == [k \in 1..Len(call_stack') |-> ViewAt(k)']
<1>1. PICK n : n = Len(call_stack') /\ n \in Nat
  OBVIOUS
<1>2. F = [k \in 1..n |-> F[k]] /\ \A k \in 1..Len(call_stack') : F[k] = ViewAt(k)'
  BY <1>1
<1>3. Activations' = AsTuple(F)
  BY DEF Activations, Frames, ViewAt, top
<1> HIDE DEF F
<1>4. AsTuple(F) = F /\ (\E S : F \in Seq(S)) /\ Len(F) = n
  BY <1>1, <1>2, TupleSame
<1>5. QED BY <1>1, <1>2, <1>3, <1>4 DEF FramesAre, ASeq

LEMMA Ascends ==
  ASSUME NEW n \in Nat, NEW v, \A k \in 1..n : v[k] \in Nat,
         \A k \in 1..(n - 1) : v[k] <= v[k + 1]
  PROVE  \A m \in 0..n : \A i \in 1..m : v[i] <= v[m]
<1> DEFINE Met == {m \in 0..n : \A i \in 1..m : v[i] <= v[m]}
<1>1. 0 \in Met
  OBVIOUS
<1>2. ASSUME NEW m \in 1..n, m - 1 \in Met PROVE m \in Met
  <2>1. ASSUME NEW i \in 1..m PROVE v[i] <= v[m]
    <3>1. v[i] \in Nat /\ v[m] \in Nat
      OBVIOUS
    <3>2. CASE i = m
      BY <3>1, <3>2
    <3>3. CASE i # m
      <4>1. i \in 1..(m - 1) /\ m - 1 \in 1..(n - 1) /\ m - 1 \in 1..n /\ (m - 1) + 1 = m
        BY <3>3
      <4>2. v[i] <= v[m - 1]
        BY <1>2, <4>1
      <4>3. v[m - 1] <= v[m] /\ v[m - 1] \in Nat
        BY <4>1
      <4>4. QED BY <3>1, <4>2, <4>3
    <3>4. QED BY <3>2, <3>3
  <2>2. QED BY <2>1
<1>3. \A m \in 1..n : m - 1 \in Met => m \in Met
  BY <1>2
<1> HIDE DEF Met
<1>4. \A m \in 0..n : m \in Met
  BY <1>1, <1>3, Reached
<1>5. QED BY <1>4 DEF Met

\* The labels of a frame that is seated cut its operands.
Cuttable(T, N, base, labels, p, n, x, r, e) ==
  /\ base \in Nat /\ Seated(T, N, base, labels, p, n, x) /\ n \in Nat /\ n > 0
  /\ Formed(T[p], r) /\ e \in Nat /\ base <= e
  /\ \A j \in 2..n : labels[j].stack_top <= e

LEMMA SeatedCut ==
  ASSUME NEW T, NEW N, NEW base, NEW labels, NEW p, NEW n, NEW x, NEW r, NEW e,
         Cuttable(T, N, base, labels, p, n, x, r, e)
  PROVE  /\ Cut(labels, base, n, e)
         /\ \A j \in 1..n : FirstOf(labels, base, j) = base + T[p].ctrls[j].height
<1> USE DEF Cuttable
<1>1. /\ n = Len(T[p].ctrls) /\ T[p].ctrls # << >>
      /\ \A j \in 2..n : labels[j].stack_top = base + T[p].ctrls[j].height
  BY DEF Seated, LabelFits
<1>2. /\ T[p] \in States /\ T[p].ctrls[1].height = 0
      /\ \A i, j \in 1..n : i <= j => T[p].ctrls[i].height <= T[p].ctrls[j].height
  BY <1>1 DEF Formed
<1>3. \A j \in 1..n : T[p].ctrls[j].height \in Nat
  BY <1>1, <1>2, InnerFacts
<1> DEFINE h(j) == T[p].ctrls[j].height
           F(j) == FirstOf(labels, base, j)
<1>4. \A j \in 1..n : F(j) = base + h(j)
  <2>1. F(1) = base
    BY DEF FirstOf
  <2>2. F(1) = base + h(1)
    BY <1>2, <2>1
  <2>3. \A j \in 1..n : j = 1 \/ j \in 2..n
    OBVIOUS
  <2>4. \A j \in 2..n : F(j) = labels[j].stack_top
    BY DEF FirstOf
  <2>5. \A j \in 2..n : F(j) = base + h(j)
    BY <1>1, <2>4
  <2> HIDE DEF F, h
  <2>6. QED BY <2>2, <2>3, <2>5
<1>5. \A j \in 1..n : F(j) <= e
  <2>1. \A j \in 1..n : j = 1 \/ j \in 2..n
    OBVIOUS
  <2>2. F(1) = base /\ \A j \in 2..n : F(j) = labels[j].stack_top
    BY DEF FirstOf
  <2>3. \A j \in 2..n : F(j) <= e
    BY <2>2
  <2> HIDE DEF F
  <2>4. QED BY <2>1, <2>2, <2>3
<1>6. \A j \in 1..n : h(j) \in Nat /\ F(j) \in Nat /\ base <= F(j)
  BY <1>3, <1>4
<1>7. \A i, j \in 1..n : i <= j => h(i) <= h(j)
  BY <1>2
<1> HIDE DEF h, F
<1>8. \A i, j \in 1..n : i <= j => F(i) <= F(j)
  BY <1>4, <1>6, <1>7
<1>9. base \in Nat /\ e \in Nat /\ n \in Nat /\ n >= 1
  OBVIOUS
<1>10. Cut(labels, base, n, e)
  BY <1>5, <1>6, <1>8, <1>9 DEF Cut, F
<1>11. QED BY <1>4, <1>10 DEF F, h

\* No label of a frame is above the slot e, where its operands end.
Within(g, e) == \A j \in 2..g.label_stack_top : g.labels[j].stack_top <= e

\* What a frame waits with is not below its labels.
Held ==
  /\ Active => \A k \in 1..(Len(call_stack) - 1) :
                 Within(call_stack[k], call_stack[k + 1].locals)
  /\ status = "yielded" => Within(call_stack[Len(call_stack)], Len(stack))

LEMMA CutHere ==
  ASSUME NEW g, NEW f, NEW T, NEW N, NEW p, NEW n, NEW base, Standing(g, f, T, N, p, n, base)
  PROVE  /\ Cut(g.labels, base, n, sp) /\ n \in Nat /\ n > 0
         /\ \A j \in 1..n : FirstOf(g.labels, base, j) = base + T[p].ctrls[j].height
         /\ \A j \in 1..n : /\ T[p].ctrls[j].height \in Nat
                            /\ T[p].ctrls[j].height <= InnerCtrl(T[p]).height
<1>1. /\ n \in Nat /\ n > 0 /\ n = Len(T[p].ctrls) /\ base \in Nat /\ sp \in Nat /\ base <= sp
      /\ T[p].h = sp - base /\ InnerCtrl(T[p]) = T[p].ctrls[n] /\ T[p].ctrls # << >>
      /\ InnerCtrl(T[p]).height \in Nat /\ InnerCtrl(T[p]).height <= T[p].h
      /\ Formed(T[p], functions[f].results) /\ T[p] \in States
      /\ Seated(T, N, base, g.labels, p, n, sp - base)
  BY DEF Standing
<1>2. PICK c, x : c = T[p].ctrls /\ x = InnerCtrl(T[p]).height
  OBVIOUS
<1>3. \A j \in 1..n : c[j].height \in Nat
  BY <1>1, <1>2, InnerFacts
<1>4. \A i, j \in 1..n : i <= j => c[i].height <= c[j].height
  BY <1>1, <1>2 DEF Formed
<1>5. \A j \in 1..n : c[j].height <= x
  <2>1. n \in 1..n /\ \A j \in 1..n : j <= n
    BY <1>1
  <2>2. x = c[n].height
    BY <1>1, <1>2
  <2>3. QED BY <1>4, <2>1, <2>2
<1>6. x \in Nat /\ x <= sp - base
  BY <1>1, <1>2
<1>7. \A j \in 2..n : g.labels[j].stack_top <= sp
  <2>1. \A j \in 2..n : g.labels[j].stack_top = base + c[j].height
    BY <1>1, <1>2 DEF Seated, LabelFits
  <2>2. \A j \in 2..n : j \in 1..n
    OBVIOUS
  <2>3. \A j \in 2..n : c[j].height \in Nat /\ c[j].height <= x
    BY <1>3, <1>5, <2>2
  <2>4. QED BY <1>1, <1>6, <2>1, <2>3
<1>8. /\ Cut(g.labels, base, n, sp)
      /\ \A j \in 1..n : FirstOf(g.labels, base, j) = base + T[p].ctrls[j].height
  <2>1. Cuttable(T, N, base, g.labels, p, n, sp - base, functions[f].results, sp)
    BY <1>1, <1>7 DEF Cuttable
  <2>2. QED BY ONLY <2>1, SeatedCut
<1>9. QED BY <1>1, <1>2, <1>3, <1>5, <1>8

\* The labels of a frame that waits cut what it waits with.
LEMMA CutBelow ==
  ASSUME ValInv, CtxInv, TypingInv, TypedCtx, Held, Active,
         NEW k \in 1..Len(call_stack), k # Len(call_stack)
  PROVE  /\ Cut(call_stack[k].labels, OperandBase(k), call_stack[k].label_stack_top,
                OperandEnd(k))
         /\ OperandEnd(k) = call_stack[k + 1].locals /\ OperandEnd(k) \in Nat
         /\ call_stack[k].locals \in Nat /\ call_stack[k].locals <= OperandBase(k)
         /\ OperandBase(k) <= OperandEnd(k)
<1>1. call_stack # << >> /\ phase = "done" /\ verdict = "kOk" BY DEF CtxInv, Active
<1>2. PICK S : call_stack \in Seq(S) BY DEF CtxInv, Stacked
<1>3. k \in 1..(Len(call_stack) - 1) /\ k \in 1..Len(call_stack)
      /\ k + 1 \in 1..Len(call_stack)
  BY <1>2
<1>4. PICK g, h, n, e : /\ g = call_stack[k] /\ h = call_stack[k + 1]
                        /\ n = g.label_stack_top /\ e = h.locals
  OBVIOUS
<1>5. Waits(functions, g, h) /\ Roomy(functions, g, k) /\ Roomy(functions, h, k + 1)
  BY <1>3, <1>4 DEF TypedCtx, Framed
<1>6. FrameOK(g) BY <1>3, <1>4 DEF CtxInv, Stacked
<1>7. g.func \in Locals BY <1>6 DEF FrameOK, Locals
<1>8. PICK f, base, r : /\ f = g.func /\ base = Base(functions, g)
                        /\ r = functions[h.func].results
  OBVIOUS
<1>9. PICK T, N, x, p : /\ T = Typing(f) /\ N = Len(functions[f].code)
                        /\ x = e - base + r /\ p = g.ip
  OBVIOUS
<1>10. Seated(T, N, base, g.labels, p, n, x)
  BY <1>4, <1>5, <1>8, <1>9, TypingHere DEF Waits, Placed
<1>11. n \in Nat /\ n > 0 /\ base \in Nat /\ g.locals <= base
  <2>1. Seated(Typing(g.func), Len(functions[g.func].code), Base(functions, g),
               g.labels, p, n, x)
    BY <1>8, <1>9, <1>10
  <2>2. /\ n \in Nat /\ n > 0 /\ Base(functions, g) \in Nat
        /\ g.locals <= Base(functions, g)
    BY <1>1, <1>5, <1>7, <2>1, SeatedFits
  <2>3. QED BY <1>8, <2>2
<1>12. Body(f) BY <1>1, <1>7, <1>8, ExecutedBody
<1>13. Formed(T[p], functions[f].results)
  BY <1>9, <1>10, <1>12 DEF Seated, Body
<1>14. base <= e /\ e \in Nat /\ g.locals \in Nat
  BY <1>4, <1>5, <1>8 DEF Waits, Roomy
<1>15. \A j \in 2..n : g.labels[j].stack_top <= e
  <2>1. Within(call_stack[k], call_stack[k + 1].locals) BY <1>3 DEF Held
  <2>2. QED BY <1>4, <2>1 DEF Within
<1>16. Cuttable(T, N, base, g.labels, p, n, x, functions[f].results, e)
  BY <1>10, <1>11, <1>13, <1>14, <1>15 DEF Cuttable
<1>17. Cut(g.labels, base, n, e) BY ONLY <1>16, SeatedCut
<1>18. OperandBase(k) = base BY <1>4, <1>8 DEF OperandBase, Base
<1>19. OperandEnd(k) = e BY <1>4 DEF OperandEnd, top
<1>20. QED BY <1>4, <1>11, <1>14, <1>17, <1>18, <1>19

LEMMA LocalsAscend ==
  ASSUME ValInv, CtxInv, TypingInv, TypedCtx, Held, Active
  PROVE  /\ Len(call_stack) \in Nat /\ Len(call_stack) > 0
         /\ frame = call_stack[Len(call_stack)]
         /\ \A k \in 1..Len(call_stack) : /\ call_stack[k].locals \in Nat
                                          /\ call_stack[k].locals <= frame.locals
<1>1. PICK S : call_stack \in Seq(S) BY DEF CtxInv, Stacked
<1>2. PICK n : n = Len(call_stack) OBVIOUS
<1>3. n \in Nat /\ n > 0 BY <1>1, <1>2 DEF CtxInv, Active
<1>4. frame = call_stack[n] BY <1>2 DEF frame, top
<1>5. PICK v : v = [k \in 1..n |-> call_stack[k].locals] OBVIOUS
<1>6. \A k \in 1..n : v[k] = call_stack[k].locals /\ v[k] \in Nat
  <2>1. \A k \in 1..n : Roomy(functions, call_stack[k], k)
    BY <1>2 DEF TypedCtx, Framed
  <2>2. QED BY <1>5, <2>1 DEF Roomy
<1>7. ASSUME NEW k \in 1..(n - 1) PROVE v[k] <= v[k + 1]
  <2>1. k \in 1..Len(call_stack) /\ k # Len(call_stack) /\ k \in 1..n /\ k + 1 \in 1..n
    BY <1>2, <1>3
  <2>2. PICK b, e : b = OperandBase(k) /\ e = OperandEnd(k) OBVIOUS
  <2>3. Cut(call_stack[k].labels, b, call_stack[k].label_stack_top, e)
        /\ e = call_stack[k + 1].locals /\ e \in Nat
        /\ call_stack[k].locals <= b /\ b <= e
    BY <2>1, <2>2, CutBelow
  <2>4. b \in Nat BY <2>3 DEF Cut
  <2>5. v[k] <= b /\ v[k + 1] = e /\ v[k] \in Nat BY <1>6, <2>1, <2>3
  <2>6. QED BY <2>3, <2>4, <2>5
<1>8. \A m \in 0..n : \A i \in 1..m : v[i] <= v[m]
  BY <1>3, <1>6, <1>7, Ascends
<1>9. n \in 0..n /\ n \in 1..n BY <1>3
<1>10. QED BY <1>2, <1>3, <1>4, <1>6, <1>8, <1>9

-----------------------------------------------------------------------------
(* An instruction of WasmMachine *)

Act(f, p, L, B) == [func |-> f, pc |-> p, locals |-> L, blocks |-> B]

LEMMA ViewIs ==
  ASSUME NEW g, NEW base, NEW s, NEW p, NEW n, NEW e
  PROVE  View(g, base, s, p, n, e) =
           Act(g.func, p, SubSeq(s, g.locals + 1, base), Blocks(g.labels, base, s, n, e))
BY DEF View, Act

LEMMA PutAt ==
  ASSUME NEW n, NEW F, F = [k \in 1..n |-> F[k]], NEW i \in 1..n, NEW V,
         NEW G, G = [k \in 1..n |-> G[k]], G[i] = V, \A k \in 1..n : k # i => G[k] = F[k]
  PROVE  G = [F EXCEPT ![i] = V]
<1>1. PICK K : K = [F EXCEPT ![i] = V] OBVIOUS
<1>2. K = [k \in 1..n |-> K[k]] /\ K[i] = V /\ \A k \in 1..n : k # i => K[k] = F[k]
  BY <1>1
<1>3. \A k \in 1..n : G[k] = K[k] BY <1>2
<1>4. G = K BY ONLY G = [k \in 1..n |-> G[k]], <1>2, <1>3, SameSeq
<1>5. QED BY <1>1, <1>4

\* What lies below the end of a frame's operands is all its view looks at.
LEMMA BlocksSame ==
  ASSUME NEW labels, NEW base, NEW n, NEW e, Cut(labels, base, n, e),
         NEW s, s \in Seq(Nat), e <= Len(s), NEW t, t \in Seq(Nat), e <= Len(t),
         \A i \in 1..e : t[i] = s[i]
  PROVE  Blocks(labels, base, t, n, e) = Blocks(labels, base, s, n, e)
<1>1. /\ base \in Nat /\ e \in Nat /\ n \in Nat /\ n >= 1
      /\ \A j \in 1..n : /\ FirstOf(labels, base, j) \in Nat
                         /\ base <= FirstOf(labels, base, j) /\ FirstOf(labels, base, j) <= e
      /\ \A i, j \in 1..n : i <= j => FirstOf(labels, base, i) <= FirstOf(labels, base, j)
  BY DEF Cut
<1>2. PICK B, C : B = Blocks(labels, base, s, n, e) /\ C = Blocks(labels, base, t, n, e)
  OBVIOUS
<1>3. BlocksAre(B, labels, base, s, n, e)
  <2>1. BlocksAre(Blocks(labels, base, s, n, e), labels, base, s, n, e)
    BY <1>1, BlocksFacts
  <2>2. QED BY <1>2, <2>1
<1>4. BlocksAre(C, labels, base, t, n, e)
  <2>1. BlocksAre(Blocks(labels, base, t, n, e), labels, base, t, n, e)
    BY <1>1, BlocksFacts
  <2>2. QED BY <1>2, <2>1
<1>5. ASSUME NEW j \in 1..n PROVE C[j] = B[j]
  <2>1. PICK x, y : x = FirstOf(labels, base, j) /\ y = LastOf(labels, n, e, j)
    OBVIOUS
  <2>2. x \in Nat /\ y \in Nat /\ x <= y /\ y <= e
    <3>1. CASE j = n
      <4>1. y = e BY <2>1, <3>1 DEF LastOf
      <4>2. QED BY <1>1, <2>1, <4>1
    <3>2. CASE j # n
      <4>1. j + 1 \in 1..n /\ j + 1 # 1 /\ j <= j + 1 BY <1>1, <3>2
      <4>2. y = FirstOf(labels, base, j + 1)
        BY <2>1, <3>2, <4>1 DEF LastOf, FirstOf
      <4>3. QED BY <1>1, <2>1, <4>1, <4>2
    <3>3. QED BY <3>1, <3>2
  <2>3. \A i \in (x + 1)..y : i \in 1..e BY ONLY <1>1, <2>2
  <2>4. /\ s \in Seq(Nat) /\ t \in Seq(Nat) /\ x \in Nat /\ y \in Nat /\ x <= y
        /\ y <= Len(s) /\ y <= Len(t) /\ \A i \in (x + 1)..y : t[i] = s[i]
    BY <1>1, <2>2, <2>3
  <2>5. SubSeq(t, x + 1, y) = SubSeq(s, x + 1, y) BY ONLY <2>4, SliceSame
  <2>6. B[j] = BlockOf(labels[j], SubSeq(s, x + 1, y)) BY <1>3, <2>1 DEF BlocksAre
  <2>7. C[j] = BlockOf(labels[j], SubSeq(t, x + 1, y)) BY <1>4, <2>1 DEF BlocksAre
  <2>8. QED BY <2>5, <2>6, <2>7
<1>6. B = [j \in 1..n |-> B[j]] /\ C = [j \in 1..n |-> C[j]]
  BY <1>3, <1>4 DEF BlocksAre
<1>7. C = B BY ONLY <1>5, <1>6, SameSeq
<1>8. QED BY <1>2, <1>7

\* Two stacks with the same slots a + 1 to b.
Alike(s, t, a, b) ==
  /\ s \in Seq(Nat) /\ t \in Seq(Nat) /\ a \in Nat /\ b \in Nat /\ a <= b
  /\ b <= Len(s) /\ b <= Len(t) /\ \A i \in (a + 1)..b : t[i] = s[i]

LEMMA SliceAlike ==
  ASSUME NEW s, NEW t, NEW a, NEW b, Alike(s, t, a, b) PROVE Slice(t, a, b) = Slice(s, a, b)
<1>1. SubSeq(t, a + 1, b) = SubSeq(s, a + 1, b) BY SliceSame DEF Alike
<1>2. QED BY <1>1 DEF Slice

LEMMA ViewSame ==
  ASSUME NEW g, NEW base, NEW n, NEW e, Cut(g.labels, base, n, e), g.locals \in Nat,
         g.locals <= base, base <= e,
         NEW s, s \in Seq(Nat), e <= Len(s), NEW t, t \in Seq(Nat), e <= Len(t),
         \A i \in 1..e : t[i] = s[i], NEW p
  PROVE  View(g, base, t, p, n, e) = View(g, base, s, p, n, e)
<1>1. PICK a, b : a = g.locals /\ b = base OBVIOUS
<1>2. b \in Nat /\ e \in Nat /\ a \in Nat /\ a <= b /\ b <= e
  BY <1>1 DEF Cut
<1>3. \A i \in (a + 1)..b : i \in 1..e BY ONLY <1>2
<1>4. Alike(s, t, a, b) BY <1>2, <1>3 DEF Alike
<1>5. SubSeq(t, a + 1, b) = SubSeq(s, a + 1, b)
  <2>1. Slice(t, a, b) = Slice(s, a, b) BY <1>4, SliceAlike
  <2>2. QED BY <2>1 DEF Slice
<1>6. Blocks(g.labels, base, t, n, e) = Blocks(g.labels, base, s, n, e) BY BlocksSame
<1>7. QED BY <1>1, <1>5, <1>6 DEF View

\* What WasmMachine sees of the running frame.
Seen(f, p, L, B, n, v) ==
  /\ Mode = "running" /\ Abstract!depth = Len(call_stack) /\ Abstract!cur = Act(f, p, L, B)
  /\ Abstract!nest = n /\ Abstract!vals = v
  /\ Abstract!code = functions[f].code /\ Abstract!ins = instr
  /\ \A ops : Abstract!Executing(ops) <=> instr.op \in ops
  /\ FramesAre(Activations, Len(call_stack)) /\ ASeq(B) /\ Len(B) = n /\ B[n].vals = v

LEMMA SeenHere ==
  ASSUME ValInv, CtxInv, status = "running",
         NEW g, NEW f, NEW T, NEW N, NEW p, NEW n, NEW base, Standing(g, f, T, N, p, n, base),
         NEW L, L = SubSeq(stack, g.locals + 1, base),
         NEW B, B = Blocks(g.labels, base, stack, n, sp),
         NEW v, v = SubSeq(stack, FirstOf(g.labels, base, n) + 1, sp)
  PROVE  Seen(f, p, L, B, n, v)
<1>1. /\ g = call_stack[Len(call_stack)] /\ f = g.func /\ f \in DOMAIN functions
      /\ p = regs.ip /\ p \in Nat /\ n = regs.label_top /\ n \in Nat /\ n > 0
      /\ base = Base(functions, g) /\ instr = functions[f].code[p + 1]
      /\ N = Len(functions[f].code) /\ p < N
  BY DEF Standing
<1>2. Active /\ Mode = "running" BY DEF Active, Mode
<1>3. PICK D : D = Len(call_stack) OBVIOUS
<1>4. D \in Nat /\ D > 0
  <2>1. PICK S : call_stack \in Seq(S) BY DEF CtxInv, Stacked
  <2>2. call_stack # << >> BY DEF CtxInv
  <2>3. QED BY <1>3, <2>1, <2>2
<1>5. FramesAre(Activations, D) /\ \A k \in 1..D : Activations[k] = ViewAt(k)
  BY <1>2, <1>3, <1>4, FramesNow
<1>6. Activations[D] = Act(f, p, L, B)
  <2>1. D \in 1..D BY <1>4
  <2>2. OperandBase(D) = base BY <1>1, <1>3 DEF OperandBase, Base
  <2>3. IpOf(D) = p /\ LabelTopOf(D) = n /\ OperandEnd(D) = sp
    BY <1>1, <1>3 DEF IpOf, LabelTopOf, OperandEnd, top
  <2>4. ViewAt(D) = View(g, base, stack, p, n, sp)
    BY <1>1, <1>3, <2>2, <2>3 DEF ViewAt
  <2>5. View(g, base, stack, p, n, sp) =
          Act(g.func, p, SubSeq(stack, g.locals + 1, base),
              Blocks(g.labels, base, stack, n, sp))
    BY ViewIs
  <2>6. QED BY <1>1, <1>5, <2>1, <2>4, <2>5
<1>7. Len(Activations) = D BY <1>5 DEF FramesAre
<1>8. Abstract!depth = D /\ Abstract!cur = Act(f, p, L, B)
  BY <1>6, <1>7 DEF Abstract!depth, Abstract!cur
<1>9. BlocksAre(B, g.labels, base, stack, n, sp)
  <2>1. BlocksAre(Blocks(g.labels, base, stack, n, sp), g.labels, base, stack, n, sp)
    BY <1>1, BlocksFacts
  <2>2. QED BY <2>1
<1>10. ASeq(B) /\ Len(B) = n /\ B[n].vals = v
  <2>1. n \in 1..n BY <1>1
  <2>2. B[n] = BlockOf(g.labels[n],
          SubSeq(stack, FirstOf(g.labels, base, n) + 1, LastOf(g.labels, n, sp, n)))
    BY <1>9, <2>1 DEF BlocksAre
  <2>3. LastOf(g.labels, n, sp, n) = sp BY DEF LastOf
  <2>4. B[n] = BlockOf(g.labels[n], v) BY <2>2, <2>3
  <2>5. BlockOf(g.labels[n], v).vals = v BY ONLY BlockVals
  <2>6. QED BY <1>9, <2>4, <2>5 DEF BlocksAre
<1>11. Act(f, p, L, B).func = f /\ Act(f, p, L, B).pc = p /\ Act(f, p, L, B).blocks = B
  BY DEF Act
<1>12. Abstract!nest = n /\ Abstract!vals = v
  BY <1>8, <1>10, <1>11 DEF Abstract!nest, Abstract!vals
<1>13. Abstract!code = functions[f].code /\ Abstract!ins = instr
  <2>1. Program[f].code = functions[f].code BY <1>1, ProgramFacts
  <2>2. Abstract!code = functions[f].code BY <1>8, <1>11, <2>1 DEF Abstract!code
  <2>3. QED BY <1>1, <1>8, <1>11, <2>2 DEF Abstract!ins
<1>14. \A ops : Abstract!Executing(ops) <=> instr.op \in ops
  BY <1>1, <1>2, <1>8, <1>11, <1>13 DEF Abstract!Executing
<1>15. QED BY <1>2, <1>3, <1>5, <1>8, <1>10, <1>12, <1>13, <1>14 DEF Seen

\* A frame that waits looks the same as long as nothing below it is written.
LEMMA WaitsSame ==
  ASSUME ValInv, CtxInv, TypingInv, TypedCtx, Held, Active, Active', UNCHANGED valVars,
         stack' \in Seq(Nat), NEW d, d \in Nat, d <= Len(stack), d <= Len(stack'),
         \A i \in 1..d : stack'[i] = stack[i],
         NEW k \in 1..Len(call_stack), k # Len(call_stack), call_stack[k + 1].locals <= d,
         k \in 1..Len(call_stack'), k # Len(call_stack'), Len(call_stack') \in Nat,
         call_stack'[k] = call_stack[k],
         call_stack'[k + 1].locals = call_stack[k + 1].locals
  PROVE  ViewAt(k)' = ViewAt(k)
<1>1. PICK g, base, e, n, s, t : /\ g = call_stack[k] /\ base = OperandBase(k)
                                 /\ e = OperandEnd(k) /\ n = g.label_stack_top
                                 /\ s = stack /\ t = stack'
  OBVIOUS
<1>2. /\ Cut(g.labels, base, n, e) /\ e = call_stack[k + 1].locals /\ e \in Nat
      /\ g.locals \in Nat /\ g.locals <= base /\ base <= e
  BY <1>1, CutBelow
<1>3. s \in Seq(Nat) /\ t \in Seq(Nat) BY <1>1 DEF TypedCtx
<1>4. e <= Len(s) /\ e <= Len(t) /\ \A i \in 1..e : t[i] = s[i]
  <2>1. e <= d /\ d <= Len(s) /\ d <= Len(t) /\ \A i \in 1..d : t[i] = s[i]
    BY <1>1, <1>2
  <2>2. Len(s) \in Nat /\ Len(t) \in Nat BY <1>3
  <2>3. \A i \in 1..e : i \in 1..d BY ONLY <1>2, <2>1, d \in Nat
  <2>4. QED BY <1>2, <2>1, <2>2, <2>3
<1>5. View(g, base, t, g.ip, n, e) = View(g, base, s, g.ip, n, e)
  BY <1>2, <1>3, <1>4, ViewSame
<1>6. ViewAt(k) = View(g, base, s, g.ip, n, e)
  <2>1. IpOf(k) = g.ip /\ LabelTopOf(k) = n BY <1>1 DEF IpOf, LabelTopOf, top
  <2>2. QED BY <1>1, <2>1 DEF ViewAt
<1>7. ViewAt(k)' = View(g, base, t, g.ip, n, e)
  <2>1. functions' = functions BY DEF valVars
  <2>2. OperandBase(k)' = base BY <1>1, <2>1 DEF OperandBase
  <2>3. OperandEnd(k)' = e BY <1>2 DEF OperandEnd, top
  <2>4. IpOf(k)' = g.ip /\ LabelTopOf(k)' = n BY <1>1 DEF IpOf, LabelTopOf, top
  <2>5. QED BY <1>1, <2>2, <2>3, <2>4 DEF ViewAt
<1>8. QED BY <1>5, <1>6, <1>7

-----------------------------------------------------------------------------
(* Steps of the running frame *)

\* The running frame g becomes h, at q inside m blocks.
TopChange(g, h, q, m) ==
  /\ status' = "running" /\ UNCHANGED valVars /\ regs' = [ip |-> q, label_top |-> m]
  /\ Len(call_stack') = Len(call_stack) /\ call_stack'[Len(call_stack)] = h
  /\ \A k \in 1..Len(call_stack) : k # Len(call_stack) => call_stack'[k] = call_stack[k]
  /\ h.func = g.func /\ h.locals = g.locals

StackKept(b) ==
  stack' \in Seq(Nat) /\ b <= Len(stack') /\ \A i \in 1..b : stack'[i] = stack[i]

\* The running frame becomes A, and nothing else changes.
TopIs(A) ==
  /\ Activations' = [Activations EXCEPT ![Len(call_stack)] = A]
  /\ Abstract!Proceed /\ Held'

LEMMA ProgramStays ==
  ASSUME UNCHANGED functions PROVE Program' = Program
BY DEF Program

LEMMA FramePut ==
  ASSUME ValInv, CtxInv, TypingInv, TypedCtx, Held, status = "running",
         NEW g, g = frame, NEW h, NEW q, NEW m, TopChange(g, h, q, m), StackKept(g.locals),
         NEW base, base = Base(functions, g)
  PROVE  TopIs(Act(g.func, q, SubSeq(stack', g.locals + 1, base),
                   Blocks(h.labels, base, stack', m, Len(stack'))))
<1>1. /\ status' = "running" /\ UNCHANGED valVars /\ regs' = [ip |-> q, label_top |-> m]
      /\ Len(call_stack') = Len(call_stack) /\ call_stack'[Len(call_stack)] = h
      /\ \A k \in 1..Len(call_stack) : k # Len(call_stack) => call_stack'[k] = call_stack[k]
      /\ h.func = g.func /\ h.locals = g.locals
  BY DEF TopChange
<1>2. /\ stack' \in Seq(Nat) /\ g.locals <= Len(stack')
      /\ \A i \in 1..g.locals : stack'[i] = stack[i]
  BY DEF StackKept
<1>3. PICK e, L, B, n : /\ e = Len(stack') /\ L = SubSeq(stack', g.locals + 1, base)
                        /\ B = Blocks(h.labels, base, stack', m, e) /\ n = Len(call_stack)
  OBVIOUS
<1>4. Active /\ Active' /\ Mode' = Mode /\ Returned' = Returned
  BY <1>1 DEF Active, Mode, Returned
<1>5. /\ n \in Nat /\ n > 0 /\ g = call_stack[n]
      /\ \A k \in 1..n : call_stack[k].locals \in Nat /\ call_stack[k].locals <= g.locals
  BY <1>3, <1>4, LocalsAscend
<1>6. FramesAre(Activations, n) /\ \A k \in 1..n : Activations[k] = ViewAt(k)
  BY <1>3, <1>4, <1>5, FramesNow
<1>7. FramesAre(Activations', n) /\ \A k \in 1..n : Activations'[k] = ViewAt(k)'
  BY <1>1, <1>3, <1>4, <1>5, FramesNext
<1>8. functions' = functions BY <1>1 DEF valVars
<1>9. PICK V : V = Act(g.func, q, L, B) OBVIOUS
<1>10. Activations'[n] = V
  <2>1. n \in 1..n BY <1>5
  <2>2. OperandBase(n)' = base BY <1>1, <1>3, <1>8 DEF OperandBase, Base
  <2>3. IpOf(n)' = q /\ LabelTopOf(n)' = m /\ OperandEnd(n)' = e
    BY <1>1, <1>3 DEF IpOf, LabelTopOf, OperandEnd, top, sp
  <2>4. ViewAt(n)' = View(h, base, stack', q, m, e)
    BY <1>1, <1>3, <2>2, <2>3 DEF ViewAt
  <2>5. View(h, base, stack', q, m, e) =
          Act(h.func, q, SubSeq(stack', h.locals + 1, base),
              Blocks(h.labels, base, stack', m, e))
    BY ViewIs
  <2>6. QED BY <1>1, <1>3, <1>7, <1>9, <2>1, <2>4, <2>5
<1>11. g.locals \in Nat /\ g.locals <= Len(stack)
  <2>1. PICK G, f, T, N, p, x, b : Standing(G, f, T, N, p, x, b) BY Here
  <2>2. /\ G = g /\ g.locals \in Nat /\ b \in Nat /\ g.locals <= b /\ b <= sp
        /\ sp = Len(stack) /\ sp \in Nat
    BY <2>1 DEF Standing
  <2>3. QED BY ONLY <2>2
<1>12. ASSUME NEW k \in 1..n, k # n PROVE Activations'[k] = Activations[k]
  <2>1. k + 1 \in 1..n BY <1>5, <1>12
  <2>2. call_stack[k + 1].locals <= g.locals BY <1>5, <2>1
  <2>3. call_stack'[k + 1].locals = call_stack[k + 1].locals
    <3>1. CASE k + 1 = n BY <1>1, <1>3, <1>5, <3>1
    <3>2. CASE k + 1 # n BY <1>1, <1>3, <2>1, <3>2
    <3>3. QED BY <3>1, <3>2
  <2>4. call_stack'[k] = call_stack[k] BY <1>1, <1>3, <1>12
  <2>5. /\ k \in 1..Len(call_stack) /\ k # Len(call_stack) /\ k \in 1..Len(call_stack')
        /\ k # Len(call_stack') /\ Len(call_stack') \in Nat
    BY <1>1, <1>3, <1>5, <1>12
  <2>6. ViewAt(k)' = ViewAt(k)
    BY <1>1, <1>2, <1>4, <1>11, <2>2, <2>3, <2>4, <2>5, WaitsSame
  <2>7. QED BY <1>6, <1>7, <2>6
<1>13. Activations' = [Activations EXCEPT ![n] = V]
  <2>1. PICK F, G : F = Activations /\ G = Activations' OBVIOUS
  <2>2. n \in 1..n BY <1>5
  <2>3. /\ F = [k \in 1..n |-> F[k]] /\ G = [k \in 1..n |-> G[k]] /\ G[n] = V
        /\ \A k \in 1..n : k # n => G[k] = F[k]
    BY <1>6, <1>7, <1>10, <1>12, <2>1 DEF FramesAre
  <2>4. G = [F EXCEPT ![n] = V] BY ONLY <2>2, <2>3, PutAt
  <2>5. QED BY <2>1, <2>4
<1>14. Abstract!Proceed
  <2>1. Program' = Program BY <1>8, ProgramStays
  <2>2. QED BY <1>4, <2>1 DEF Abstract!Proceed
<1>15. Held'
  <2>1. \A k \in 1..(n - 1) : Within(call_stack[k], call_stack[k + 1].locals)
    BY <1>3, <1>4 DEF Held
  <2>2. ASSUME NEW k \in 1..(n - 1)
        PROVE  Within(call_stack'[k], call_stack'[k + 1].locals)
    <3>1. k \in 1..n /\ k # n /\ k + 1 \in 1..n BY <1>5
    <3>2. call_stack'[k] = call_stack[k] BY <1>1, <1>3, <3>1
    <3>3. call_stack'[k + 1].locals = call_stack[k + 1].locals
      <4>1. CASE k + 1 = n BY <1>1, <1>3, <1>5, <4>1
      <4>2. CASE k + 1 # n BY <1>1, <1>3, <3>1, <4>2
      <4>3. QED BY <4>1, <4>2
    <3>4. QED BY <2>1, <2>2, <3>2, <3>3
  <2>3. QED BY <1>1, <1>3, <2>2 DEF Held
<1>16. QED BY <1>3, <1>9, <1>13, <1>14, <1>15 DEF TopIs

-----------------------------------------------------------------------------
(* Instructions on the operands of the innermost block *)

LEMMA ActExcept ==
  ASSUME NEW f, NEW p, NEW L, NEW B, NEW q, NEW M, NEW C
  PROVE  /\ [Act(f, p, L, B) EXCEPT !.pc = q] = Act(f, q, L, B)
         /\ [Act(f, p, L, B) EXCEPT !.locals = M] = Act(f, p, M, B)
         /\ [Act(f, p, L, B) EXCEPT !.blocks = C] = Act(f, p, L, C)
         /\ Act(f, p, L, B).func = f /\ Act(f, p, L, B).pc = p
         /\ Act(f, p, L, B).locals = L /\ Act(f, p, L, B).blocks = B
BY DEF Act

\* An instruction with the operands v of the innermost block above slot a.
Place(g, f, T, N, p, n, base, a, L, B, v) ==
  /\ Standing(g, f, T, N, p, n, base)
  /\ Cut(g.labels, base, n, sp)
  /\ a = FirstOf(g.labels, base, n) /\ a = base + InnerCtrl(T[p]).height
  /\ a \in Nat /\ base <= a /\ a <= sp /\ n \in Nat /\ n > 0
  /\ L = SubSeq(stack, g.locals + 1, base) /\ B = Blocks(g.labels, base, stack, n, sp)
  /\ v = SubSeq(stack, a + 1, sp) /\ v \in Seq(Nat) /\ Len(v) = sp - a
  /\ Seen(f, p, L, B, n, v)

LEMMA PlaceHere ==
  ASSUME ValInv, CtxInv, TypingInv, TypedCtx, status = "running"
  PROVE  \E g, f, T, N, p, n, base, a, L, B, v : Place(g, f, T, N, p, n, base, a, L, B, v)
<1>1. PICK g, f, T, N, p, n, base : Standing(g, f, T, N, p, n, base) BY Here
<1>2. PICK L, B, a, v : /\ L = SubSeq(stack, g.locals + 1, base)
                        /\ B = Blocks(g.labels, base, stack, n, sp)
                        /\ a = FirstOf(g.labels, base, n)
                        /\ v = SubSeq(stack, a + 1, sp)
  OBVIOUS
<1>3. /\ Cut(g.labels, base, n, sp) /\ n \in Nat /\ n > 0
      /\ \A j \in 1..n : FirstOf(g.labels, base, j) = base + T[p].ctrls[j].height
  BY <1>1, CutHere
<1>4. n \in 1..n BY <1>3
<1>5. /\ stack \in Seq(Nat) /\ sp = Len(stack) /\ sp \in Nat
      /\ InnerCtrl(T[p]) = T[p].ctrls[n]
  BY <1>1 DEF Standing
<1>6. a = base + InnerCtrl(T[p]).height BY <1>2, <1>3, <1>4, <1>5
<1>7. a \in Nat /\ base <= a /\ a <= sp BY <1>2, <1>3, <1>4 DEF Cut
<1>8. v \in Seq(Nat) /\ Len(v) = sp - a
  <2>1. PICK S, e, x : S = stack /\ e = sp /\ x = e - a OBVIOUS
  <2>2. S \in Seq(Nat) /\ a \in Nat /\ e \in Nat /\ a <= e /\ e <= Len(S)
    BY <1>5, <1>7, <2>1
  <2>3. SubSeq(S, a + 1, e) \in Seq(Nat) /\ Len(SubSeq(S, a + 1, e)) = e - a
    BY ONLY <2>2, SliceFacts
  <2>4. QED BY <1>2, <2>1, <2>3
<1>9. Seen(f, p, L, B, n, v) BY <1>1, <1>2, SeenHere
<1>10. Place(g, f, T, N, p, n, base, a, L, B, v)
  BY <1>1, <1>2, <1>3, <1>6, <1>7, <1>8, <1>9 DEF Place
<1>11. QED BY <1>10

LEMMA WithValsIs ==
  ASSUME NEW f, NEW p, NEW L, NEW B, NEW n, NEW v, Seen(f, p, L, B, n, v), NEW w
  PROVE  Abstract!WithVals(w) = Act(f, p + 1, L, [B EXCEPT ![n].vals = w])
<1>1. Abstract!cur = Act(f, p, L, B) /\ Abstract!nest = n BY DEF Seen
<1>2. PICK A : A = Act(f, p, L, B) OBVIOUS
<1>3. [A EXCEPT !.blocks[n].vals = w, !.pc = @ + 1] =
        Act(f, p + 1, L, [B EXCEPT ![n].vals = w])
  <2>1. PICK q, C : q = p + 1 /\ C = [B EXCEPT ![n].vals = w] OBVIOUS
  <2>2. PICK K : K = [A EXCEPT !.blocks[n].vals = w] OBVIOUS
  <2>3. K = Act(f, p, L, C) BY ONLY <1>2, <2>1, <2>2 DEF Act
  <2>4. K.pc = p BY <2>3 DEF Act
  <2>5. [K EXCEPT !.pc = @ + 1] = [K EXCEPT !.pc = q] BY <2>1, <2>4
  <2>6. [K EXCEPT !.pc = q] = Act(f, q, L, C) BY ONLY <2>3 DEF Act
  <2>7. [A EXCEPT !.blocks[n].vals = w, !.pc = @ + 1] = [K EXCEPT !.pc = @ + 1]
    BY ONLY <2>2
  <2>8. QED BY <2>1, <2>5, <2>6, <2>7
<1>4. QED BY <1>1, <1>2, <1>3 DEF Abstract!WithVals

\* The instruction is left behind and only the stack changes.
Stepped ==
  /\ UNCHANGED <<valVars, call_stack, status>> /\ Step(regs.label_top) /\ stack' \in Seq(Nat)

Inside(g, base, a) ==
  /\ a <= Len(stack') /\ \A i \in 1..g.locals : stack'[i] = stack[i]
  /\ \A i \in (base + 1)..a : stack'[i] = stack[i]

LEMMA PutVals ==
  ASSUME ValInv, CtxInv, TypingInv, TypedCtx, Held, status = "running", Stepped,
         NEW g, NEW f, NEW T, NEW N, NEW p, NEW n, NEW base, NEW a, NEW L, NEW B, NEW v,
         Place(g, f, T, N, p, n, base, a, L, B, v), Inside(g, base, a)
  PROVE  TopIs(Act(f, p + 1, SubSeq(stack', g.locals + 1, base),
                   BlocksFilled(B, n, stack', a, Len(stack'))))
<1>1. /\ g = frame /\ g = call_stack[Len(call_stack)] /\ f = g.func
      /\ base = Base(functions, g) /\ base \in Nat /\ g.locals \in Nat /\ g.locals <= base
      /\ n = regs.label_top /\ p = regs.ip /\ Cut(g.labels, base, n, sp)
      /\ a = FirstOf(g.labels, base, n) /\ a \in Nat /\ base <= a /\ n \in Nat /\ n > 0
      /\ B = Blocks(g.labels, base, stack, n, sp)
      /\ stack \in Seq(Nat) /\ sp = Len(stack) /\ sp \in Nat
  BY DEF Place, Standing
<1>2. /\ UNCHANGED valVars /\ call_stack' = call_stack /\ status' = status
      /\ regs' = [ip |-> regs.ip + 1, label_top |-> regs.label_top] /\ stack' \in Seq(Nat)
  BY DEF Stepped, Step, Continue
<1>3. /\ a <= Len(stack') /\ \A i \in 1..g.locals : stack'[i] = stack[i]
      /\ \A i \in (base + 1)..a : stack'[i] = stack[i]
  BY DEF Inside
<1>4. PICK q : q = p + 1 OBVIOUS
<1>5. TopChange(g, g, q, n) BY <1>1, <1>2, <1>4 DEF TopChange
<1>6. StackKept(g.locals)
  <2>1. PICK l, m : l = g.locals /\ m = Len(stack') OBVIOUS
  <2>2. l \in Nat /\ base \in Nat /\ a \in Nat /\ m \in Nat /\ l <= base /\ base <= a /\ a <= m
    BY <1>1, <1>2, <1>3, <2>1
  <2>3. l <= m BY ONLY <2>2
  <2>4. QED BY <1>2, <1>3, <2>1, <2>3 DEF StackKept
<1>7. TopIs(Act(g.func, q, SubSeq(stack', g.locals + 1, base),
                Blocks(g.labels, base, stack', n, Len(stack'))))
  BY <1>1, <1>5, <1>6, FramePut
<1>8. PICK s, t, e, d, labels : /\ s = stack /\ t = stack' /\ e = sp /\ d = Len(stack')
                                /\ labels = g.labels
  OBVIOUS
<1>9. Carries(labels, base, n, e, s, t, n, a, labels)
  <2>1. n \in 1..n BY <1>1
  <2>2. QED BY <1>1, <1>2, <1>3, <1>8, <2>1 DEF Carries
<1>10. Blocks(labels, base, t, n, d) = BlocksFilled(Blocks(labels, base, s, n, e), n, t, a, d)
  BY ONLY <1>9, BlocksTop
<1>11. Blocks(g.labels, base, stack', n, Len(stack')) = BlocksFilled(B, n, stack', a, Len(stack'))
  BY <1>1, <1>8, <1>10
<1>12. QED BY <1>1, <1>4, <1>7, <1>11

LEMMA PutSame ==
  ASSUME ValInv, CtxInv, TypingInv, TypedCtx, Held, status = "running", Stepped,
         NEW g, NEW f, NEW T, NEW N, NEW p, NEW n, NEW base, NEW a, NEW L, NEW B, NEW v,
         Place(g, f, T, N, p, n, base, a, L, B, v), StackKept(a),
         NEW w, w = SubSeq(stack', a + 1, Len(stack'))
  PROVE  Abstract!Put(Abstract!WithVals(w)) /\ Abstract!Proceed /\ Held'
<1>1. /\ base \in Nat /\ g.locals \in Nat /\ g.locals <= base /\ a \in Nat /\ base <= a
      /\ stack \in Seq(Nat) /\ sp = Len(stack) /\ sp \in Nat /\ a <= sp
      /\ L = SubSeq(stack, g.locals + 1, base) /\ Seen(f, p, L, B, n, v)
  BY DEF Place, Standing
<1>2. stack' \in Seq(Nat) /\ a <= Len(stack') /\ \A i \in 1..a : stack'[i] = stack[i]
  BY DEF StackKept
<1>3. PICK b, s, t : b = g.locals /\ s = stack /\ t = stack' OBVIOUS
<1>4. b \in Nat /\ base \in Nat /\ a \in Nat /\ b <= base /\ base <= a BY <1>1, <1>3
<1>5. /\ \A i \in 1..b : i \in 1..a
      /\ \A i \in (base + 1)..a : i \in 1..a
      /\ \A i \in (b + 1)..base : i \in 1..a
  BY ONLY <1>4
<1>6. Alike(s, t, b, base)
  <2>1. base <= Len(s) /\ base <= Len(t)
    <3>1. PICK x, y : x = Len(s) /\ y = Len(t) OBVIOUS
    <3>2. x \in Nat /\ y \in Nat /\ a <= x /\ a <= y BY <1>1, <1>2, <1>3, <3>1
    <3>3. base <= x /\ base <= y BY ONLY <1>4, <3>2
    <3>4. QED BY <3>1, <3>3
  <2>2. QED BY <1>1, <1>2, <1>3, <1>4, <1>5, <2>1 DEF Alike
<1>7. SubSeq(stack', g.locals + 1, base) = L
  <2>1. Slice(t, b, base) = Slice(s, b, base) BY <1>6, SliceAlike
  <2>2. QED BY <1>1, <1>3, <2>1 DEF Slice
<1>8. Inside(g, base, a) BY <1>2, <1>3, <1>5 DEF Inside
<1>9. TopIs(Act(f, p + 1, SubSeq(stack', g.locals + 1, base),
                BlocksFilled(B, n, stack', a, Len(stack'))))
  BY <1>8, PutVals
<1>10. BlocksFilled(B, n, stack', a, Len(stack')) = [B EXCEPT ![n].vals = w]
  BY DEF BlocksFilled
<1>11. Abstract!WithVals(w) = Act(f, p + 1, L, [B EXCEPT ![n].vals = w])
  <2>1. Seen(f, p, L, B, n, v) BY <1>1
  <2>2. QED BY ONLY <2>1, WithValsIs
<1>12. TopIs(Abstract!WithVals(w)) BY <1>7, <1>9, <1>10, <1>11
<1>13. Abstract!depth = Len(call_stack) BY <1>1 DEF Seen
<1>14. QED BY <1>12, <1>13 DEF TopIs, Abstract!Put

\* r in the place of the k topmost slots, none of them below slot a.
Replaced(s, t, a, k, r) ==
  /\ t \in Seq(Nat) /\ Len(t) = Len(s) - k + Len(r) /\ a <= Len(t)
  /\ \A i \in 1..a : t[i] = s[i]
  /\ SubSeq(t, a + 1, Len(t)) = Abstract!Keep(SubSeq(s, a + 1, Len(s)), k) \o r

LEMMA ReplaceOperands ==
  ASSUME NEW s, s \in Seq(Nat), NEW a, a \in Nat, a <= Len(s),
         NEW k, k \in Nat, k <= Len(s) - a, NEW r, r \in Seq(Nat),
         NEW t, t = Below(s, k) \o r
  PROVE  Replaced(s, t, a, k, r)
<1>1. PICK m, n, e, p, d : /\ m = Len(s) /\ n = Len(r) /\ e = m - k /\ p = Below(s, k)
                           /\ d = e + n
  OBVIOUS
<1>2. m \in Nat /\ n \in Nat /\ e \in Nat /\ a <= e /\ e <= m /\ k <= m /\ d \in Nat
      /\ k <= m - a
  BY <1>1
<1>3. p \in Seq(Nat) /\ Len(p) = e BY <1>1, <1>2, BelowNat
<1>4. \A i \in 1..e : p[i] = s[i] BY <1>1, <1>2, BelowSlice
<1>5. /\ p \o r \in Seq(Nat) /\ Len(p \o r) = e + n /\ \A i \in 1..e : (p \o r)[i] = p[i]
  <2>1. p \in Seq(Nat) /\ r \in Seq(Nat) /\ e = Len(p) /\ n = Len(r) BY <1>1, <1>3
  <2>2. QED BY ONLY <2>1, ConcatElems
<1>6. /\ t \in Seq(Nat) /\ Len(t) = d /\ \A i \in 1..e : t[i] = s[i] BY <1>1, <1>4, <1>5
<1>7. \A i \in 1..a : i \in 1..e BY ONLY <1>2, a \in Nat
<1>8. \A i \in 1..a : t[i] = s[i] BY <1>6, <1>7
<1>9. SubSeq(t, a + 1, d) = SubSeq(p, a + 1, e) \o r
  <2>1. a <= Len(p) BY <1>2, <1>3
  <2>2. SubSeq(p \o r, a + 1, Len(p) + Len(r)) = SubSeq(p, a + 1, Len(p)) \o r
    BY <1>3, <2>1, SlicePush
  <2>3. QED BY <1>1, <1>3, <2>2
<1>10. Slice(p, a, e) = Slice(s, a, e)
  <2>1. \A i \in (a + 1)..e : i \in 1..e BY ONLY <1>2, a \in Nat
  <2>2. s \in Seq(Nat) /\ p \in Seq(Nat) /\ a \in Nat /\ e \in Nat /\ a <= e
    BY <1>2, <1>3
  <2>3. e <= Len(s) /\ e <= Len(p) /\ \A i \in (a + 1)..e : p[i] = s[i]
    BY <1>1, <1>2, <1>3, <1>4, <2>1
  <2>4. Alike(s, p, a, e) BY ONLY <2>2, <2>3 DEF Alike
  <2>5. QED BY <2>4, SliceAlike
<1>11. Abstract!Keep(Slice(s, a, m), k) = Slice(s, a, e)
  <2>1. Parts(s, a, m, k, e) BY <1>1, <1>2 DEF Parts
  <2>2. QED BY <2>1, KeepSlice
<1>12. SubSeq(t, a + 1, Len(t)) = Abstract!Keep(SubSeq(s, a + 1, Len(s)), k) \o r
  BY <1>1, <1>6, <1>9, <1>10, <1>11 DEF Slice
<1>13. Len(t) = Len(s) - k + Len(r) /\ a <= Len(t) BY <1>1, <1>2, <1>6
<1>14. QED BY <1>6, <1>8, <1>12, <1>13 DEF Replaced

LEMMA AppendIs ==
  ASSUME NEW s, s \in Seq(Nat), NEW x, x \in Nat
  PROVE  Append(s, x) = s \o <<x>> /\ <<x>> \in Seq(Nat) /\ Len(<<x>>) = 1
OBVIOUS

LEMMA Replacing ==
  ASSUME ValInv, CtxInv, TypingInv, TypedCtx, Held, status = "running", Stepped,
         NEW g, NEW f, NEW T, NEW N, NEW p, NEW n, NEW base, NEW a, NEW L, NEW B, NEW v,
         Place(g, f, T, N, p, n, base, a, L, B, v),
         NEW k, k \in Nat, k <= sp - a, NEW r, r \in Seq(Nat), stack' = Below(stack, k) \o r
  PROVE  Abstract!Put(Abstract!WithVals(Abstract!Keep(v, k) \o r)) /\ Abstract!Proceed /\ Held'
<1>1. /\ stack \in Seq(Nat) /\ sp = Len(stack) /\ a \in Nat /\ a <= sp
      /\ v = SubSeq(stack, a + 1, sp)
  BY DEF Place, Standing
<1>2. PICK s, t : s = stack /\ t = stack' OBVIOUS
<1>3. Replaced(s, t, a, k, r)
  <2>1. /\ s \in Seq(Nat) /\ a \in Nat /\ a <= Len(s) /\ k \in Nat /\ k <= Len(s) - a
        /\ r \in Seq(Nat) /\ t = Below(s, k) \o r
    BY <1>1, <1>2
  <2>2. QED BY ONLY <2>1, ReplaceOperands
<1>4. StackKept(a) BY <1>2, <1>3 DEF Replaced, StackKept
<1>5. PICK w : w = SubSeq(stack', a + 1, Len(stack')) OBVIOUS
<1>6. w = Abstract!Keep(v, k) \o r BY <1>1, <1>2, <1>3, <1>5 DEF Replaced
<1>7. Abstract!Put(Abstract!WithVals(w)) /\ Abstract!Proceed /\ Held'
  BY <1>4, <1>5, PutSame
<1>8. QED BY <1>6, <1>7

LEMMA EmptyConcat == ASSUME NEW s, s \in Seq(Nat) PROVE s \o << >> = s
OBVIOUS

LEMMA BelowNone ==
  ASSUME NEW s, s \in Seq(Nat) PROVE Below(s, 0) = s /\ Abstract!Keep(s, 0) = s
<1>1. SubSeq(s, 1, Len(s) - 0) = s OBVIOUS
<1>2. QED BY <1>1 DEF Below, Abstract!Keep

LEMMA Taking ==
  ASSUME ValInv, CtxInv, TypingInv, TypedCtx, Held, status = "running", Stepped,
         NEW g, NEW f, NEW T, NEW N, NEW p, NEW n, NEW base, NEW a, NEW L, NEW B, NEW v,
         Place(g, f, T, N, p, n, base, a, L, B, v),
         NEW k, k \in Nat, k <= sp - a, stack' = Below(stack, k)
  PROVE  Abstract!Put(Abstract!WithVals(Abstract!Keep(v, k))) /\ Abstract!Proceed /\ Held'
<1>1. /\ stack \in Seq(Nat) /\ sp = Len(stack) /\ sp \in Nat /\ a \in Nat /\ a <= sp
      /\ v \in Seq(Nat) /\ Len(v) = sp - a
  BY DEF Place, Standing
<1>2. k <= sp BY <1>1
<1>3. Below(stack, k) \in Seq(Nat) BY <1>1, <1>2, BelowNat
<1>4. Abstract!Keep(v, k) \in Seq(Nat)
  <2>1. k <= Len(v) BY <1>1
  <2>2. Below(v, k) \in Seq(Nat) BY <1>1, <2>1, BelowNat
  <2>3. QED BY <2>2 DEF Below, Abstract!Keep
<1>5. PICK r : r = << >> OBVIOUS
<1>6. r \in Seq(Nat) BY <1>5
<1>7. stack' = Below(stack, k) \o r BY <1>3, <1>5, EmptyConcat
<1>8. Abstract!Put(Abstract!WithVals(Abstract!Keep(v, k) \o r)) /\ Abstract!Proceed /\ Held'
  BY <1>6, <1>7, Replacing
<1>9. Abstract!Keep(v, k) \o r = Abstract!Keep(v, k) BY <1>4, <1>5, EmptyConcat
<1>10. QED BY <1>8, <1>9

LEMMA Pushing ==
  ASSUME ValInv, CtxInv, TypingInv, TypedCtx, Held, status = "running", Stepped,
         NEW g, NEW f, NEW T, NEW N, NEW p, NEW n, NEW base, NEW a, NEW L, NEW B, NEW v,
         Place(g, f, T, N, p, n, base, a, L, B, v),
         NEW r, r \in Seq(Nat), stack' = stack \o r
  PROVE  Abstract!Put(Abstract!WithVals(v \o r)) /\ Abstract!Proceed /\ Held'
<1>1. /\ stack \in Seq(Nat) /\ sp = Len(stack) /\ sp \in Nat /\ a \in Nat /\ a <= sp
      /\ v \in Seq(Nat)
  BY DEF Place, Standing
<1>2. Below(stack, 0) = stack /\ Abstract!Keep(v, 0) = v BY <1>1, BelowNone
<1>3. PICK k : k = 0 OBVIOUS
<1>4. k \in Nat /\ k <= sp - a BY <1>1, <1>3
<1>5. stack' = Below(stack, k) \o r BY <1>2, <1>3
<1>6. Abstract!Put(Abstract!WithVals(Abstract!Keep(v, k) \o r)) /\ Abstract!Proceed /\ Held'
  BY <1>4, <1>5, Replacing
<1>7. QED BY <1>2, <1>3, <1>6

\* Slot lo + i between lo and hi is x, the others are what they were.
WrittenAt(s, t, lo, hi, i, x) ==
  /\ s \in Seq(Nat) /\ t \in Seq(Nat) /\ lo \in Nat /\ hi \in Nat /\ lo <= hi
  /\ hi <= Len(s) /\ hi <= Len(t) /\ i \in 1..(hi - lo) /\ t[lo + i] = x
  /\ \A j \in (lo + 1)..hi : j # lo + i => t[j] = s[j]

LEMMA LocalWritten ==
  ASSUME NEW s, NEW t, NEW lo, NEW hi, NEW i, NEW x, WrittenAt(s, t, lo, hi, i, x)
  PROVE  Slice(t, lo, hi) = [Slice(s, lo, hi) EXCEPT ![i] = x]
<1>1. /\ s \in Seq(Nat) /\ t \in Seq(Nat) /\ lo \in Nat /\ hi \in Nat /\ lo <= hi
      /\ hi <= Len(s) /\ hi <= Len(t) /\ i \in 1..(hi - lo) /\ t[lo + i] = x
      /\ \A j \in (lo + 1)..hi : j # lo + i => t[j] = s[j]
  BY DEF WrittenAt
<1>2. PICK m, u, w : m = hi - lo /\ u = Slice(s, lo, hi) /\ w = Slice(t, lo, hi) OBVIOUS
<1>3. u \in Seq(Nat) /\ Len(u) = m /\ \A j \in 1..m : u[j] = s[lo + j]
  <2>1. /\ SubSeq(s, lo + 1, hi) \in Seq(Nat) /\ Len(SubSeq(s, lo + 1, hi)) = hi - lo
        /\ \A j \in 1..(hi - lo) : SubSeq(s, lo + 1, hi)[j] = s[lo + j]
    BY ONLY <1>1, SliceFacts
  <2>2. QED BY <1>2, <2>1 DEF Slice
<1>4. w \in Seq(Nat) /\ Len(w) = m /\ \A j \in 1..m : w[j] = t[lo + j]
  <2>1. /\ SubSeq(t, lo + 1, hi) \in Seq(Nat) /\ Len(SubSeq(t, lo + 1, hi)) = hi - lo
        /\ \A j \in 1..(hi - lo) : SubSeq(t, lo + 1, hi)[j] = t[lo + j]
    BY ONLY <1>1, SliceFacts
  <2>2. QED BY <1>2, <2>1 DEF Slice
<1>5. m \in Nat /\ i \in 1..m BY <1>1, <1>2
<1>6. w[i] = x BY <1>1, <1>4, <1>5
<1>7. ASSUME NEW j \in 1..m, j # i PROVE w[j] = u[j]
  <2>1. lo + j \in (lo + 1)..hi /\ lo + j # lo + i BY <1>1, <1>2, <1>5, <1>7
  <2>2. t[lo + j] = s[lo + j] BY <1>1, <2>1
  <2>3. QED BY <1>3, <1>4, <2>2
<1>8. u = [j \in 1..m |-> u[j]] /\ w = [j \in 1..m |-> w[j]] BY <1>3, <1>4
<1>9. w = [u EXCEPT ![i] = x] BY ONLY <1>5, <1>6, <1>7, <1>8, PutAt
<1>10. QED BY <1>2, <1>9

\* Local i becomes x and the k topmost slots go.
Writes(g, base, a, k, i, x) ==
  /\ k \in Nat /\ k <= sp - a /\ i \in 1..(base - g.locals) /\ Len(stack') = sp - k
  /\ \A j \in 1..(sp - k) : stack'[j] = IF j = g.locals + i THEN x ELSE stack[j]

LEMMA Writing ==
  ASSUME ValInv, CtxInv, TypingInv, TypedCtx, Held, status = "running", Stepped,
         NEW g, NEW f, NEW T, NEW N, NEW p, NEW n, NEW base, NEW a, NEW L, NEW B, NEW v,
         Place(g, f, T, N, p, n, base, a, L, B, v),
         NEW k, NEW x, NEW i, Writes(g, base, a, k, i, x),
         NEW w, w = Abstract!Keep(v, k)
  PROVE  /\ Abstract!Put([Abstract!WithVals(w) EXCEPT !.locals[i] = x])
         /\ Abstract!Proceed /\ Held'
<1>1. /\ base \in Nat /\ g.locals \in Nat /\ g.locals <= base /\ a \in Nat /\ base <= a
      /\ stack \in Seq(Nat) /\ sp = Len(stack) /\ sp \in Nat /\ a <= sp
      /\ L = SubSeq(stack, g.locals + 1, base) /\ v = SubSeq(stack, a + 1, sp)
      /\ Seen(f, p, L, B, n, v)
  BY DEF Place, Standing
<1>2. /\ k \in Nat /\ k <= sp - a /\ i \in 1..(base - g.locals) /\ Len(stack') = sp - k
      /\ \A j \in 1..(sp - k) : stack'[j] = IF j = g.locals + i THEN x ELSE stack[j]
  BY DEF Writes
<1>3. stack' \in Seq(Nat) BY DEF Stepped
<1>4. PICK l, s, t, m, e : l = g.locals /\ s = stack /\ t = stack' /\ m = sp /\ e = m - k
  OBVIOUS
<1>5. /\ l \in Nat /\ l <= base /\ base \in Nat /\ a \in Nat /\ base <= a /\ m \in Nat
      /\ a <= m /\ k \in Nat /\ k <= m - a /\ i \in 1..(base - l)
  BY <1>1, <1>2, <1>4
<1>6. e \in Nat /\ a <= e /\ e <= m /\ base <= e BY <1>4, <1>5
<1>7. Len(s) = m /\ Len(t) = e /\ s \in Seq(Nat) /\ t \in Seq(Nat)
      /\ \A j \in 1..e : t[j] = IF j = l + i THEN x ELSE s[j]
  BY <1>1, <1>2, <1>3, <1>4
<1>8. /\ \A j \in 1..l : j \in 1..e /\ j # l + i
      /\ \A j \in (base + 1)..a : j \in 1..e /\ j # l + i
      /\ \A j \in (a + 1)..e : j \in 1..e /\ j # l + i
      /\ \A j \in (l + 1)..base : j \in 1..e
      /\ l + i \in 1..e
  BY ONLY <1>5, <1>6
<1>9. Inside(g, base, a) BY <1>4, <1>6, <1>7, <1>8 DEF Inside
<1>10. SubSeq(stack', g.locals + 1, base) = [L EXCEPT ![i] = x]
  <2>1. WrittenAt(s, t, l, base, i, x)
    <3>1. base <= Len(s) /\ base <= Len(t) BY <1>5, <1>6, <1>7
    <3>2. t[l + i] = x BY <1>7, <1>8
    <3>3. \A j \in (l + 1)..base : j # l + i => t[j] = s[j] BY <1>7, <1>8
    <3>4. QED BY <1>5, <1>7, <3>1, <3>2, <3>3 DEF WrittenAt
  <2>2. Slice(t, l, base) = [Slice(s, l, base) EXCEPT ![i] = x] BY ONLY <2>1, LocalWritten
  <2>3. QED BY <1>1, <1>4, <2>2 DEF Slice
<1>11. SubSeq(stack', a + 1, Len(stack')) = w
  <2>1. Parts(s, a, m, k, e) BY <1>4, <1>5, <1>7 DEF Parts
  <2>2. Abstract!Keep(Slice(s, a, m), k) = Slice(s, a, e) BY ONLY <2>1, KeepSlice
  <2>3. Alike(s, t, a, e)
    <3>1. \A j \in (a + 1)..e : t[j] = s[j] BY <1>7, <1>8
    <3>2. QED BY <1>5, <1>6, <1>7, <3>1 DEF Alike
  <2>4. Slice(t, a, e) = Slice(s, a, e) BY <2>3, SliceAlike
  <2>5. QED BY <1>1, <1>4, <1>7, <2>2, <2>4 DEF Slice
<1>12. TopIs(Act(f, p + 1, SubSeq(stack', g.locals + 1, base),
                 BlocksFilled(B, n, stack', a, Len(stack'))))
  BY <1>9, PutVals
<1>13. PICK C, q, M : C = [B EXCEPT ![n].vals = w] /\ q = p + 1 /\ M = [L EXCEPT ![i] = x]
  OBVIOUS
<1>14. TopIs(Act(f, q, M, C)) BY <1>10, <1>11, <1>12, <1>13 DEF BlocksFilled
<1>15. Abstract!WithVals(w) = Act(f, q, L, C)
  <2>1. Seen(f, p, L, B, n, v) BY <1>1
  <2>2. Abstract!WithVals(w) = Act(f, p + 1, L, [B EXCEPT ![n].vals = w])
    BY ONLY <2>1, WithValsIs
  <2>3. QED BY <1>13, <2>2
<1>16. [Abstract!WithVals(w) EXCEPT !.locals[i] = x] = Act(f, q, M, C)
  <2>1. PICK A : A = Abstract!WithVals(w) OBVIOUS
  <2>2. A = Act(f, q, L, C) BY <1>15, <2>1
  <2>3. [A EXCEPT !.locals[i] = x] = Act(f, q, M, C) BY ONLY <1>13, <2>2 DEF Act
  <2>4. QED BY <2>1, <2>3
<1>17. Abstract!depth = Len(call_stack) BY <1>1 DEF Seen
<1>18. QED BY <1>14, <1>16, <1>17 DEF TopIs, Abstract!Put

LEMMA OperandRoom ==
  ASSUME ValInv, CtxInv, TypingInv, TypedCtx, Operand,
         NEW g, NEW f, NEW T, NEW N, NEW p, NEW n, NEW base, NEW a, NEW L, NEW B, NEW v,
         Place(g, f, T, N, p, n, base, a, L, B, v)
  PROVE  /\ status = "running" /\ Stepped /\ instr \in Instructions
         /\ instr.op \in {"nop", "const", "unary", "binary", "drop", "select", "store",
                          "local_get", "local_set", "local_tee"}
         /\ Effect[instr.op][1] <= Len(v) /\ Len(v) = sp - a
         /\ stack \in Seq(Nat) /\ a \in Nat /\ a <= sp /\ sp = Len(stack) /\ sp \in Nat
         /\ Seen(f, p, L, B, n, v) /\ v = SubSeq(stack, a + 1, sp) /\ v \in Seq(Nat)
         /\ base \in Nat /\ base <= a /\ g = frame /\ g.locals \in Nat /\ g.locals <= base
         /\ L = SubSeq(stack, g.locals + 1, base) /\ base = Base(functions, frame)
<1>1. /\ status = "running" /\ instr.op \in SimpleOps
      /\ UNCHANGED <<valVars, call_stack, status>> /\ Step(regs.label_top)
  BY DEF Operand, Running, instr
<1>2. instr.op \in {"nop", "const", "unary", "binary", "drop", "select", "store",
                    "local_get", "local_set", "local_tee"}
  BY <1>1 DEF SimpleOps, Operands
<1>3. stack' \in Seq(Nat) /\ instr.op \in DOMAIN Effect BY OperandStack
<1>4. Standing(g, f, T, N, p, n, base) BY DEF Place
<1>5. /\ instr \in Instructions /\ Checks(T[p], T[p + 1], instr, Signatures)
      /\ ~InnerCtrl(T[p]).dead /\ T[p].h = sp - base /\ InnerCtrl(T[p]).height \in Nat
  BY <1>4 DEF Standing
<1>6. Effect[instr.op][1] <= T[p].h - InnerCtrl(T[p]).height
  BY <1>3, <1>5 DEF Checks, Moves
<1>7. /\ stack \in Seq(Nat) /\ a \in Nat /\ a <= sp /\ sp = Len(stack) /\ sp \in Nat
      /\ a = base + InnerCtrl(T[p]).height /\ base \in Nat /\ Len(v) = sp - a
      /\ Seen(f, p, L, B, n, v) /\ v = SubSeq(stack, a + 1, sp) /\ v \in Seq(Nat)
      /\ base <= a /\ g = frame /\ g.locals \in Nat /\ g.locals <= base
      /\ L = SubSeq(stack, g.locals + 1, base) /\ base = Base(functions, frame)
  BY DEF Place, Standing
<1>8. Effect[instr.op][1] <= Len(v)
  <2>1. PICK x, y, z : x = Effect[instr.op][1] /\ y = InnerCtrl(T[p]).height /\ z = sp OBVIOUS
  <2>2. x <= (z - base) - y /\ a = base + y /\ z \in Nat /\ base \in Nat /\ y \in Nat
        /\ Len(v) = z - a
    BY <1>5, <1>6, <1>7, <2>1
  <2>3. x \in Nat BY <1>3, <2>1, EffectOps
  <2>4. x <= Len(v) BY ONLY <2>2, <2>3
  <2>5. QED BY <2>1, <2>4
<1>9. Stepped BY <1>1, <1>3 DEF Stepped
<1>10. QED BY <1>1, <1>2, <1>5, <1>7, <1>8, <1>9

LEMMA SeesOperands ==
  ASSUME NEW f, NEW p, NEW L, NEW B, NEW n, NEW v, Seen(f, p, L, B, n, v)
  PROVE  /\ Abstract!vals = v /\ Abstract!ins = instr /\ Abstract!cur.locals = L
         /\ \A ops : Abstract!Executing(ops) <=> instr.op \in ops
         /\ \A k : Abstract!Has(k) <=> Len(v) >= k
<1>1. /\ Abstract!vals = v /\ Abstract!ins = instr /\ Abstract!cur = Act(f, p, L, B)
      /\ \A ops : Abstract!Executing(ops) <=> instr.op \in ops
  BY DEF Seen
<1>2. Abstract!cur.locals = L BY <1>1 DEF Act
<1>3. \A k : Abstract!Has(k) <=> Len(v) >= k BY <1>1 DEF Abstract!Has
<1>4. QED BY <1>1, <1>2, <1>3

LEMMA LocalRead ==
  ASSUME ValInv, CtxInv, TypingInv, TypedCtx, Operand, instr.op \in LocalOps
  PROVE  /\ instr.local + 1 \in 1..(Base(functions, frame) - frame.locals)
         /\ LocalSlot(instr.local) = frame.locals + (instr.local + 1)
         /\ LocalSlot(instr.local) \in 1..Base(functions, frame)
         /\ SubSeq(stack, frame.locals + 1, Base(functions, frame))[instr.local + 1] =
              stack[LocalSlot(instr.local)]
         /\ stack[LocalSlot(instr.local)] \in Nat
<1>1. Running(SimpleOps) /\ status = "running" BY DEF Operand, Running
<1>2. LocalSlot(instr.local) \in Nat /\ LocalSlot(instr.local) <= Base(functions, frame)
  BY <1>1, LocalSlots
<1>3. PICK g, f, T, N, p, n, base : Standing(g, f, T, N, p, n, base) BY <1>1, Here
<1>4. /\ g = frame /\ base = Base(functions, frame) /\ base \in Nat /\ frame.locals \in Nat
      /\ frame.locals <= base /\ base <= sp /\ stack \in Seq(Nat) /\ sp = Len(stack)
      /\ sp \in Nat /\ instr \in Instructions
  BY <1>3 DEF Standing
<1>5. instr.local \in Nat BY <1>4, InstructionTypes DEF LocalOps
<1>6. PICK l, i, s, m : l = frame.locals /\ i = instr.local + 1 /\ s = stack /\ m = l + i
  OBVIOUS
<1>7. LocalSlot(instr.local) = m
  <2>1. LocalSlot(instr.local) = l + instr.local + 1 BY <1>6 DEF LocalSlot
  <2>2. PICK y : y = instr.local OBVIOUS
  <2>3. LocalSlot(instr.local) = l + y + 1 /\ i = y + 1 /\ y \in Nat /\ l \in Nat
    BY <1>4, <1>5, <1>6, <2>1, <2>2
  <2>4. l + y + 1 = l + i BY ONLY <2>3
  <2>5. QED BY <1>6, <2>3, <2>4
<1>8. /\ l \in Nat /\ i \in Nat /\ i >= 1 /\ m = l + i /\ m <= base /\ base \in Nat
      /\ l <= base /\ base <= Len(s) /\ s \in Seq(Nat)
  BY <1>2, <1>4, <1>5, <1>6, <1>7
<1>9. i \in 1..(base - l) /\ m \in 1..base /\ m \in 1..Len(s) BY <1>8
<1>10. SubSeq(s, l + 1, base)[i] = s[l + i]
  <2>1. \A j \in 1..(base - l) : SubSeq(s, l + 1, base)[j] = s[l + j]
    BY ONLY <1>8, SliceFacts
  <2>2. QED BY <1>9, <2>1
<1>11. s[m] \in Nat BY <1>8, <1>9
<1>12. QED BY <1>4, <1>6, <1>7, <1>8, <1>9, <1>10, <1>11

LEMMA OperationMoves ==
  ASSUME ValInv, CtxInv, TypingInv, TypedCtx, Held, Operand,
         instr.op \in {"nop", "const", "drop", "store", "local_get"}
  PROVE  Abstract!Operation /\ Held'
<1>1. PICK g, f, T, N, p, n, base, a, L, B, v : Place(g, f, T, N, p, n, base, a, L, B, v)
  BY PlaceHere DEF Operand, Running
<1>2. /\ status = "running" /\ Stepped /\ instr \in Instructions
      /\ Effect[instr.op][1] <= Len(v) /\ Len(v) = sp - a
      /\ stack \in Seq(Nat) /\ a \in Nat /\ a <= sp /\ sp = Len(stack) /\ sp \in Nat
      /\ Seen(f, p, L, B, n, v) /\ v = SubSeq(stack, a + 1, sp) /\ v \in Seq(Nat)
      /\ L = SubSeq(stack, g.locals + 1, base) /\ g = frame /\ base = Base(functions, frame)
  BY <1>1, OperandRoom
<1>3. /\ Abstract!vals = v /\ Abstract!ins = instr /\ Abstract!cur.locals = L
      /\ \A ops : Abstract!Executing(ops) <=> instr.op \in ops
      /\ \A k : Abstract!Has(k) <=> Len(v) >= k
  BY <1>2, SeesOperands
<1>4. CASE instr.op = "nop"
  <2>1. PICK r : r = << >> OBVIOUS
  <2>2. r \in Seq(Nat) /\ stack' = stack BY <1>4, <2>1 DEF Operand
  <2>3. stack' = stack \o r BY <1>2, <2>1, <2>2, EmptyConcat
  <2>4. Abstract!Put(Abstract!WithVals(v \o r)) /\ Abstract!Proceed /\ Held'
    BY <1>1, <1>2, <2>2, <2>3, Pushing
  <2>5. v \o r = v BY <1>2, <2>1, EmptyConcat
  <2>6. QED BY <1>3, <1>4, <2>4, <2>5 DEF Abstract!Operation
<1>5. CASE instr.op = "const"
  <2>1. PICK x, r : x = instr.value /\ r = <<x>> OBVIOUS
  <2>2. x \in Nat BY <1>2, <1>5, <2>1, SlotValues
  <2>3. r \in Seq(Nat) /\ Append(stack, x) = stack \o r /\ Append(v, x) = v \o r
    BY <1>2, <2>1, <2>2, AppendIs
  <2>4. stack' = stack \o r BY <1>5, <2>1, <2>3 DEF Operand
  <2>5. Abstract!Put(Abstract!WithVals(v \o r)) /\ Abstract!Proceed /\ Held'
    BY <1>1, <1>2, <2>3, <2>4, Pushing
  <2>6. Abstract!Put(Abstract!WithVals(Append(Abstract!vals, Abstract!ins.value)))
    BY <1>3, <2>1, <2>3, <2>5
  <2>7. QED BY <1>3, <1>5, <2>5, <2>6 DEF Abstract!Operation
<1>6. CASE instr.op = "drop"
  <2>1. PICK k : k = 1 OBVIOUS
  <2>2. k \in Nat /\ k <= Len(v) /\ k <= sp - a BY <1>2, <1>6, <2>1 DEF Effect
  <2>3. stack' = Below(stack, k) BY <1>6, <2>1 DEF Operand
  <2>4. Abstract!Put(Abstract!WithVals(Abstract!Keep(v, k))) /\ Abstract!Proceed /\ Held'
    BY <1>1, <1>2, <2>2, <2>3, Taking
  <2>5. Abstract!Has(1) BY <1>3, <2>1, <2>2
  <2>6. QED BY <1>3, <1>6, <2>1, <2>4, <2>5 DEF Abstract!Operation
<1>7. CASE instr.op = "store"
  <2>1. PICK k : k = 2 OBVIOUS
  <2>2. k \in Nat /\ k <= Len(v) /\ k <= sp - a BY <1>2, <1>7, <2>1 DEF Effect
  <2>3. stack' = Below(stack, k) BY <1>7, <2>1 DEF Operand
  <2>4. Abstract!Put(Abstract!WithVals(Abstract!Keep(v, k))) /\ Abstract!Proceed /\ Held'
    BY <1>1, <1>2, <2>2, <2>3, Taking
  <2>5. Abstract!Has(2) BY <1>3, <2>1, <2>2
  <2>6. QED BY <1>3, <1>7, <2>1, <2>4, <2>5 DEF Abstract!Operation
<1>8. CASE instr.op = "local_get"
  <2>1. PICK x, r : x = stack[LocalSlot(instr.local)] /\ r = <<x>> OBVIOUS
  <2>2. x \in Nat /\ L[instr.local + 1] = x BY <1>2, <1>8, <2>1, LocalRead DEF LocalOps
  <2>3. r \in Seq(Nat) /\ Append(stack, x) = stack \o r /\ Append(v, x) = v \o r
    BY <1>2, <2>1, <2>2, AppendIs
  <2>4. stack' = stack \o r BY <1>8, <2>1, <2>3 DEF Operand
  <2>5. Abstract!Put(Abstract!WithVals(v \o r)) /\ Abstract!Proceed /\ Held'
    BY <1>1, <1>2, <2>3, <2>4, Pushing
  <2>6. Abstract!Put(Abstract!WithVals(Append(Abstract!vals,
          Abstract!cur.locals[Abstract!ins.local + 1])))
    BY <1>3, <2>2, <2>3, <2>5
  <2>7. QED BY <1>3, <1>8, <2>5, <2>6 DEF Abstract!Operation
<1>9. QED BY <1>4, <1>5, <1>6, <1>7, <1>8

LEMMA OperandPut ==
  ASSUME ValInv, CtxInv, TypingInv, TypedCtx, Held, Operand,
         NEW g, NEW f, NEW T, NEW N, NEW p, NEW n, NEW base, NEW a, NEW L, NEW B, NEW v,
         Place(g, f, T, N, p, n, base, a, L, B, v),
         NEW k, k \in Nat, k <= Len(v), NEW x, x \in Nat,
         stack' = Append(Below(stack, k), x)
  PROVE  /\ Abstract!Put(Abstract!WithVals(Abstract!Keep(v, k) \o <<x>>))
         /\ Abstract!Proceed /\ Held'
<1>1. /\ status = "running" /\ Stepped /\ Len(v) = sp - a /\ stack \in Seq(Nat)
      /\ a \in Nat /\ a <= sp /\ sp = Len(stack) /\ sp \in Nat
  BY OperandRoom
<1>2. PICK r, s : r = <<x>> /\ s = Below(stack, k) OBVIOUS
<1>3. k <= sp - a /\ k <= sp BY <1>1
<1>4. s \in Seq(Nat) BY <1>1, <1>2, <1>3, BelowNat
<1>5. Append(s, x) = s \o r /\ r \in Seq(Nat) BY <1>2, <1>4, AppendIs
<1>6. stack' = Below(stack, k) \o r BY <1>2, <1>5
<1>7. Abstract!Put(Abstract!WithVals(Abstract!Keep(v, k) \o r)) /\ Abstract!Proceed /\ Held'
  BY <1>1, <1>3, <1>5, <1>6, Replacing
<1>8. QED BY <1>2, <1>7

\* The three topmost operands, where there are as many.
TopsAre(s, a, v, m) ==
  /\ m - a >= 1 => v[Len(v)] = s[m] /\ s[m] \in Nat
  /\ m - a >= 2 => v[Len(v) - 1] = s[m - 1] /\ s[m - 1] \in Nat
  /\ m - a >= 3 => v[Len(v) - 2] = s[m - 2] /\ s[m - 2] \in Nat

LEMMA OperandTops ==
  ASSUME NEW s, s \in Seq(Nat), NEW a, a \in Nat, NEW m, m = Len(s), a <= m,
         NEW v, v = SubSeq(s, a + 1, m)
  PROVE  TopsAre(s, a, v, m)
<1>1. /\ SubSeq(s, a + 1, m) \in Seq(Nat) /\ Len(SubSeq(s, a + 1, m)) = m - a
      /\ \A i \in 1..(m - a) : SubSeq(s, a + 1, m)[i] = s[a + i]
  <2>1. m \in Nat /\ m <= Len(s) OBVIOUS
  <2>2. QED BY <2>1, SliceFacts
<1>2. PICK c : c = m - a OBVIOUS
<1>3. c \in Nat /\ m = a + c /\ m \in Nat BY <1>2
<1>4. Len(v) = c /\ \A i \in 1..c : v[i] = s[a + i] BY <1>1, <1>2
<1>5. ASSUME NEW j \in Nat, c >= j + 1 PROVE v[c - j] = s[m - j] /\ s[m - j] \in Nat
  <2>1. c - j \in 1..c /\ a + (c - j) = m - j /\ m - j \in 1..m BY <1>3, <1>5
  <2>2. \A i \in 1..m : s[i] \in Nat OBVIOUS
  <2>3. QED BY <1>4, <2>1, <2>2
<1>6. c - 0 = c /\ m - 0 = m BY <1>3
<1>7. /\ c >= 1 => v[c] = s[m] /\ s[m] \in Nat
      /\ c >= 2 => v[c - 1] = s[m - 1] /\ s[m - 1] \in Nat
      /\ c >= 3 => v[c - 2] = s[m - 2] /\ s[m - 2] \in Nat
  <2>1. c >= 0 + 1 => v[c - 0] = s[m - 0] /\ s[m - 0] \in Nat BY <1>5
  <2>2. c >= 1 + 1 => v[c - 1] = s[m - 1] /\ s[m - 1] \in Nat BY <1>5
  <2>3. c >= 2 + 1 => v[c - 2] = s[m - 2] /\ s[m - 2] \in Nat BY <1>5
  <2>4. QED BY <1>3, <1>6, <2>1, <2>2, <2>3
<1>8. QED BY <1>2, <1>4, <1>7 DEF TopsAre

LEMMA SubtractIs ==
  ASSUME NEW a, NEW b PROVE Subtract(a, b) = (a - b) % Abstract!Cardinality(Values)
<1>1. Abstract!Cardinality(Values) = Cardinality(Values) BY CardinalSame
<1>2. QED BY <1>1 DEF Subtract

LEMMA OperationPuts ==
  ASSUME ValInv, CtxInv, TypingInv, TypedCtx, Held, Operand,
         instr.op \in {"unary", "binary", "select"}
  PROVE  Abstract!Operation /\ Held'
<1>1. PICK g, f, T, N, p, n, base, a, L, B, v : Place(g, f, T, N, p, n, base, a, L, B, v)
  BY PlaceHere DEF Operand, Running
<1>2. /\ status = "running" /\ Effect[instr.op][1] <= Len(v) /\ Len(v) = sp - a
      /\ stack \in Seq(Nat) /\ a \in Nat /\ a <= sp /\ sp = Len(stack) /\ sp \in Nat
      /\ Seen(f, p, L, B, n, v) /\ v = SubSeq(stack, a + 1, sp) /\ v \in Seq(Nat)
  BY <1>1, OperandRoom
<1>3. /\ Abstract!vals = v /\ \A ops : Abstract!Executing(ops) <=> instr.op \in ops
      /\ \A k : Abstract!Has(k) <=> Len(v) >= k
  BY <1>2, SeesOperands
<1>4. TopsAre(stack, a, v, sp) BY <1>2, OperandTops
<1>5. PICK c, m : c = Len(v) /\ m = sp OBVIOUS
<1>6. c = m - a /\ c \in Nat /\ m \in Nat /\ a \in Nat BY <1>2, <1>5
<1>7. /\ c >= 1 => v[c] = stack[m] /\ stack[m] \in Nat
      /\ c >= 2 => v[c - 1] = stack[m - 1] /\ stack[m - 1] \in Nat
      /\ c >= 3 => v[c - 2] = stack[m - 2] /\ stack[m - 2] \in Nat
  BY <1>4, <1>5, <1>6 DEF TopsAre
<1>8. CASE instr.op = "unary"
  <2>1. PICK k, x : k = 1 /\ x = (IF v[c] = 0 THEN 1 ELSE 0) OBVIOUS
  <2>2. k \in Nat /\ k <= Len(v) /\ c >= 1 BY <1>2, <1>5, <1>8, <2>1 DEF Effect
  <2>3. x \in Nat BY <2>1
  <2>4. x = Bool(stack[sp] = 0) BY <1>5, <1>7, <2>1, <2>2 DEF Bool
  <2>5. stack' = Append(Below(stack, k), x) BY <1>8, <2>1, <2>4 DEF Operand
  <2>6. Abstract!Put(Abstract!WithVals(Abstract!Keep(v, k) \o <<x>>))
        /\ Abstract!Proceed /\ Held'
    BY <1>1, <2>2, <2>3, <2>5, OperandPut
  <2>7. Abstract!Has(1) BY <1>3, <2>1, <2>2
  <2>8. QED BY <1>3, <1>5, <1>8, <2>1, <2>6, <2>7 DEF Abstract!Operation
<1>9. CASE instr.op = "binary"
  <2>1. PICK k, x : k = 2 /\ x = (v[c - 1] - v[c]) % Abstract!Cardinality(Values) OBVIOUS
  <2>2. k \in Nat /\ k <= Len(v) /\ c >= 1 /\ c >= 2
    BY <1>2, <1>5, <1>6, <1>9, <2>1 DEF Effect
  <2>3. v[c] = stack[m] /\ v[c - 1] = stack[m - 1] /\ v[c] \in Nat /\ v[c - 1] \in Nat
    BY <1>7, <2>2
  <2>4. x = Subtract(v[c - 1], v[c]) BY <2>1, SubtractIs
  <2>5. x \in Nat BY <2>3, <2>4, SubtractNat
  <2>6. stack' = Append(Below(stack, k), x)
    BY <1>5, <1>9, <2>1, <2>3, <2>4 DEF Operand
  <2>7. Abstract!Put(Abstract!WithVals(Abstract!Keep(v, k) \o <<x>>))
        /\ Abstract!Proceed /\ Held'
    BY <1>1, <2>2, <2>5, <2>6, OperandPut
  <2>8. Abstract!Has(2) BY <1>3, <2>1, <2>2
  <2>9. Abstract!Put(Abstract!WithVals(Abstract!Keep(Abstract!vals, 2) \o
          <<(Abstract!vals[Len(Abstract!vals) - 1] - Abstract!vals[Len(Abstract!vals)])
              % Abstract!Cardinality(Values)>>))
    BY <1>3, <1>5, <2>1, <2>7
  <2>10. QED BY <1>3, <1>9, <2>7, <2>8, <2>9 DEF Abstract!Operation
<1>10. CASE instr.op = "select"
  <2>1. PICK k, x : k = 3 /\ x = v[c - (IF v[c] = 0 THEN 1 ELSE 2)] OBVIOUS
  <2>2. k \in Nat /\ k <= Len(v) /\ c >= 1 /\ c >= 2 /\ c >= 3
    BY <1>2, <1>5, <1>6, <1>10, <2>1 DEF Effect
  <2>3. /\ v[c] = stack[m] /\ v[c - 1] = stack[m - 1] /\ v[c - 2] = stack[m - 2]
        /\ v[c - 1] \in Nat /\ v[c - 2] \in Nat
    BY <1>7, <2>2
  <2>4. x \in Nat /\ x = stack[IF stack[m] # 0 THEN m - 2 ELSE m - 1]
    <3>1. CASE v[c] = 0 BY <2>1, <2>3, <3>1
    <3>2. CASE v[c] # 0 BY <2>1, <2>3, <3>2
    <3>3. QED BY <3>1, <3>2
  <2>5. stack' = Append(Below(stack, k), x) BY <1>5, <1>10, <2>1, <2>4 DEF Operand
  <2>6. Abstract!Put(Abstract!WithVals(Abstract!Keep(v, k) \o <<x>>))
        /\ Abstract!Proceed /\ Held'
    BY <1>1, <2>2, <2>4, <2>5, OperandPut
  <2>7. Abstract!Has(3) BY <1>3, <2>1, <2>2
  <2>8. QED BY <1>3, <1>5, <1>10, <2>1, <2>6, <2>7 DEF Abstract!Operation
<1>11. QED BY <1>8, <1>9, <1>10

LEMMA OperationWrites ==
  ASSUME ValInv, CtxInv, TypingInv, TypedCtx, Held, Operand,
         instr.op \in {"local_set", "local_tee"}
  PROVE  Abstract!Operation /\ Held'
<1>1. PICK g, f, T, N, p, n, base, a, L, B, v : Place(g, f, T, N, p, n, base, a, L, B, v)
  BY PlaceHere DEF Operand, Running
<1>2. /\ status = "running" /\ Stepped /\ Effect[instr.op][1] <= Len(v) /\ Len(v) = sp - a
      /\ stack \in Seq(Nat) /\ a \in Nat /\ a <= sp /\ sp = Len(stack) /\ sp \in Nat
      /\ Seen(f, p, L, B, n, v) /\ v = SubSeq(stack, a + 1, sp) /\ v \in Seq(Nat)
      /\ base \in Nat /\ base <= a /\ g = frame /\ base = Base(functions, frame)
  BY <1>1, OperandRoom
<1>3. /\ Abstract!vals = v /\ Abstract!ins = instr
      /\ \A ops : Abstract!Executing(ops) <=> instr.op \in ops
      /\ \A k : Abstract!Has(k) <=> Len(v) >= k
  BY <1>2, SeesOperands
<1>4. TopsAre(stack, a, v, sp) BY <1>2, OperandTops
<1>5. PICK i, x, j, m, s, l : /\ i = instr.local + 1 /\ x = v[Len(v)]
                              /\ j = LocalSlot(instr.local) /\ m = sp /\ s = stack
                              /\ l = g.locals
  OBVIOUS
<1>6. i \in 1..(base - l) /\ j = l + i /\ j \in 1..base
  BY <1>2, <1>5, LocalRead DEF LocalOps
<1>7. Len(v) >= 1 /\ x = s[m] /\ x \in Nat
  <2>1. Len(v) >= 1 BY <1>2 DEF Effect
  <2>2. sp - a >= 1 BY <1>2, <2>1
  <2>3. QED BY <1>4, <1>5, <2>1, <2>2 DEF TopsAre
<1>8. s \in Seq(Nat) /\ Len(s) = m /\ m \in Nat /\ j \in 1..m BY <1>2, <1>5, <1>6
<1>9. PICK t : t = [s EXCEPT ![j] = x] OBVIOUS
<1>10. t \in Seq(Nat) /\ Len(t) = m /\ \A y \in 1..m : t[y] = IF y = j THEN x ELSE s[y]
  BY <1>7, <1>8, <1>9
<1>11. CASE instr.op = "local_set"
  <2>1. PICK k, w : k = 1 /\ w = Abstract!Keep(v, k) OBVIOUS
  <2>2. stack' = Below(t, k) BY <1>5, <1>7, <1>9, <1>11, <2>1 DEF Operand
  <2>3. k \in Nat /\ k <= m /\ k <= m - a BY <1>2, <1>5, <1>7, <2>1
  <2>4. Len(stack') = m - k BY <1>10, <2>2, <2>3, BelowNat
  <2>5. \A y \in 1..(m - k) : stack'[y] = t[y] BY <1>10, <2>2, <2>3, BelowSlice
  <2>6. \A y \in 1..(m - k) : y \in 1..m BY ONLY <2>3, <1>8
  <2>7. \A y \in 1..(m - k) : stack'[y] = IF y = l + i THEN x ELSE s[y]
    BY <1>6, <1>10, <2>5, <2>6
  <2>8. Writes(g, base, a, k, i, x) BY <1>5, <1>6, <2>3, <2>4, <2>7 DEF Writes
  <2>9. Abstract!Put([Abstract!WithVals(w) EXCEPT !.locals[i] = x])
        /\ Abstract!Proceed /\ Held'
    BY <1>1, <1>2, <2>1, <2>8, Writing
  <2>10. Abstract!Has(1) BY <1>3, <1>7
  <2>11. QED BY <1>3, <1>5, <1>11, <2>1, <2>9, <2>10 DEF Abstract!Operation
<1>12. CASE instr.op = "local_tee"
  <2>1. PICK k, w : k = 0 /\ w = Abstract!Keep(v, k) OBVIOUS
  <2>2. stack' = t BY <1>5, <1>7, <1>9, <1>12 DEF Operand
  <2>3. k \in Nat /\ k <= m - a /\ m - k = m BY <1>2, <1>5, <2>1
  <2>4. w = v BY <1>2, <2>1, BelowNone
  <2>5. Writes(g, base, a, k, i, x) BY <1>5, <1>6, <1>10, <2>2, <2>3 DEF Writes
  <2>6. Abstract!Put([Abstract!WithVals(w) EXCEPT !.locals[i] = x])
        /\ Abstract!Proceed /\ Held'
    BY <1>1, <1>2, <2>1, <2>5, Writing
  <2>7. Abstract!Has(1) BY <1>3, <1>7
  <2>8. QED BY <1>3, <1>5, <1>12, <2>4, <2>6, <2>7 DEF Abstract!Operation
<1>13. QED BY <1>11, <1>12

LEMMA OperandImplements ==
  ASSUME ValInv, CtxInv, TypingInv, TypedCtx, Held, Operand
  PROVE  Abstract!Operation /\ Held'
<1>1. PICK g, f, T, N, p, n, base, a, L, B, v : Place(g, f, T, N, p, n, base, a, L, B, v)
  BY PlaceHere DEF Operand, Running
<1>2. instr.op \in {"nop", "const", "unary", "binary", "drop", "select", "store",
                    "local_get", "local_set", "local_tee"}
  BY <1>1, OperandRoom
<1>3. QED BY <1>2, OperationMoves, OperationPuts, OperationWrites

-----------------------------------------------------------------------------
(* The validator, the beginning and the end of an invocation *)

LEMMA ValidatorShape == ASSUME ValInv, ValidatorNext PROVE SameShape
<1>1. CASE EndBody
  <2>1. /\ functions \in Seq(Functions) /\ func_idx \in DOMAIN functions
        /\ functions[func_idx] \in Functions
    BY <1>1 DEF EndBody, ValInv, ValidatorTypeOK, Progress
  <2>2. PICK g, h, d : /\ g = [functions[func_idx] EXCEPT !.max_label_depth = scan.max_labels,
                                                         !.max_stack_depth = d]
                       /\ h = [g EXCEPT !.block_jump_table = scan.jumps]
                       /\ d = Larger(scan.max_depth, scan.depth)
    OBVIOUS
  <2>3. /\ \A e \in {g, h} : /\ e.kind = functions[func_idx].kind
                             /\ e.code = functions[func_idx].code
                             /\ e.params = functions[func_idx].params
                             /\ e.local_count = functions[func_idx].local_count
                             /\ e.results = functions[func_idx].results
    BY <2>1, <2>2 DEF Functions
  <2>4. \/ functions' = functions
        \/ \E e \in {g, h} : functions' = [functions EXCEPT ![func_idx] = e]
    BY <1>1, <2>2 DEF EndBody, Stop
  <2>5. CASE functions' = functions BY <2>5 DEF SameShape, SameCode
  <2>6. ASSUME NEW e \in {g, h}, functions' = [functions EXCEPT ![func_idx] = e]
        PROVE  SameShape
    <3>1. /\ DOMAIN functions' = DOMAIN functions
          /\ \A f \in DOMAIN functions :
               functions'[f] = IF f = func_idx THEN e ELSE functions[f]
      BY <2>6
    <3>2. QED BY <2>3, <2>6, <3>1 DEF SameShape, SameCode
  <2>7. QED BY <2>4, <2>5, <2>6
<1>2. CASE ~EndBody
  <2>1. functions' = functions
    BY <1>2 DEF ValidatorNext, SkipFunction, AllValidated, BeginBody, RejectInstruction,
       ScanBlock, ScanIf, ScanElse, ScanEnd, ScanJump, ScanCall, ScanCallIndirect,
       ScanOperands, Advance, Stop
  <2>2. QED BY <2>1 DEF SameShape, SameCode
<1>3. QED BY <1>1, <1>2

LEMMA ProgramSame == ASSUME SameShape PROVE Program' = Program
<1> DEFINE R(h) == [kind |-> h.kind, params |-> h.params, results |-> h.results,
                    local_count |-> h.local_count, code |-> h.code]
<1>1. /\ DOMAIN functions' = DOMAIN functions
      /\ \A f \in DOMAIN functions : R(functions'[f]) = R(functions[f])
  BY DEF SameShape, SameCode
<1>2. Program = AsTuple([f \in DOMAIN functions |-> R(functions[f])]) BY DEF Program
<1>3. Program' = AsTuple([f \in DOMAIN functions' |-> R(functions'[f])]) BY DEF Program
<1> HIDE DEF R
<1>4. [f \in DOMAIN functions' |-> R(functions'[f])] = [f \in DOMAIN functions |-> R(functions[f])]
  BY <1>1
<1>5. QED BY <1>2, <1>3, <1>4

AbstractVars == <<Program, Activations, Mode, Returned>>

LEMMA IdleStutters ==
  ASSUME SameShape, UNCHANGED <<stack, status>>, ~Active
  PROVE  UNCHANGED AbstractVars /\ Held'
<1>1. ~Active' BY DEF Active
<1>2. Activations' = Activations BY <1>1 DEF Activations
<1>3. Mode' = Mode /\ Returned' = Returned BY DEF Mode, Returned
<1>4. Program' = Program BY ProgramSame
<1>5. Held' BY <1>1 DEF Held, Active
<1>6. QED BY <1>2, <1>3, <1>4, <1>5 DEF AbstractVars

LEMMA ValidatorStutters ==
  ASSUME ValInv, CtxInv, ValidatorNext, UNCHANGED ctxVars
  PROVE  UNCHANGED AbstractVars /\ Held'
<1>1. phase # "done"
  BY DEF ValidatorNext, SkipFunction, AllValidated, BeginBody, RejectInstruction,
     ScanBlock, ScanIf, ScanElse, ScanEnd, ScanJump, ScanCall, ScanCallIndirect,
     ScanOperands, EndBody, Accepting, At, Scanning
<1>2. ~Active BY <1>1 DEF CtxInv, Active
<1>3. UNCHANGED <<stack, status>> BY DEF ctxVars
<1>4. QED BY <1>2, <1>3, ValidatorShape, IdleStutters

LEMMA Traps ==
  ASSUME ValInv, CtxInv, TypingInv, TypedCtx, status = "running", UNCHANGED valVars,
         status' \notin {"idle", "running", "yielded", "returned"},
         instr.op \in {"unreachable", "call", "call_indirect"}
  PROVE  Abstract!Trapping /\ Held'
<1>1. PICK g, f, T, N, p, n, base, a, L, B, v : Place(g, f, T, N, p, n, base, a, L, B, v)
  BY PlaceHere
<1>2. \A ops : Abstract!Executing(ops) <=> instr.op \in ops BY <1>1 DEF Place, Seen
<1>3. Abstract!Executing({"unreachable", "call", "call_indirect"}) BY <1>2
<1>4. ~Active' BY DEF Active
<1>5. Mode' = "trapped" BY DEF Mode
<1>6. Activations' = << >> BY <1>4 DEF Activations
<1>7. Returned' = Returned BY DEF Returned
<1>8. Program' = Program
  <2>1. UNCHANGED functions BY DEF valVars
  <2>2. QED BY <2>1, ProgramStays
<1>9. Held' BY <1>4 DEF Held, Active
<1>10. QED BY <1>3, <1>5, <1>6, <1>7, <1>8, <1>9 DEF Abstract!Trapping

LEMMA UnreachableImplements ==
  ASSUME ValInv, CtxInv, TypingInv, TypedCtx, Unreachable PROVE Abstract!Trapping /\ Held'
<1>1. /\ status = "running" /\ instr.op = "unreachable" /\ UNCHANGED valVars
      /\ status' = "kErrorExecuteTrapUnreachable"
  BY DEF Unreachable, Running, Trap, instr
<1>2. QED BY <1>1, Traps

\* Frame of f above b with its arguments on top of s and its locals in t.
Fresh(f, s, b, t, base) ==
  /\ f \in DOMAIN functions /\ s \in Seq(Nat) /\ b \in Nat
  /\ Len(s) = b + functions[f].params /\ t = s \o Zeros(functions[f].local_count)
  /\ base = Base(functions, NewFrame(f, b))

LEMMA FreshView ==
  ASSUME ValInv, NEW f, NEW s, NEW b, NEW t, NEW base, Fresh(f, s, b, t, base)
  PROVE  /\ t \in Seq(Nat) /\ Len(t) = base /\ base \in Nat /\ b <= base /\ Len(s) <= base
         /\ \A i \in 1..Len(s) : t[i] = s[i]
         /\ View(NewFrame(f, b), base, t, 0, 1, base) =
              Abstract!Activation(f, Slice(s, b, Len(s)))
<1>1. functions[f] \in Functions BY FunctionFields DEF Fresh, ValInv
<1>2. PICK k, j, z, g, l : /\ k = functions[f].params /\ j = functions[f].local_count
                           /\ z = Zeros(j) /\ g = NewFrame(f, b) /\ l = FuncLabel(f, b)
  OBVIOUS
<1>3. k \in Nat /\ j \in Nat BY <1>1, <1>2 DEF Functions
<1>4. z \in Seq(Nat) /\ Len(z) = j BY <1>2, <1>3, ZerosNat
<1>5. /\ s \in Seq(Nat) /\ b \in Nat /\ Len(s) = b + k /\ t = s \o z /\ base = Base(functions, g)
  BY <1>2 DEF Fresh
<1>6. g.func = f /\ g.locals = b /\ g.labels = <<l>> BY <1>2 DEF NewFrame
<1>7. base = b + (k + j) BY <1>2, <1>5, <1>6 DEF Base, TotalLocals
<1>8. t \in Seq(Nat) /\ Len(t) = Len(s) + j /\ \A i \in 1..Len(s) : t[i] = s[i]
  <2>1. /\ s \o z \in Seq(Nat) /\ Len(s \o z) = Len(s) + Len(z)
        /\ \A i \in 1..Len(s) : (s \o z)[i] = s[i]
    BY <1>4, <1>5, ConcatElems
  <2>2. QED BY <1>4, <1>5, <2>1
<1>9. Len(t) = base /\ base \in Nat /\ b <= base /\ Len(s) <= base BY <1>3, <1>5, <1>7, <1>8
<1>10. SubSeq(t, b + 1, base) = Slice(s, b, Len(s)) \o z
  <2>1. b <= Len(s) BY <1>3, <1>5
  <2>2. SubSeq(s \o z, b + 1, Len(s) + Len(z)) = SubSeq(s, b + 1, Len(s)) \o z
    BY <1>4, <1>5, <2>1, SlicePush
  <2>3. base = Len(s) + Len(z) BY <1>4, <1>8, <1>9
  <2>4. QED BY <1>5, <2>2, <2>3 DEF Slice
<1>11. Blocks(<<l>>, base, t, 1, base) = <<BlockOf(l, << >>)>>
  BY <1>8, <1>9, BlocksFirst
<1>12. PICK X : X = Slice(s, b, Len(s)) OBVIOUS
<1>13. View(g, base, t, 0, 1, base) = Act(f, 0, X \o z, <<BlockOf(l, << >>)>>)
  <2>1. View(g, base, t, 0, 1, base) =
          Act(g.func, 0, SubSeq(t, g.locals + 1, base), Blocks(g.labels, base, t, 1, base))
    BY ViewIs
  <2>2. QED BY <1>6, <1>10, <1>11, <1>12, <2>1
<1>14. BlockOf(l, << >>) = [exit |-> Len(functions[f].code), arity |-> functions[f].results,
                            results |-> functions[f].results, loop |-> FALSE, vals |-> << >>]
  <2>1. /\ l.pc = Len(functions[f].code) /\ l.opcode = "block"
        /\ l.results = functions[f].results
    BY <1>2 DEF FuncLabel
  <2>2. QED BY <2>1 DEF BlockOf
<1>15. /\ Program[f].local_count = j /\ Program[f].code = functions[f].code
       /\ Program[f].results = functions[f].results
  BY <1>2, ProgramFacts DEF Fresh
<1>16. Abstract!Activation(f, X) = Act(f, 0, X \o z, <<BlockOf(l, << >>)>>)
  <2>1. z = [i \in 1..j |-> 0] BY <1>2 DEF Zeros
  <2>2. QED BY <1>14, <1>15, <2>1 DEF Abstract!Activation, Act
<1>17. QED BY <1>2, <1>8, <1>9, <1>12, <1>13, <1>16

LEMMA OneElement == ASSUME NEW F, FramesAre(F, 1) PROVE F = <<F[1]>>
<1>1. F = [k \in 1..1 |-> F[k]] BY DEF FramesAre
<1>2. PICK x : x = F[1] OBVIOUS
<1>3. PICK G : G = <<x>> OBVIOUS
<1>4. G = [k \in 1..1 |-> G[k]] /\ G[1] = x BY <1>3
<1>5. \A k \in 1..1 : G[k] = F[k] BY <1>2, <1>4
<1>6. G = F BY ONLY <1>1, <1>4, <1>5, SameSeq
<1>7. QED BY <1>2, <1>3, <1>6

LEMMA ExecuteImplements ==
  ASSUME ValInv, CtxInv, TypingInv, TypedCtx, NEW f, f \in DOMAIN functions,
         NEW args, args \in Tuples(functions[f].params), Execute(f, args)
  PROVE  Abstract!Next /\ Held'
<1>1. status = "idle" /\ functions[f].kind = "local" /\ UNCHANGED valVars
  BY DEF Execute
<1>2. Mode = "idle" /\ Returned = << >> /\ Activations = << >> /\ Program' = Program
  <2>1. UNCHANGED functions BY <1>1 DEF valVars
  <2>2. Program' = Program BY <2>1, ProgramStays
  <2>3. QED BY <1>1, <2>2 DEF Mode, Returned, Activations, Active
<1>3. /\ DOMAIN Program = DOMAIN functions /\ Program[f].kind = "local"
      /\ Program[f].params = functions[f].params
  BY <1>1, ProgramFacts
<1>4. CASE status' = "kErrorExecuteTrapLabelStackOverflow"
  <2>1. Mode' = "trapped" /\ Returned' = << >> /\ Activations' = << >>
    BY <1>4 DEF Mode, Returned, Activations, Active
  <2>2. Held' BY <1>4 DEF Held, Active
  <2>3. Abstract!Exhausted BY <1>2, <2>1 DEF Abstract!Exhausted
  <2>4. QED BY <2>2, <2>3 DEF Abstract!Next
<1>5. CASE /\ call_stack' = <<NewFrame(f, 0)>>
           /\ stack' = args \o Zeros(functions[f].local_count)
           /\ regs' = [ip |-> 0, label_top |-> 1] /\ status' = "running"
  <2>1. PICK g, k, t, base : /\ g = NewFrame(f, 0) /\ k = functions[f].params /\ t = stack'
                             /\ base = Base(functions, NewFrame(f, 0))
    OBVIOUS
  <2>2. k \in Nat
    <3>1. functions[f] \in Functions BY FunctionFields DEF ValInv
    <3>2. QED BY <2>1, <3>1 DEF Functions
  <2>3. args \in Seq(Nat) /\ Len(args) = k BY <2>1, <2>2, TuplesNat
  <2>4. Fresh(f, args, 0, t, base)
    <3>1. 0 \in Nat /\ Len(args) = 0 + functions[f].params BY <2>1, <2>2, <2>3
    <3>2. QED BY <1>5, <2>1, <2>3, <3>1 DEF Fresh
  <2>5. /\ Len(t) = base
        /\ View(NewFrame(f, 0), base, t, 0, 1, base) =
             Abstract!Activation(f, Slice(args, 0, Len(args)))
    BY ONLY ValInv, <2>4, FreshView
  <2>6. Slice(args, 0, Len(args)) = args BY <2>3 DEF Slice
  <2>7. /\ Active' /\ Len(call_stack') = 1 /\ call_stack'[1] = g BY <1>5, <2>1 DEF Active
  <2>8. FramesAre(Activations', 1) /\ Activations'[1] = ViewAt(1)'
    BY <2>7, FramesNext
  <2>9. ViewAt(1)' = View(g, base, t, 0, 1, base)
    <3>1. functions' = functions BY <1>1 DEF valVars
    <3>2. OperandBase(1)' = base BY <2>1, <2>7, <3>1 DEF OperandBase, Base
    <3>3. IpOf(1)' = 0 /\ LabelTopOf(1)' = 1 BY <1>5, <2>7 DEF IpOf, LabelTopOf, top
    <3>4. OperandEnd(1)' = base BY <2>1, <2>5, <2>7 DEF OperandEnd, top, sp
    <3>5. QED BY <2>1, <2>7, <3>2, <3>3, <3>4 DEF ViewAt
  <2>10. Activations' = <<Abstract!Activation(f, args)>>
    <3>1. PICK F : F = Activations' OBVIOUS
    <3>2. FramesAre(F, 1) BY <2>8, <3>1
    <3>3. F = <<F[1]>> BY ONLY <3>2, OneElement
    <3>4. F[1] = Abstract!Activation(f, args) BY <2>1, <2>5, <2>6, <2>8, <2>9, <3>1
    <3>5. QED BY <3>1, <3>3, <3>4
  <2>11. Mode' = "running" /\ Returned' = << >> BY <1>5 DEF Mode, Returned
  <2>12. Abstract!Start(f, args) BY <1>2, <1>3, <2>10, <2>11 DEF Abstract!Start
  <2>13. args \in Abstract!Tuples(Program[f].params)
    BY <1>3 DEF Tuples, Abstract!Tuples
  <2>14. Held' BY <1>5, <2>7 DEF Held, Active
  <2>15. QED BY <1>3, <2>12, <2>13, <2>14 DEF Abstract!Next
<1>6. QED BY <1>4, <1>5 DEF Execute

-----------------------------------------------------------------------------
(* Entering a block *)

\* A stack kept up to the operands of a block keeps the locals.
LEMMA LocalsKept ==
  ASSUME NEW g, NEW f, NEW T, NEW N, NEW p, NEW n, NEW base, NEW a, NEW L, NEW B, NEW v,
         Place(g, f, T, N, p, n, base, a, L, B, v),
         NEW d, d \in Nat, base <= d, d <= a, StackKept(d)
  PROVE  SubSeq(stack', g.locals + 1, base) = L /\ StackKept(g.locals)
<1>1. /\ base \in Nat /\ g.locals \in Nat /\ g.locals <= base /\ a \in Nat /\ base <= a
      /\ stack \in Seq(Nat) /\ sp = Len(stack) /\ sp \in Nat /\ a <= sp
      /\ L = SubSeq(stack, g.locals + 1, base)
  BY DEF Place, Standing
<1>2. stack' \in Seq(Nat) /\ d <= Len(stack') /\ \A i \in 1..d : stack'[i] = stack[i]
  BY DEF StackKept
<1>3. PICK b, s, t, x, y : /\ b = g.locals /\ s = stack /\ t = stack' /\ x = Len(stack)
                           /\ y = Len(stack')
  OBVIOUS
<1>4. /\ b \in Nat /\ base \in Nat /\ d \in Nat /\ b <= base /\ base <= d /\ d <= a
      /\ a \in Nat /\ a <= x /\ x \in Nat /\ y \in Nat /\ d <= y
  BY <1>1, <1>2, <1>3
<1>5. /\ \A i \in 1..b : i \in 1..d
      /\ \A i \in (b + 1)..base : i \in 1..d
      /\ base <= x /\ base <= y /\ b <= y
  BY ONLY <1>4
<1>6. Alike(s, t, b, base) BY <1>1, <1>2, <1>3, <1>4, <1>5 DEF Alike
<1>7. Slice(t, b, base) = Slice(s, b, base) BY <1>6, SliceAlike
<1>8. SubSeq(stack', g.locals + 1, base) = L BY <1>1, <1>3, <1>7 DEF Slice
<1>9. StackKept(g.locals) BY <1>2, <1>3, <1>5 DEF StackKept
<1>10. QED BY <1>8, <1>9

LEMMA LabelChange ==
  ASSUME ValInv, CtxInv, status = "running", UNCHANGED valVars, NEW l, EnterLabel(l),
         NEW q, NEW m, regs' = [ip |-> q, label_top |-> m]
  PROVE  \E h : /\ TopChange(frame, h, q, m)
                /\ h.labels = SubSeq(frame.labels, 1, regs.label_top) \o <<l>>
<1>1. PICK h : /\ Len(call_stack') = Len(call_stack)
               /\ call_stack'[Len(call_stack)] = h
               /\ \A k \in 1..Len(call_stack) :
                    k # Len(call_stack) => call_stack'[k] = call_stack[k]
               /\ h.func = frame.func /\ h.locals = frame.locals
               /\ h.labels = SubSeq(frame.labels, 1, regs.label_top) \o <<l>>
  BY LabelWritten
<1>2. status' = "running" BY DEF EnterLabel
<1>3. TopChange(frame, h, q, m) BY <1>1, <1>2 DEF TopChange
<1>4. QED BY <1>1, <1>3

LEMMA LabelsAbove ==
  ASSUME NEW labels, labels \in Seq(LabelRecs), NEW n, n \in Nat, n <= Len(labels), NEW l,
         NEW ls, ls = SubSeq(labels, 1, n) \o <<l>>
  PROVE  (\A j \in 1..n : ls[j] = labels[j]) /\ ls[n + 1] = l
<1>1. PICK u : u = SubSeq(labels, 1, n) OBVIOUS
<1>2. u \in Seq(LabelRecs) /\ Len(u) = n /\ \A j \in 1..n : u[j] = labels[j] BY <1>1
<1>3. ls = Append(u, l) BY <1>1, <1>2
<1>4. (\A j \in 1..Len(u) : Append(u, l)[j] = u[j]) /\ Append(u, l)[Len(u) + 1] = l
  BY <1>2, SeqPush
<1>5. QED BY <1>2, <1>3, <1>4

\* The labels of the frame h are those of g up to m, and the stack is kept up
\* to c, where the operands of block m begin.
LabelsStay(g, h, m) == \A j \in 1..m : h.labels[j] = g.labels[j]

LEMMA CarriesOver ==
  ASSUME NEW g, NEW f, NEW T, NEW N, NEW p, NEW n, NEW base, NEW a, NEW L, NEW B, NEW v,
         Place(g, f, T, N, p, n, base, a, L, B, v),
         NEW m, m \in 1..n, NEW c, c = FirstOf(g.labels, base, m), StackKept(c),
         NEW h, LabelsStay(g, h, m)
  PROVE  /\ Carries(g.labels, base, n, sp, stack, stack', m, c, h.labels)
         /\ c \in Nat /\ base <= c /\ c <= a
<1>1. /\ stack \in Seq(Nat) /\ sp = Len(stack) /\ sp \in Nat /\ n \in Nat /\ n > 0
      /\ Cut(g.labels, base, n, sp) /\ a = FirstOf(g.labels, base, n) /\ base \in Nat
  BY DEF Place, Standing
<1>2. m <= n /\ n \in 1..n BY <1>1
<1>3. c \in Nat /\ base <= c /\ c <= a BY <1>1, <1>2 DEF Cut
<1>4. \A i \in (base + 1)..c : i \in 1..c BY ONLY <1>1, <1>3
<1>5. QED BY <1>1, <1>3, <1>4 DEF Carries, StackKept, LabelsStay

\* The frame is at q inside the blocks of B and one more, for label l.
EnteredBlocks(B, n, t, a, l) ==
  Append(BlocksFilled(B, n, t, a, l.stack_top),
         BlockOf(l, SubSeq(t, l.stack_top + 1, Len(t))))

LEMMA EntersView ==
  ASSUME ValInv, CtxInv, TypingInv, TypedCtx, Held, status = "running", UNCHANGED valVars,
         NEW g, NEW f, NEW T, NEW N, NEW p, NEW n, NEW base, NEW a, NEW L, NEW B, NEW v,
         Place(g, f, T, N, p, n, base, a, L, B, v),
         StackKept(a), NEW l, EnterLabel(l), NEW q, NEW m, m = n + 1,
         regs' = [ip |-> q, label_top |-> m]
  PROVE  TopIs(Act(f, q, L, EnteredBlocks(B, n, stack', a, l)))
<1>1. /\ g = frame /\ f = g.func /\ n = regs.label_top /\ a \in Nat /\ base <= a /\ a <= sp
      /\ base \in Nat /\ base = Base(functions, g) /\ a = FirstOf(g.labels, base, n)
      /\ B = Blocks(g.labels, base, stack, n, sp) /\ n \in Nat /\ n > 0
      /\ g.labels \in Seq(LabelRecs) /\ n <= Len(g.labels)
  BY DEF Place, Standing, Seated
<1>2. PICK h : TopChange(g, h, q, m) /\ h.labels = SubSeq(g.labels, 1, n) \o <<l>>
  BY <1>1, LabelChange
<1>3. SubSeq(stack', g.locals + 1, base) = L /\ StackKept(g.locals) BY <1>1, LocalsKept
<1>4. TopIs(Act(g.func, q, SubSeq(stack', g.locals + 1, base),
                Blocks(h.labels, base, stack', m, Len(stack'))))
  BY <1>1, <1>2, <1>3, FramePut
<1>5. (\A j \in 1..n : h.labels[j] = g.labels[j]) /\ h.labels[n + 1] = l
  <2>1. PICK labels, ls : labels = g.labels /\ ls = h.labels OBVIOUS
  <2>2. /\ labels \in Seq(LabelRecs) /\ n \in Nat /\ n <= Len(labels)
        /\ ls = SubSeq(labels, 1, n) \o <<l>>
    BY <1>1, <1>2, <2>1
  <2>3. (\A j \in 1..n : ls[j] = labels[j]) /\ ls[n + 1] = l BY ONLY <2>2, LabelsAbove
  <2>4. QED BY <2>1, <2>3
<1>6. Carries(g.labels, base, n, sp, stack, stack', n, a, h.labels)
  <2>1. n \in 1..n /\ LabelsStay(g, h, n) BY <1>1, <1>5 DEF LabelsStay
  <2>2. QED BY <1>1, <2>1, CarriesOver
<1>7. PICK labels, ls, s, t, e, d : /\ labels = g.labels /\ ls = h.labels /\ s = stack
                                    /\ t = stack' /\ e = sp /\ d = Len(stack')
  OBVIOUS
<1>8. Blocks(ls, base, t, m, d) =
        Append(BlocksFilled(Blocks(labels, base, s, n, e), n, t, a, l.stack_top),
               BlockOf(l, SubSeq(t, l.stack_top + 1, d)))
  <2>1. Carries(labels, base, n, e, s, t, n, a, ls) /\ ls[n + 1] = l /\ m = n + 1
    BY <1>5, <1>6, <1>7
  <2>2. QED BY ONLY <2>1, BlocksPush
<1>9. Blocks(h.labels, base, stack', m, Len(stack')) = EnteredBlocks(B, n, stack', a, l)
  BY <1>1, <1>7, <1>8 DEF EnteredBlocks
<1>10. QED BY <1>1, <1>3, <1>4, <1>9

\* The label was written, but the frame stays inside the n blocks of B.
LEMMA SkipsView ==
  ASSUME ValInv, CtxInv, TypingInv, TypedCtx, Held, status = "running", UNCHANGED valVars,
         NEW g, NEW f, NEW T, NEW N, NEW p, NEW n, NEW base, NEW a, NEW L, NEW B, NEW v,
         Place(g, f, T, N, p, n, base, a, L, B, v),
         StackKept(a), NEW l, EnterLabel(l), NEW q, regs' = [ip |-> q, label_top |-> n]
  PROVE  TopIs(Act(f, q, L, BlocksFilled(B, n, stack', a, Len(stack'))))
<1>1. /\ g = frame /\ f = g.func /\ n = regs.label_top /\ a \in Nat /\ base <= a /\ a <= sp
      /\ base \in Nat /\ base = Base(functions, g) /\ a = FirstOf(g.labels, base, n)
      /\ B = Blocks(g.labels, base, stack, n, sp) /\ n \in Nat /\ n > 0
      /\ g.labels \in Seq(LabelRecs) /\ n <= Len(g.labels)
  BY DEF Place, Standing, Seated
<1>2. PICK h : TopChange(g, h, q, n) /\ h.labels = SubSeq(g.labels, 1, n) \o <<l>>
  BY <1>1, LabelChange
<1>3. SubSeq(stack', g.locals + 1, base) = L /\ StackKept(g.locals) BY <1>1, LocalsKept
<1>4. TopIs(Act(g.func, q, SubSeq(stack', g.locals + 1, base),
                Blocks(h.labels, base, stack', n, Len(stack'))))
  BY <1>1, <1>2, <1>3, FramePut
<1>5. (\A j \in 1..n : h.labels[j] = g.labels[j]) /\ h.labels[n + 1] = l
  <2>1. PICK labels, ls : labels = g.labels /\ ls = h.labels OBVIOUS
  <2>2. /\ labels \in Seq(LabelRecs) /\ n \in Nat /\ n <= Len(labels)
        /\ ls = SubSeq(labels, 1, n) \o <<l>>
    BY <1>1, <1>2, <2>1
  <2>3. (\A j \in 1..n : ls[j] = labels[j]) /\ ls[n + 1] = l BY ONLY <2>2, LabelsAbove
  <2>4. QED BY <2>1, <2>3
<1>6. Carries(g.labels, base, n, sp, stack, stack', n, a, h.labels)
  <2>1. n \in 1..n /\ LabelsStay(g, h, n) BY <1>1, <1>5 DEF LabelsStay
  <2>2. QED BY <1>1, <2>1, CarriesOver
<1>7. PICK labels, ls, s, t, e, d : /\ labels = g.labels /\ ls = h.labels /\ s = stack
                                    /\ t = stack' /\ e = sp /\ d = Len(stack')
  OBVIOUS
<1>8. Blocks(ls, base, t, n, d) = BlocksFilled(Blocks(labels, base, s, n, e), n, t, a, d)
  <2>1. Carries(labels, base, n, e, s, t, n, a, ls) BY <1>6, <1>7
  <2>2. QED BY ONLY <2>1, BlocksTop
<1>9. Blocks(h.labels, base, stack', n, Len(stack')) = BlocksFilled(B, n, stack', a, Len(stack'))
  BY <1>1, <1>7, <1>8
<1>10. QED BY <1>1, <1>3, <1>4, <1>9

\* The innermost of the n blocks gives its k topmost operands to a new one.
Deeper(B, n, w, k, ar, res, ex, lp) ==
  Append([B EXCEPT ![n].vals = Abstract!Keep(w, k)],
         [exit |-> ex, arity |-> ar, results |-> res, loop |-> lp,
          vals |-> Abstract!TopOf(w, k)])

LEMMA EnterIs ==
  ASSUME NEW f, NEW p, NEW L, NEW B, NEW n, NEW v, Seen(f, p, L, B, n, v), NEW l, NEW x,
         n \in Nat, n > 0, B[n] = BlockOf(l, x),
         NEW w, NEW k, NEW ar, NEW res, NEW ex, NEW lp
  PROVE  Abstract!Enter(Abstract!WithVals(w), k, ar, res, ex, lp) =
           Act(f, p + 1, L, Deeper(B, n, w, k, ar, res, ex, lp))
<1>1. Abstract!nest = n /\ ASeq(B) /\ Len(B) = n BY DEF Seen
<1>2. PICK F, C, q : F = Act(f, p + 1, L, C) /\ C = [B EXCEPT ![n].vals = w] /\ q = p + 1
  OBVIOUS
<1>3. Abstract!WithVals(w) = F
  <2>1. Seen(f, p, L, B, n, v) OBVIOUS
  <2>2. Abstract!WithVals(w) = Act(f, p + 1, L, [B EXCEPT ![n].vals = w])
    BY ONLY <2>1, WithValsIs
  <2>3. QED BY <1>2, <2>2
<1>4. F.blocks = C BY <1>2 DEF Act
<1>5. n \in 1..n /\ DOMAIN B = 1..n
  <2>1. PICK S : B \in Seq(S) BY <1>1 DEF ASeq
  <2>2. QED BY <1>1, <2>1
<1>6. C[n] = BlockOf(l, w)
  <2>1. C[n] = [B[n] EXCEPT !.vals = w] BY <1>2, <1>5
  <2>2. QED BY <2>1, BlockVals
<1>7. C[n].vals = w BY <1>6, BlockVals
<1>8. [C EXCEPT ![n].vals = Abstract!Keep(@, k)] = [B EXCEPT ![n].vals = Abstract!Keep(w, k)]
  <2>1. PICK y : y = Abstract!Keep(w, k) OBVIOUS
  <2>2. [C EXCEPT ![n].vals = Abstract!Keep(@, k)] = [C EXCEPT ![n].vals = y]
    BY <1>7, <2>1
  <2>3. [C EXCEPT ![n].vals = y] = [B EXCEPT ![n].vals = y]
    <3>1. PICK D, E : D = [C EXCEPT ![n].vals = y] /\ E = [B EXCEPT ![n].vals = y] OBVIOUS
    <3>2. D[n] = BlockOf(l, y)
      <4>1. DOMAIN C = 1..n BY <1>2, <1>5
      <4>2. D[n] = [C[n] EXCEPT !.vals = y] BY <1>5, <3>1, <4>1
      <4>3. QED BY <1>6, <4>2, BlockVals
    <3>3. E[n] = BlockOf(l, y)
      <4>1. E[n] = [B[n] EXCEPT !.vals = y] BY <1>5, <3>1
      <4>2. QED BY <4>1, BlockVals
    <3>4. \A j \in 1..n : j # n => D[j] = E[j] BY <1>2, <1>5, <3>1
    <3>5. D = [j \in 1..n |-> D[j]] /\ E = [j \in 1..n |-> E[j]] BY <1>2, <1>5, <3>1
    <3>6. \A j \in 1..n : D[j] = E[j] BY <3>2, <3>3, <3>4
    <3>7. D = E BY ONLY <3>5, <3>6, SameSeq
    <3>8. QED BY <3>1, <3>7
  <2>4. QED BY <2>1, <2>2, <2>3
<1>9. PICK D : D = Deeper(B, n, w, k, ar, res, ex, lp) OBVIOUS
<1>10. Append([C EXCEPT ![n].vals = Abstract!Keep(@, k)],
              [exit |-> ex, arity |-> ar, results |-> res, loop |-> lp,
               vals |-> Abstract!TopOf(C[n].vals, k)]) = D
  BY <1>7, <1>8, <1>9 DEF Deeper
<1>11. Abstract!Enter(F, k, ar, res, ex, lp) = [F EXCEPT !.blocks = D]
  BY <1>1, <1>4, <1>10 DEF Abstract!Enter
<1>12. [F EXCEPT !.blocks = D] = Act(f, q, L, D) BY ONLY <1>2 DEF Act
<1>13. QED BY <1>2, <1>3, <1>9, <1>11, <1>12

\* Where the code jumps to is where the nesting says that the block ends.
LEMMA EndHere ==
  ASSUME ValInv, CtxInv, TypingInv, TypedCtx, Running({"block", "if"})
  PROVE  /\ JumpEntry # 0 /\ EndTarget = Entry.end /\ Entry.else \in Nat
         /\ Entry.end = Abstract!EndOf(functions[frame.func].code, regs.ip + 1)
         /\ Entry.else = Abstract!ElseOf(functions[frame.func].code, regs.ip + 1)
<1>1. /\ JumpEntry # 0 /\ Entry.end # 0 /\ Entry.body = regs.ip + 1
      /\ EntryFits(Typing(frame.func), Len(functions[frame.func].code), Entry)
      /\ Spans(Typing(frame.func), functions[frame.func].code, Entry, Entry.end - 1)
      /\ Entry.else \in Nat
  BY EntryHere
<1>2. PICK g, f, T, N, p, n, base : Standing(g, f, T, N, p, n, base)
  BY Here DEF Running
<1>3. /\ f = frame.func /\ Body(f) /\ T = Typing(f) /\ p = regs.ip
      /\ instr = functions[f].code[p + 1]
  BY <1>2 DEF Standing
<1>4. PICK code, e : code = functions[f].code /\ e = Entry OBVIOUS
<1>5. /\ EntryFits(T, Len(code), e) /\ Spans(T, code, e, e.end - 1) /\ e.end # 0
      /\ e.body = p + 1 /\ e.else \in Nat
  BY <1>1, <1>3, <1>4
<1>6. code[e.body].op \in Abstract!Openers
  <2>1. instr.op \in {"block", "if"} BY DEF Running, instr
  <2>2. QED BY <1>3, <1>4, <1>5, <2>1 DEF Abstract!Openers
<1>7. e.end = Abstract!EndOf(code, e.body) /\ e.else = Abstract!ElseOf(code, e.body)
  BY <1>3, <1>4, <1>5, <1>6, EntryEnds
<1>8. EndTarget = Entry.end BY <1>1 DEF EndTarget
<1>9. QED BY <1>1, <1>3, <1>4, <1>5, <1>7, <1>8

LEMMA BlockHere ==
  ASSUME NEW g, NEW f, NEW T, NEW N, NEW p, NEW n, NEW base, NEW a, NEW L, NEW B, NEW v,
         Place(g, f, T, N, p, n, base, a, L, B, v)
  PROVE  /\ B[n] = BlockOf(g.labels[n], v) /\ ASeq(B) /\ Len(B) = n
         /\ \A j \in 1..n : \E x : B[j] = BlockOf(g.labels[j], x)
<1>1. /\ n \in Nat /\ n > 0 /\ B = Blocks(g.labels, base, stack, n, sp)
      /\ a = FirstOf(g.labels, base, n) /\ v = SubSeq(stack, a + 1, sp)
  BY DEF Place
<1>2. BlocksAre(B, g.labels, base, stack, n, sp)
  <2>1. BlocksAre(Blocks(g.labels, base, stack, n, sp), g.labels, base, stack, n, sp)
    BY <1>1, BlocksFacts
  <2>2. QED BY <1>1, <2>1
<1>3. B[n] = BlockOf(g.labels[n],
               SubSeq(stack, FirstOf(g.labels, base, n) + 1, LastOf(g.labels, n, sp, n)))
  <2>1. n \in 1..n BY <1>1
  <2>2. QED BY <1>2, <2>1 DEF BlocksAre
<1>4. LastOf(g.labels, n, sp, n) = sp BY DEF LastOf
<1>5. B[n] = BlockOf(g.labels[n], v) BY <1>1, <1>3, <1>4
<1>6. \A j \in 1..n : \E x : B[j] = BlockOf(g.labels[j], x) BY <1>2 DEF BlocksAre
<1>7. QED BY <1>2, <1>5, <1>6 DEF BlocksAre

LEMMA TopPut ==
  ASSUME NEW g, NEW f, NEW T, NEW N, NEW p, NEW n, NEW base, NEW a, NEW L, NEW B, NEW v,
         Place(g, f, T, N, p, n, base, a, L, B, v),
         NEW A, TopIs(A)
  PROVE  Abstract!Put(A) /\ Abstract!Proceed /\ Held'
<1>1. Abstract!depth = Len(call_stack) BY DEF Place, Seen
<1>2. QED BY <1>1 DEF TopIs, Abstract!Put

\* A stack without its k topmost slots.
Shorter(s, t, a, k) ==
  /\ t \in Seq(Nat) /\ Len(t) = Len(s) - k /\ a <= Len(t) /\ \A i \in 1..a : t[i] = s[i]
  /\ \A i \in 1..Len(t) : t[i] = s[i]
  /\ Slice(t, a, Len(t)) = Abstract!Keep(Slice(s, a, Len(s)), k)

LEMMA BelowKept ==
  ASSUME NEW s, s \in Seq(Nat), NEW a, a \in Nat, a <= Len(s),
         NEW k, k \in Nat, k <= Len(s) - a, NEW t, t = Below(s, k)
  PROVE  Shorter(s, t, a, k)
<1>1. PICK m, e : m = Len(s) /\ e = m - k OBVIOUS
<1>2. m \in Nat /\ e \in Nat /\ a <= e /\ e <= m /\ k <= m /\ k <= m - a BY <1>1
<1>3. t \in Seq(Nat) /\ Len(t) = e BY <1>1, <1>2, BelowNat
<1>4. \A i \in 1..e : t[i] = s[i] BY <1>1, <1>2, BelowSlice
<1>5. \A i \in 1..a : i \in 1..e BY ONLY <1>2, a \in Nat
<1>6. \A i \in (a + 1)..e : i \in 1..e BY ONLY <1>2, a \in Nat
<1>7. Alike(s, t, a, e)
  <2>1. e <= Len(s) /\ e <= Len(t) /\ \A i \in (a + 1)..e : t[i] = s[i]
    BY <1>1, <1>2, <1>3, <1>4, <1>6
  <2>2. s \in Seq(Nat) /\ t \in Seq(Nat) /\ a \in Nat /\ e \in Nat /\ a <= e
    BY <1>2, <1>3
  <2>3. QED BY ONLY <2>1, <2>2 DEF Alike
<1>8. Slice(t, a, e) = Slice(s, a, e) BY <1>7, SliceAlike
<1>9. Parts(s, a, m, k, e) BY <1>1, <1>2 DEF Parts
<1>10. Abstract!Keep(Slice(s, a, m), k) = Slice(s, a, e) BY <1>9, KeepSlice
<1>11. Slice(t, a, Len(t)) = Abstract!Keep(Slice(s, a, Len(s)), k)
  BY <1>1, <1>3, <1>8, <1>10
<1>12. \A i \in 1..a : t[i] = s[i] BY <1>4, <1>5
<1>13. QED BY <1>1, <1>2, <1>3, <1>4, <1>11, <1>12 DEF Shorter

AtPc(A, q) == [A EXCEPT !.pc = q]

Inner(w, k, ar, res, ex, lp) == Abstract!Enter(Abstract!WithVals(w), k, ar, res, ex, lp)

\* The label l cuts the k topmost of the operands w off.
EntersWith(a, l, w, k) ==
  /\ stack' \in Seq(Nat) /\ a \in Nat /\ l.stack_top \in Nat /\ a <= l.stack_top
  /\ l.stack_top <= Len(stack') /\ k \in Nat /\ k <= Len(stack') - a
  /\ l.stack_top = Len(stack') - k /\ w = Slice(stack', a, Len(stack'))

LabelGives(l, ar, res, ex, lp) ==
  /\ ar = (IF l.opcode = "loop" THEN l.params ELSE l.results) /\ res = l.results
  /\ ex = l.pc /\ lp = (l.opcode = "loop")

LEMMA EntersIs ==
  ASSUME ValInv, CtxInv, TypingInv, TypedCtx, Held, status = "running", UNCHANGED valVars,
         NEW g, NEW f, NEW T, NEW N, NEW p, NEW n, NEW base, NEW a, NEW L, NEW B, NEW v,
         Place(g, f, T, N, p, n, base, a, L, B, v),
         StackKept(a), NEW l, EnterLabel(l), NEW q, NEW m, m = n + 1,
         regs' = [ip |-> q, label_top |-> m],
         NEW w, NEW k, EntersWith(a, l, w, k),
         NEW ar, NEW res, NEW ex, NEW lp, LabelGives(l, ar, res, ex, lp)
  PROVE  /\ TopIs(AtPc(Inner(w, k, ar, res, ex, lp), q))
         /\ AtPc(Inner(w, k, ar, res, ex, lp), p + 1) = Inner(w, k, ar, res, ex, lp)
<1>1. /\ n \in Nat /\ n > 0 /\ Seen(f, p, L, B, n, v) /\ B[n] = BlockOf(g.labels[n], v)
      /\ a \in Nat
  <2>1. B[n] = BlockOf(g.labels[n], v) BY BlockHere
  <2>2. n \in Nat /\ n > 0 /\ Seen(f, p, L, B, n, v) /\ a \in Nat BY DEF Place
  <2>3. QED BY <2>1, <2>2
<1>2. PICK I, D, x, y : /\ I = Inner(w, k, ar, res, ex, lp)
                        /\ D = Deeper(B, n, w, k, ar, res, ex, lp)
                        /\ x = g.labels[n] /\ y = p + 1
  OBVIOUS
<1>3. I = Act(f, y, L, D)
  <2>1. Seen(f, p, L, B, n, v) /\ B[n] = BlockOf(x, v) /\ n \in Nat /\ n > 0 BY <1>1, <1>2
  <2>2. Abstract!Enter(Abstract!WithVals(w), k, ar, res, ex, lp) =
          Act(f, p + 1, L, Deeper(B, n, w, k, ar, res, ex, lp))
    BY ONLY <2>1, EnterIs
  <2>3. QED BY <1>2, <2>2 DEF Inner
<1>4. AtPc(I, q) = Act(f, q, L, D) /\ AtPc(I, y) = I BY ONLY <1>3 DEF Act, AtPc
<1>5. TopIs(Act(f, q, L, EnteredBlocks(B, n, stack', a, l))) BY EntersView
<1>6. PICK t, d, c : t = stack' /\ d = Len(stack') /\ c = l.stack_top OBVIOUS
<1>7. /\ t \in Seq(Nat) /\ a \in Nat /\ c \in Nat /\ a <= c /\ c <= d /\ k \in Nat
      /\ k <= d - a /\ c = d - k /\ w = Slice(t, a, d) /\ d = Len(t)
  BY <1>6 DEF EntersWith
<1>8. Abstract!Keep(w, k) = SubSeq(t, a + 1, c) /\ Abstract!TopOf(w, k) = SubSeq(t, c + 1, d)
  <2>1. d \in Nat /\ a <= d BY <1>7
  <2>2. Parts(t, a, d, k, c) BY <1>7, <2>1 DEF Parts
  <2>3. /\ Abstract!Keep(Slice(t, a, d), k) = Slice(t, a, c)
        /\ Abstract!TopOf(Slice(t, a, d), k) = Slice(t, c, d)
    BY ONLY <2>2, PartsOf
  <2>4. QED BY <1>7, <2>3 DEF Slice
<1>9. BlockOf(l, SubSeq(t, c + 1, d)) =
        [exit |-> ex, arity |-> ar, results |-> res, loop |-> lp,
         vals |-> Abstract!TopOf(w, k)]
  BY <1>8 DEF BlockOf, LabelGives
<1>10. EnteredBlocks(B, n, t, a, l) = D
  BY <1>2, <1>6, <1>7, <1>8, <1>9 DEF EnteredBlocks, Deeper, BlocksFilled
<1>11. QED BY <1>2, <1>4, <1>5, <1>6, <1>10

\* What the checker has seen of the operands of an instruction that opens a block.
LEMMA OpensHere ==
  ASSUME NEW g, NEW f, NEW T, NEW N, NEW p, NEW n, NEW base, NEW a, NEW L, NEW B, NEW v,
         Place(g, f, T, N, p, n, base, a, L, B, v)
  PROVE  /\ instr.op \in BlockOps =>
              instr.params \in Nat /\ instr.params <= Len(v) /\ instr.results \in Nat
         /\ instr.op = "if" => instr.params = 0 /\ instr.results \in Nat /\ 1 <= Len(v)
<1>1. /\ instr \in Instructions /\ Checks(T[p], T[p + 1], instr, Signatures)
      /\ ~InnerCtrl(T[p]).dead /\ T[p].h = sp - base /\ InnerCtrl(T[p]).height \in Nat
      /\ a = base + InnerCtrl(T[p]).height /\ base \in Nat /\ sp \in Nat /\ Len(v) = sp - a
      /\ T[p] \in States /\ T[p].ctrls # << >>
  BY DEF Place, Standing
<1>2. ASSUME NEW op, NEW k, k \in Nat, NEW j, NEW b, Opens(T[p], T[p + 1], op, k, j, b)
      PROVE  k <= Len(v)
  <2>1. k <= T[p].h - InnerCtrl(T[p]).height BY <1>1, <1>2 DEF Opens
  <2>2. PICK x, y, z : x = T[p].h /\ y = InnerCtrl(T[p]).height /\ z = sp OBVIOUS
  <2>3. /\ k <= x - y /\ x = z - base /\ a = base + y /\ Len(v) = z - a
        /\ y \in Nat /\ z \in Nat /\ base \in Nat /\ k \in Nat
    BY <1>1, <1>2, <2>1, <2>2
  <2>4. QED BY ONLY <2>3
<1>3. ASSUME instr.op \in BlockOps
      PROVE  instr.params \in Nat /\ instr.params <= Len(v) /\ instr.results \in Nat
  <2>1. instr.params \in Nat /\ instr.results \in Nat
    BY <1>1, <1>3, InstructionTypes DEF BlockOps
  <2>2. Opens(T[p], T[p + 1], instr.op, instr.params, instr.params, instr.results)
    BY <1>1, <1>3 DEF Checks
  <2>3. QED BY <1>2, <2>1, <2>2
<1>4. ASSUME instr.op = "if"
      PROVE  instr.params = 0 /\ instr.results \in Nat /\ 1 <= Len(v)
  <2>1. instr.results \in Nat BY <1>1, <1>4, InstructionTypes
  <2>2. instr.params = 0 /\ Opens(T[p], T[p + 1], "if", 1, 0, instr.results)
    BY <1>1, <1>4 DEF Checks
  <2>3. 1 \in Nat OBVIOUS
  <2>4. 1 <= Len(v) BY <1>2, <2>2, <2>3
  <2>5. QED BY <2>1, <2>2, <2>4
<1>5. QED BY <1>3, <1>4

LEMMA BlockImplements == ASSUME ValInv, CtxInv, TypingInv, TypedCtx, Held, Block PROVE Abstract!BlockStep /\ Held'
<1>1. PICK g, f, T, N, p, n, base, a, L, B, v : Place(g, f, T, N, p, n, base, a, L, B, v)
  BY PlaceHere DEF Block, Running
<1>2. /\ status = "running" /\ instr.op \in BlockOps /\ UNCHANGED valVars /\ stack' = stack
      /\ instr.op = "block" => Running({"block", "if"})
  BY DEF Block, Running, instr
<1>3. instr.params \in Nat /\ instr.params <= Len(v) /\ instr.results \in Nat
  BY <1>1, <1>2, OpensHere
<1>4. /\ Abstract!vals = v /\ Abstract!ins = instr
      /\ \A ops : Abstract!Executing(ops) <=> instr.op \in ops
      /\ \A k : Abstract!Has(k) <=> Len(v) >= k
      /\ Abstract!cur.pc = p /\ Abstract!code = functions[f].code
  BY <1>1, SeesOperands DEF Place, Seen, Act
<1>5. /\ n = regs.label_top /\ p = regs.ip /\ f = frame.func /\ stack \in Seq(Nat)
      /\ sp = Len(stack) /\ sp \in Nat /\ a \in Nat /\ a <= sp /\ Len(v) = sp - a
      /\ v = SubSeq(stack, a + 1, sp)
  BY <1>1 DEF Place, Standing
<1>6. PICK l, q, m, k, res : /\ k = instr.params /\ res = instr.results
                             /\ q = p + 1 /\ m = n + 1
                             /\ l = [opcode |-> instr.op, stack_top |-> sp - k, params |-> k,
                                     results |-> res,
                                     pc |-> IF instr.op = "block" THEN EndTarget
                                            ELSE regs.ip + 1]
  OBVIOUS
<1>7. EnterLabel(l) /\ regs' = [ip |-> q, label_top |-> m]
  BY <1>5, <1>6 DEF Block, Step, Continue
<1>8. PICK ar, ex, lp : /\ lp = (instr.op = "loop") /\ ex = l.pc
                        /\ ar = IF lp THEN k ELSE res
  OBVIOUS
<1>9. LabelGives(l, ar, res, ex, lp) BY <1>6, <1>8 DEF LabelGives
<1>10. EntersWith(a, l, v, k)
  <2>1. PICK c, d : c = l.stack_top /\ d = Len(stack') OBVIOUS
  <2>2. c = d - k /\ d \in Nat /\ k \in Nat /\ k <= d - a /\ a \in Nat
    BY <1>2, <1>3, <1>5, <1>6, <2>1
  <2>3. c \in Nat /\ a <= c /\ c <= d BY ONLY <2>2
  <2>4. QED BY <1>2, <1>5, <2>1, <2>2, <2>3 DEF EntersWith, Slice
<1>11. StackKept(a) BY <1>2, <1>5 DEF StackKept
<1>12. PICK I : I = Inner(v, k, ar, res, ex, lp) OBVIOUS
<1>13. TopIs(AtPc(I, q)) /\ AtPc(I, p + 1) = I
  BY <1>1, <1>2, <1>6, <1>7, <1>9, <1>10, <1>11, <1>12, EntersIs
<1>14. Abstract!Put(I) /\ Abstract!Proceed /\ Held' BY <1>1, <1>6, <1>13, TopPut
<1>15. ex = IF lp THEN p + 1 ELSE Abstract!EndOf(functions[f].code, p + 1)
  <2>1. CASE instr.op = "loop" BY <1>5, <1>6, <1>8, <2>1
  <2>2. CASE instr.op = "block"
    <3>1. EndTarget = Abstract!EndOf(functions[frame.func].code, regs.ip + 1)
      BY <1>2, <2>2, EndHere
    <3>2. QED BY <1>5, <1>6, <1>8, <2>2, <3>1
  <2>3. QED BY <1>2, <2>1, <2>2 DEF BlockOps
<1>16. Abstract!Executing({"block", "loop"}) /\ Abstract!Has(k)
  BY <1>2, <1>3, <1>4, <1>6 DEF BlockOps
<1>17. Abstract!Put(Abstract!Enter(Abstract!WithVals(v), k, IF lp THEN k ELSE res, res,
                      IF lp THEN p + 1 ELSE Abstract!EndOf(functions[f].code, p + 1), lp))
  BY <1>8, <1>12, <1>14, <1>15 DEF Inner
<1>18. QED BY <1>4, <1>6, <1>8, <1>14, <1>16, <1>17 DEF Abstract!BlockStep

LEMMA IfImplements == ASSUME ValInv, CtxInv, TypingInv, TypedCtx, Held, If PROVE Abstract!IfStep /\ Held'
<1>1. PICK g, f, T, N, p, n, base, a, L, B, v : Place(g, f, T, N, p, n, base, a, L, B, v)
  BY PlaceHere DEF If, Running
<1>2. /\ status = "running" /\ instr.op = "if" /\ UNCHANGED valVars
      /\ stack' = Below(stack, 1) /\ Running({"block", "if"})
  BY DEF If, Running, instr
<1>3. instr.params = 0 /\ instr.results \in Nat /\ 1 <= Len(v)
  BY <1>1, <1>2, OpensHere
<1>4. /\ Abstract!vals = v /\ Abstract!ins = instr
      /\ \A ops : Abstract!Executing(ops) <=> instr.op \in ops
      /\ \A k : Abstract!Has(k) <=> Len(v) >= k
      /\ Abstract!cur.pc = p /\ Abstract!code = functions[f].code
  BY <1>1, SeesOperands DEF Place, Seen, Act
<1>5. /\ n = regs.label_top /\ p = regs.ip /\ f = frame.func /\ stack \in Seq(Nat)
      /\ sp = Len(stack) /\ sp \in Nat /\ a \in Nat /\ a <= sp /\ Len(v) = sp - a
      /\ v = SubSeq(stack, a + 1, sp)
  BY <1>1 DEF Place, Standing
<1>6. PICK k, res, ex, w, m : /\ k = 0 /\ res = instr.results /\ ex = EndTarget
                              /\ w = Abstract!Keep(v, 1) /\ m = n + 1
  OBVIOUS
<1>7. PICK l : l = [opcode |-> "if", stack_top |-> sp - 1, params |-> 0,
                    results |-> instr.results, pc |-> EndTarget]
  OBVIOUS
<1>8. EnterLabel(l) BY <1>7 DEF If
<1>9. v[Len(v)] = stack[sp]
  <2>1. TopsAre(stack, a, v, sp) BY <1>5, OperandTops
  <2>2. sp - a >= 1 BY <1>3, <1>5
  <2>3. QED BY <2>1, <2>2 DEF TopsAre
<1>10. PICK s, t, e, d : s = stack /\ t = stack' /\ e = sp /\ d = Len(stack') OBVIOUS
<1>11. /\ t \in Seq(Nat) /\ d = e - 1 /\ a <= d /\ (\A i \in 1..a : t[i] = s[i])
       /\ Slice(t, a, d) = w /\ d \in Nat
  <2>1. /\ s \in Seq(Nat) /\ a \in Nat /\ a <= Len(s) /\ 1 \in Nat /\ 1 <= Len(s) - a
        /\ t = Below(s, 1)
    BY <1>2, <1>3, <1>5, <1>10
  <2>2. Shorter(s, t, a, 1) BY ONLY <2>1, BelowKept
  <2>3. Slice(s, a, e) = v BY <1>5, <1>10 DEF Slice
  <2>4. QED BY <1>5, <1>6, <1>10, <2>2, <2>3 DEF Shorter
<1>12. StackKept(a) BY <1>10, <1>11 DEF StackKept
<1>13. EntersWith(a, l, w, k)
  <2>1. l.stack_top = d BY <1>7, <1>10, <1>11
  <2>2. k \in Nat /\ k <= d - a /\ d = d - k /\ d <= d BY <1>5, <1>6, <1>11
  <2>3. QED BY <1>5, <1>10, <1>11, <2>1, <2>2 DEF EntersWith
<1>14. PICK lp : lp = FALSE OBVIOUS
<1>15. LabelGives(l, res, res, ex, lp) BY <1>6, <1>7, <1>14 DEF LabelGives
<1>16. PICK I, F : I = Inner(w, k, res, res, ex, lp) /\ F = Abstract!WithVals(w) OBVIOUS
<1>17. /\ JumpEntry # 0 /\ ex = Abstract!EndOf(functions[f].code, p + 1)
       /\ Entry.else = Abstract!ElseOf(functions[f].code, p + 1)
  <2>1. /\ JumpEntry # 0 /\ EndTarget = Entry.end
        /\ Entry.end = Abstract!EndOf(functions[frame.func].code, regs.ip + 1)
        /\ Entry.else = Abstract!ElseOf(functions[frame.func].code, regs.ip + 1)
    BY <1>2, EndHere
  <2>2. QED BY <1>5, <1>6, <2>1
<1>18. ASSUME NEW q, regs' = [ip |-> q, label_top |-> m]
       PROVE  TopIs(AtPc(I, q)) /\ AtPc(I, p + 1) = I
  BY <1>1, <1>2, <1>6, <1>8, <1>12, <1>13, <1>15, <1>16, <1>18, EntersIs
<1>19. Abstract!Executing({"if"}) /\ Abstract!Has(instr.params + 1)
  <2>1. instr.params + 1 = 1 BY <1>3
  <2>2. QED BY <1>2, <1>3, <1>4, <2>1
<1>20. I = Abstract!Enter(F, instr.params, instr.results, instr.results,
                          Abstract!EndOf(functions[f].code, p + 1), FALSE)
  BY <1>3, <1>6, <1>14, <1>16, <1>17 DEF Inner
<1>21. CASE stack[sp] # 0 /\ Step(regs.label_top + 1)
  <2>1. regs' = [ip |-> p + 1, label_top |-> m] BY <1>5, <1>6, <1>21 DEF Step, Continue
  <2>2. TopIs(I)
    <3>1. TopIs(AtPc(I, p + 1)) /\ AtPc(I, p + 1) = I BY <1>18, <2>1
    <3>2. QED BY <3>1
  <2>3. Abstract!Put(I) /\ Abstract!Proceed /\ Held' BY <1>1, <2>2, TopPut
  <2>4. v[Len(v)] # 0 BY <1>9, <1>21
  <2>5. QED BY <1>4, <1>6, <1>16, <1>19, <1>20, <2>3, <2>4 DEF Abstract!IfStep
<1>22. CASE stack[sp] = 0 /\ Entry.else # 0 /\ Continue(Entry.else, regs.label_top + 1)
  <2>1. regs' = [ip |-> Entry.else, label_top |-> m] BY <1>5, <1>6, <1>22 DEF Continue
  <2>2. TopIs(AtPc(I, Entry.else)) BY <1>18, <2>1
  <2>3. Abstract!Put(AtPc(I, Entry.else)) /\ Abstract!Proceed /\ Held' BY <1>1, <2>2, TopPut
  <2>4. v[Len(v)] = 0 /\ Abstract!ElseOf(functions[f].code, p + 1) # 0 BY <1>9, <1>17, <1>22
  <2>5. Abstract!Put([I EXCEPT !.pc = Abstract!ElseOf(functions[f].code, p + 1)])
    BY <1>17, <2>3 DEF AtPc
  <2>6. QED BY <1>4, <1>6, <1>16, <1>19, <1>20, <2>3, <2>4, <2>5 DEF Abstract!IfStep
<1>23. CASE stack[sp] = 0 /\ Entry.else = 0 /\ Continue(EndTarget, regs.label_top)
  <2>1. regs' = [ip |-> ex, label_top |-> n] BY <1>5, <1>6, <1>23 DEF Continue
  <2>2. TopIs(Act(f, ex, L, BlocksFilled(B, n, stack', a, Len(stack'))))
    BY <1>1, <1>2, <1>8, <1>12, <2>1, SkipsView
  <2>3. BlocksFilled(B, n, stack', a, Len(stack')) = [B EXCEPT ![n].vals = w]
    BY <1>10, <1>11 DEF BlocksFilled, Slice
  <2>4. F = Act(f, p + 1, L, [B EXCEPT ![n].vals = w])
    <3>1. Seen(f, p, L, B, n, v) BY <1>1 DEF Place
    <3>2. Abstract!WithVals(w) = Act(f, p + 1, L, [B EXCEPT ![n].vals = w])
      BY ONLY <3>1, WithValsIs
    <3>3. QED BY <1>16, <3>2
  <2>5. [F EXCEPT !.pc = ex] = Act(f, ex, L, [B EXCEPT ![n].vals = w])
    <3>1. PICK C, y : C = [B EXCEPT ![n].vals = w] /\ y = p + 1 OBVIOUS
    <3>2. F = Act(f, y, L, C) BY <2>4, <3>1
    <3>3. [F EXCEPT !.pc = ex] = Act(f, ex, L, C) BY ONLY <3>2 DEF Act
    <3>4. QED BY <3>1, <3>3
  <2>6. TopIs([F EXCEPT !.pc = ex]) BY <2>2, <2>3, <2>5
  <2>7. Abstract!Put([F EXCEPT !.pc = ex]) /\ Abstract!Proceed /\ Held' BY <1>1, <2>6, TopPut
  <2>8. v[Len(v)] = 0 /\ Abstract!ElseOf(functions[f].code, p + 1) = 0 BY <1>9, <1>17, <1>23
  <2>9. Abstract!Put([F EXCEPT !.pc = Abstract!EndOf(functions[f].code, p + 1)])
    BY <1>17, <2>7
  <2>10. ~(v[Len(v)] # 0) /\ ~(Abstract!ElseOf(functions[f].code, p + 1) # 0) BY <2>8
  <2>11. QED BY <1>4, <1>6, <1>16, <1>19, <1>20, <2>7, <2>9, <2>10 DEF Abstract!IfStep
<1>24. QED
  <2>1. \/ stack[sp] # 0 /\ Step(regs.label_top + 1)
        \/ stack[sp] = 0 /\ Entry.else # 0 /\ Continue(Entry.else, regs.label_top + 1)
        \/ stack[sp] = 0 /\ Entry.else = 0 /\ Continue(EndTarget, regs.label_top)
    BY <1>17 DEF If
  <2>2. QED BY <1>21, <1>22, <1>23, <2>1

\* The frame goes on inside its m outermost blocks.
LEMMA LeavesView ==
  ASSUME ValInv, CtxInv, TypingInv, TypedCtx, Held, status = "running", UNCHANGED valVars,
         NEW g, NEW f, NEW T, NEW N, NEW p, NEW n, NEW base, NEW a, NEW L, NEW B, NEW v,
         Place(g, f, T, N, p, n, base, a, L, B, v),
         NEW m, m \in 1..n, NEW c, c = FirstOf(g.labels, base, m), StackKept(c),
         NEW h, NEW q, TopChange(g, h, q, m), LabelsStay(g, h, m)
  PROVE  TopIs(Act(f, q, L, BlocksPopped(B, m, stack', c, Len(stack'))))
<1>1. /\ g = frame /\ f = g.func /\ a \in Nat /\ base <= a /\ base \in Nat
      /\ base = Base(functions, g) /\ B = Blocks(g.labels, base, stack, n, sp)
  BY DEF Place, Standing
<1>2. /\ Carries(g.labels, base, n, sp, stack, stack', m, c, h.labels)
      /\ c \in Nat /\ base <= c /\ c <= a
  BY CarriesOver
<1>3. SubSeq(stack', g.locals + 1, base) = L /\ StackKept(g.locals) BY <1>2, LocalsKept
<1>4. TopIs(Act(g.func, q, SubSeq(stack', g.locals + 1, base),
                Blocks(h.labels, base, stack', m, Len(stack'))))
  BY <1>1, <1>3, FramePut
<1>7. PICK labels, ls, s, t, e, d : /\ labels = g.labels /\ ls = h.labels /\ s = stack
                                    /\ t = stack' /\ e = sp /\ d = Len(stack')
  OBVIOUS
<1>8. Blocks(ls, base, t, m, d) = BlocksPopped(Blocks(labels, base, s, n, e), m, t, c, d)
  <2>1. Carries(labels, base, n, e, s, t, m, c, ls) BY <1>2, <1>7
  <2>2. QED BY ONLY <2>1, BlocksPop
<1>9. Blocks(h.labels, base, stack', m, Len(stack')) = BlocksPopped(B, m, stack', c, Len(stack'))
  BY <1>1, <1>7, <1>8
<1>10. QED BY <1>1, <1>3, <1>4, <1>9

\* w are the operands above slot a of s, what is left of the stack.
Leaving(s, a, w, k) ==
  /\ s \in Seq(Nat) /\ stack \in Seq(Nat) /\ Len(s) <= sp /\ a \in Nat /\ a <= Len(s)
  /\ \A i \in 1..Len(s) : s[i] = stack[i]
  /\ w = Slice(s, a, Len(s)) /\ k \in Nat /\ k <= Len(s) - a

\* The k topmost slots of s move down to c, over a block that begins at d.
MovesDown(s, a, d, c, k) ==
  d \in Nat /\ c \in Nat /\ d <= c /\ c <= a /\ stack' = Unwound(s, c, k)

MovedDown(s, w, k, d, c) ==
  /\ StackKept(d) /\ Len(w) >= k
  /\ Slice(stack', d, Len(stack')) = Slice(s, d, c) \o Abstract!TopOf(w, k)
  /\ Slice(s, d, c) = Slice(stack, d, c)

LEMMA LeavingTop ==
  ASSUME NEW s, NEW a, NEW w, NEW k, Leaving(s, a, w, k),
         NEW d, NEW c, MovesDown(s, a, d, c, k)
  PROVE  MovedDown(s, w, k, d, c)
<1>1. PICK m, e, t, S, z : m = Len(s) /\ e = m - k /\ t = stack' /\ S = stack /\ z = c + k OBVIOUS
<1>2. /\ s \in Seq(Nat) /\ S \in Seq(Nat) /\ m \in Nat /\ a \in Nat /\ a <= m /\ m <= Len(S)
      /\ k \in Nat /\ k <= m - a /\ d \in Nat /\ c \in Nat /\ d <= c /\ c <= a
      /\ t = Unwound(s, c, k) /\ (\A i \in 1..m : s[i] = S[i]) /\ w = Slice(s, a, m)
  BY <1>1 DEF Leaving, MovesDown, sp
<1>3. /\ c <= m /\ k <= m /\ d <= m /\ c <= Len(S) /\ z \in Nat /\ d <= z
      /\ \A i \in 1..d : i \in 1..c /\ i \in 1..m
  BY ONLY <1>1, <1>2
<1>4. t \in Seq(Nat) /\ Len(t) = z
  <2>1. c <= Len(s) /\ k <= Len(s) BY <1>1, <1>3
  <2>2. Unwound(s, c, k) \in Seq(Nat) /\ Len(Unwound(s, c, k)) = c + k
    BY ONLY <1>2, <2>1, UnwoundNat
  <2>3. QED BY <1>1, <1>2, <2>2
<1>5. /\ SubSeq(t, d + 1, c + k) = SubSeq(s, d + 1, c) \o SubSeq(s, Len(s) - k + 1, Len(s))
      /\ \A i \in 1..c : t[i] = s[i]
  <2>1. Unwinds(s, d, c, k) BY <1>1, <1>2, <1>3 DEF Unwinds
  <2>2. UnwoundTo(s, d, c, k) BY ONLY <2>1, UnwoundSlice
  <2>3. QED BY <1>2, <2>2 DEF UnwoundTo
<1>6. Abstract!TopOf(w, k) = Slice(s, e, m)
  <2>1. Parts(s, a, m, k, e) BY <1>1, <1>2 DEF Parts
  <2>2. Abstract!TopOf(Slice(s, a, m), k) = Slice(s, e, m) BY ONLY <2>1, PartsOf
  <2>3. QED BY <1>2, <2>2
<1>7. Slice(t, d, z) = Slice(s, d, c) \o Abstract!TopOf(w, k)
  BY <1>1, <1>5, <1>6 DEF Slice
<1>8. Slice(s, d, c) = Slice(S, d, c)
  <2>1. \A i \in (d + 1)..c : i \in 1..m BY ONLY <1>2, <1>3
  <2>2. \A i \in (d + 1)..c : s[i] = S[i] BY <1>2, <2>1
  <2>3. c <= Len(s) /\ c <= Len(S) BY <1>1, <1>3
  <2>4. Alike(S, s, d, c) BY ONLY <1>2, <2>2, <2>3 DEF Alike
  <2>5. QED BY ONLY <2>4, SliceAlike
<1>9. \A i \in 1..d : t[i] = S[i] BY <1>2, <1>3, <1>5
<1>10. StackKept(d)
  <2>1. d <= Len(t) BY <1>3, <1>4
  <2>2. QED BY <1>1, <1>4, <1>9, <2>1 DEF StackKept
<1>11. Len(w) >= k
  <2>1. Len(SubSeq(s, a + 1, m)) = m - a
    <3>1. m <= Len(s) BY <1>1, <1>2
    <3>2. QED BY ONLY <1>2, <3>1, SliceFacts
  <2>2. QED BY <1>2, <2>1 DEF Slice
<1>12. QED BY <1>1, <1>4, <1>7, <1>8, <1>10, <1>11 DEF MovedDown

OuterBlocks(B, m, x, w, k) == [SubSeq(B, 1, m) EXCEPT ![m].vals = x \o Abstract!TopOf(w, k)]

\* What the abstract machine keeps, for the blocks of B.
LEMMA OuterIs ==
  ASSUME NEW f, NEW p, NEW L, NEW B, NEW n, NEW v, Seen(f, p, L, B, n, v), n \in Nat,
         NEW j, NEW m, m = n - j, m \in 1..n, NEW x, NEW y, B[m] = BlockOf(y, x),
         NEW w, NEW k
  PROVE  Abstract!Outer(j, w, k) = OuterBlocks(B, m, x, w, k)
<1>1. Abstract!cur.blocks = B /\ Abstract!nest = n /\ ASeq(B) /\ Len(B) = n
  BY DEF Seen, Act
<1>2. PICK C : C = SubSeq(B, 1, m) OBVIOUS
<1>3. C[m] = B[m]
  <2>1. PICK S : B \in Seq(S) BY <1>1 DEF ASeq
  <2>2. m \in Nat /\ m >= 1 /\ m <= Len(B) BY <1>1
  <2>3. QED BY <1>2, <2>1, <2>2
<1>4. C[m].vals = x BY <1>3, BlockVals
<1>5. Abstract!Outer(j, w, k) = [C EXCEPT ![m].vals = C[m].vals \o Abstract!TopOf(w, k)]
  BY <1>1, <1>2 DEF Abstract!Outer
<1>6. QED BY <1>2, <1>4, <1>5 DEF OuterBlocks

\* Block m is cut off where the label of block m + 1 begins.
LEMMA BlockBelow ==
  ASSUME NEW g, NEW f, NEW T, NEW N, NEW p, NEW n, NEW base, NEW a, NEW L, NEW B, NEW v,
         Place(g, f, T, N, p, n, base, a, L, B, v),
         NEW m, NEW i, m \in 1..n, i \in 2..n, i = m + 1,
         NEW d, d = FirstOf(g.labels, base, m), NEW c, c = g.labels[i].stack_top
  PROVE  /\ B[m] = BlockOf(g.labels[m], Slice(stack, d, c))
         /\ c = FirstOf(g.labels, base, i) /\ d \in Nat /\ c \in Nat /\ d <= c /\ c <= a
<1>1. /\ n \in Nat /\ n > 0 /\ B = Blocks(g.labels, base, stack, n, sp)
      /\ a = FirstOf(g.labels, base, n) /\ Cut(g.labels, base, n, sp)
  BY DEF Place
<1>2. BlocksAre(B, g.labels, base, stack, n, sp)
  <2>1. BlocksAre(Blocks(g.labels, base, stack, n, sp), g.labels, base, stack, n, sp)
    BY <1>1, BlocksFacts
  <2>2. QED BY <1>1, <2>1
<1>3. m # n /\ i # 1 /\ i \in 1..n /\ n \in 1..n /\ m <= i /\ i <= n BY <1>1
<1>4. LastOf(g.labels, n, sp, m) = c BY <1>3 DEF LastOf
<1>5. B[m] = BlockOf(g.labels[m], SubSeq(stack, d + 1, c)) BY <1>2, <1>4 DEF BlocksAre
<1>6. c = FirstOf(g.labels, base, i) BY <1>3 DEF FirstOf
<1>7. d \in Nat /\ c \in Nat BY <1>1, <1>3, <1>6 DEF Cut
<1>8. d <= c /\ c <= a BY <1>1, <1>3, <1>6 DEF Cut
<1>9. QED BY <1>5, <1>6, <1>7, <1>8 DEF Slice

\* The frame leaves the blocks above m with the k topmost operands of w.
LEMMA OutView ==
  ASSUME ValInv, CtxInv, TypingInv, TypedCtx, Held, status = "running", UNCHANGED valVars,
         NEW g, NEW f, NEW T, NEW N, NEW p, NEW n, NEW base, NEW a, NEW L, NEW B, NEW v,
         Place(g, f, T, N, p, n, base, a, L, B, v),
         NEW s, NEW w, NEW k, Leaving(s, a, w, k),
         NEW j, NEW m, m = n - j, m \in 1..n, NEW i, i = m + 1, i \in 2..n,
         NEW c, c = g.labels[i].stack_top, stack' = Unwound(s, c, k),
         NEW h, NEW q, TopChange(g, h, q, m), LabelsStay(g, h, m)
  PROVE  TopIs(Act(f, q, L, Abstract!Outer(j, w, k))) /\ Len(w) >= k
<1>1. PICK d, x, y, t : /\ d = FirstOf(g.labels, base, m) /\ x = Slice(stack, d, c)
                        /\ y = g.labels[m] /\ t = stack'
  OBVIOUS
<1>2. B[m] = BlockOf(y, x) /\ d \in Nat /\ c \in Nat /\ d <= c /\ c <= a
  <2>1. /\ B[m] = BlockOf(g.labels[m], Slice(stack, d, c)) /\ d \in Nat /\ c \in Nat
        /\ d <= c /\ c <= a
    BY <1>1, BlockBelow
  <2>2. QED BY <1>1, <2>1
<1>3. MovedDown(s, w, k, d, c)
  <2>1. MovesDown(s, a, d, c, k) BY <1>2 DEF MovesDown
  <2>2. QED BY ONLY Leaving(s, a, w, k), <2>1, LeavingTop
<1>4. StackKept(d) /\ Len(w) >= k /\ Slice(t, d, Len(t)) = x \o Abstract!TopOf(w, k)
  BY <1>1, <1>3 DEF MovedDown
<1>5. TopIs(Act(f, q, L, BlocksPopped(B, m, stack', d, Len(stack'))))
  BY <1>1, <1>4, LeavesView
<1>6. BlocksPopped(B, m, stack', d, Len(stack')) = OuterBlocks(B, m, x, w, k)
  BY <1>1, <1>4 DEF BlocksPopped, OuterBlocks, Slice
<1>7. Seen(f, p, L, B, n, v) /\ n \in Nat BY DEF Place
<1>8. Abstract!Outer(j, w, k) = OuterBlocks(B, m, x, w, k)
  <2>1. m = n - j /\ m \in 1..n OBVIOUS
  <2>2. QED BY ONLY <1>2, <1>7, <2>1, OuterIs
<1>9. QED BY <1>4, <1>5, <1>6, <1>8

\* No slots between c and c.
NoneBefore(s, c) == Slice(s, c, c) = << >>

LEMMA EmptySlice ==
  ASSUME NEW s, s \in Seq(Nat), NEW c, c \in Nat, c <= Len(s) PROVE NoneBefore(s, c)
<1>1. SubSeq(s, c + 1, c) \in Seq(Nat) /\ Len(SubSeq(s, c + 1, c)) = 0 BY SliceFacts
<1>2. SubSeq(s, c + 1, c) = << >> BY ONLY <1>1
<1>3. QED BY <1>2 DEF NoneBefore, Slice

LEMMA EmptyBefore == ASSUME NEW r, r \in Seq(Nat) PROVE << >> \o r = r
OBVIOUS

\* The operands of block m are the k topmost ones of w.
LoopBlocks(B, m, w, k) == [SubSeq(B, 1, m) EXCEPT ![m].vals = Abstract!TopOf(w, k)]

LEMMA LeavingNat ==
  ASSUME NEW s, NEW a, NEW w, NEW k, Leaving(s, a, w, k)
  PROVE  Abstract!TopOf(w, k) \in Seq(Nat)
<1>1. PICK m, e : m = Len(s) /\ e = m - k OBVIOUS
<1>2. /\ s \in Seq(Nat) /\ m \in Nat /\ a \in Nat /\ a <= m /\ k \in Nat /\ k <= m - a
      /\ w = Slice(s, a, m) /\ e \in Nat /\ e <= m /\ m <= Len(s)
  BY <1>1 DEF Leaving
<1>3. Parts(s, a, m, k, e) BY <1>1, <1>2 DEF Parts
<1>4. Abstract!TopOf(Slice(s, a, m), k) = Slice(s, e, m) BY ONLY <1>3, PartsOf
<1>5. SubSeq(s, e + 1, m) \in Seq(Nat) BY ONLY <1>2, SliceFacts
<1>6. QED BY <1>2, <1>4, <1>5 DEF Slice

\* The frame goes back to the head of the loop that is block m.
LEMMA BackView ==
  ASSUME ValInv, CtxInv, TypingInv, TypedCtx, Held, status = "running", UNCHANGED valVars,
         NEW g, NEW f, NEW T, NEW N, NEW p, NEW n, NEW base, NEW a, NEW L, NEW B, NEW v,
         Place(g, f, T, N, p, n, base, a, L, B, v),
         NEW s, NEW w, NEW k, Leaving(s, a, w, k),
         NEW m, m \in 2..n, NEW c, c = g.labels[m].stack_top, stack' = Unwound(s, c, k),
         NEW h, NEW q, TopChange(g, h, q, m), LabelsStay(g, h, m)
  PROVE  TopIs(Act(f, q, L, LoopBlocks(B, m, w, k))) /\ Len(w) >= k
<1>1. /\ n \in Nat /\ n > 0 /\ a \in Nat /\ a = FirstOf(g.labels, base, n)
      /\ Cut(g.labels, base, n, sp)
  BY DEF Place
<1>2. m \in 1..n /\ n \in 1..n /\ m <= n /\ m # 1 BY <1>1
<1>3. c = FirstOf(g.labels, base, m) BY <1>2 DEF FirstOf
<1>4. c \in Nat /\ c <= a BY <1>1, <1>2, <1>3 DEF Cut
<1>5. MovedDown(s, w, k, c, c)
  <2>1. MovesDown(s, a, c, c, k) BY <1>4 DEF MovesDown
  <2>2. QED BY ONLY Leaving(s, a, w, k), <2>1, LeavingTop
<1>6. PICK t : t = stack' OBVIOUS
<1>7. /\ StackKept(c) /\ Len(w) >= k
      /\ Slice(t, c, Len(t)) = Slice(s, c, c) \o Abstract!TopOf(w, k)
  BY <1>5, <1>6 DEF MovedDown
<1>8. Slice(s, c, c) = << >>
  <2>1. s \in Seq(Nat) /\ a <= Len(s) BY DEF Leaving
  <2>2. c <= Len(s) BY <1>1, <1>4, <2>1
  <2>3. NoneBefore(s, c) BY ONLY <1>4, <2>1, <2>2, EmptySlice
  <2>4. QED BY <2>3 DEF NoneBefore
<1>9. Slice(t, c, Len(t)) = Abstract!TopOf(w, k)
  <2>1. Abstract!TopOf(w, k) \in Seq(Nat) BY ONLY Leaving(s, a, w, k), LeavingNat
  <2>2. << >> \o Abstract!TopOf(w, k) = Abstract!TopOf(w, k) BY ONLY <2>1, EmptyBefore
  <2>3. QED BY <1>7, <1>8, <2>2
<1>10. TopIs(Act(f, q, L, BlocksPopped(B, m, stack', c, Len(stack'))))
  BY <1>2, <1>3, <1>7, LeavesView
<1>11. BlocksPopped(B, m, stack', c, Len(stack')) = LoopBlocks(B, m, w, k)
  BY <1>6, <1>9 DEF BlocksPopped, LoopBlocks, Slice
<1>12. QED BY <1>7, <1>10, <1>11

\* What the label on top and the operands above it say at an end or an else.
LEMMA ClosesHere ==
  ASSUME NEW g, NEW f, NEW T, NEW N, NEW p, NEW n, NEW base, NEW a, NEW L, NEW B, NEW v,
         Place(g, f, T, N, p, n, base, a, L, B, v), instr.op \in {"end", "else"}, NEW l, l = g.labels[n]
  PROVE  /\ Len(v) = l.results /\ l.results \in Nat /\ label = l
         /\ n > 1 => l.stack_top = a
         /\ instr.op = "else" => n > 1
         /\ n = 1 => a = base /\ l.results = functions[f].results
<1>1. /\ g = frame /\ n = regs.label_top /\ n \in Nat /\ n > 0 /\ a \in Nat
      /\ a = base + InnerCtrl(T[p]).height /\ base \in Nat /\ sp \in Nat /\ base <= sp
      /\ a = FirstOf(g.labels, base, n) /\ Len(v) = sp - a /\ T[p].h = sp - base
      /\ Formed(T[p], functions[f].results) /\ T[p] \in States /\ T[p].ctrls # << >>
      /\ n = Len(T[p].ctrls) /\ InnerCtrl(T[p]) = T[p].ctrls[n]
      /\ ~InnerCtrl(T[p]).dead /\ InnerCtrl(T[p]).results \in Nat
      /\ InnerCtrl(T[p]).height \in Nat
      /\ Checks(T[p], T[p + 1], instr, Signatures) /\ f = g.func
      /\ Placed(functions, g, p, n, sp - base) /\ Seated(T, N, base, g.labels, p, n, sp - base)
  BY DEF Place, Standing
<1>n. n \in Nat /\ n > 0 BY <1>1
<1>2. PICK t, ctrl, x : t = T[p] /\ ctrl = InnerCtrl(T[p]) /\ x = sp OBVIOUS
<1>3. t.h = ctrl.height + ctrl.results
  <2>1. CASE instr.op = "end" BY <1>1, <1>2, <2>1 DEF Checks, Closes
  <2>2. CASE instr.op = "else" BY <1>1, <1>2, <2>2 DEF Checks, Turns
  <2>3. QED BY <2>1, <2>2
<1>4. Len(v) = ctrl.results
  <2>1. /\ t.h = x - base /\ a = base + ctrl.height /\ Len(v) = x - a /\ x \in Nat
        /\ base \in Nat /\ ctrl.height \in Nat /\ ctrl.results \in Nat
    BY <1>1, <1>2
  <2>2. QED BY ONLY <1>3, <2>1
<1>5. l.results = ctrl.results
  <2>1. CASE n = 1
    <3>1. l.results = functions[f].results BY <1>1, <2>1 DEF Placed
    <3>2. t.ctrls[1].results = functions[f].results BY <1>1, <1>2 DEF Formed
    <3>3. QED BY <1>1, <1>2, <2>1, <3>1, <3>2
  <2>2. CASE n # 1
    <3>1. n \in 2..n BY ONLY <1>n, <2>2
    <3>2. LabelFits(T, N, T[p], n, base, g.labels[n]) BY <1>1, <3>1 DEF Seated
    <3>3. QED BY <1>1, <1>2, <3>2 DEF LabelFits
  <2>3. QED BY <2>1, <2>2
<1>6. label = l BY <1>1 DEF label
<1>7. n > 1 => l.stack_top = a
  <2>1. a = FirstOf(g.labels, base, n) BY DEF Place
  <2>2. n > 1 => n # 1 BY <1>n
  <2>3. QED BY <2>1, <2>2 DEF FirstOf
<1>8. n = 1 => a = base /\ l.results = functions[f].results
  BY <1>1 DEF FirstOf, Placed
<1>9. instr.op = "else" => n > 1
  <2>0. n > 1 \/ n = 1 BY ONLY <1>n
  <2>1. SUFFICES ASSUME instr.op = "else", n = 1 PROVE FALSE BY <2>0
  <2>2. ctrl.op = "if" BY <1>1, <1>2, <2>1 DEF Checks, Turns
  <2>3. 1 \in 1..Len(t.ctrls) BY <1>1, <1>2, <2>1
  <2>4. t.ctrls[1].op = "func" BY <1>1, <1>2, <2>3 DEF Formed
  <2>5. QED BY <1>1, <1>2, <2>1, <2>2, <2>4
<1>10. QED BY <1>1, <1>2, <1>4, <1>5, <1>6, <1>7, <1>8, <1>9

\* An end, or an else that a then-branch runs into, inside a block.
LEMMA EndsBlock ==
  ASSUME ValInv, CtxInv, TypingInv, TypedCtx, Held, status = "running", UNCHANGED valVars,
         NEW g, NEW f, NEW T, NEW N, NEW p, NEW n, NEW base, NEW a, NEW L, NEW B, NEW v,
         Place(g, f, T, N, p, n, base, a, L, B, v), instr.op \in {"end", "else"}, n > 1, NEW l, l = g.labels[n],
         stack' = Unwound(stack, l.stack_top, l.results),
         NEW q, q = (IF instr.op = "else" THEN l.pc ELSE p + 1),
         NEW m, m = n - 1, TopChange(g, g, q, m)
  PROVE  Abstract!EndStep /\ Held'
<1>1. /\ n \in Nat /\ n > 0 /\ Seen(f, p, L, B, n, v) /\ a \in Nat /\ a <= sp
      /\ stack \in Seq(Nat) /\ sp = Len(stack) /\ v = SubSeq(stack, a + 1, sp)
      /\ Len(v) = sp - a
  BY DEF Place, Standing
<1>2. Len(v) = l.results /\ l.results \in Nat BY ClosesHere
<1>3. B[n] = BlockOf(l, v) BY BlockHere
<1>4. PICK k, c, x : k = l.results /\ c = l.stack_top /\ x = sp OBVIOUS
<1>5. Leaving(stack, a, v, k)
  <2>1. k \in Nat /\ k <= Len(stack) - a BY <1>1, <1>2, <1>4
  <2>2. Len(stack) <= sp /\ a <= Len(stack) BY <1>1
  <2>3. v = Slice(stack, a, Len(stack)) BY <1>1 DEF Slice
  <2>4. QED BY <1>1, <2>1, <2>2, <2>3 DEF Leaving
<1>6. TopIs(Act(f, q, L, Abstract!Outer(1, v, k)))
  <2>1. m = n - 1 /\ m \in 1..n /\ n = m + 1 /\ n \in 2..n BY ONLY <1>1, n > 1, m = n - 1
  <2>2. LabelsStay(g, g, m) BY DEF LabelsStay
  <2>3. c = g.labels[n].stack_top /\ stack' = Unwound(stack, c, k) BY <1>4
  <2>4. QED BY <1>5, <2>1, <2>2, <2>3, OutView
<1>7. PICK O : O = Abstract!Outer(1, v, k) OBVIOUS
<1>8. Abstract!Put(Act(f, q, L, O)) /\ Abstract!Proceed /\ Held' BY <1>6, <1>7, TopPut
<1>9. /\ Abstract!cur = Act(f, p, L, B) /\ Abstract!nest = n /\ Abstract!vals = v
      /\ Abstract!ins = instr /\ Abstract!Executing({"end", "else"})
  BY <1>1 DEF Seen
<1>10. Abstract!cur.blocks[Abstract!nest] = BlockOf(l, v) BY <1>3, <1>9 DEF Act
<1>11. BlockOf(l, v).results = k /\ BlockOf(l, v).exit = l.pc BY <1>4, BlockVals
<1>12. PICK b : b = Abstract!cur.blocks[Abstract!nest] OBVIOUS
<1>13. b.results = k /\ b.exit = l.pc BY <1>10, <1>11, <1>12
<1>14. [Abstract!cur EXCEPT !.blocks = O,
          !.pc = IF Abstract!ins.op = "else" THEN b.exit ELSE @ + 1] = Act(f, q, L, O)
  <2>1. PICK A, y : A = Abstract!cur /\ y = p + 1 OBVIOUS
  <2>2. A = Act(f, p, L, B) BY <1>9, <2>1
  <2>c. PICK C, D : C = [A EXCEPT !.blocks = O] /\ D = Act(f, p, L, O) OBVIOUS
  <2>d. C = D BY ONLY <2>2, <2>c, ActExcept
  <2>3. q = (IF Abstract!ins.op = "else" THEN b.exit ELSE y) BY <1>9, <1>13, <2>1
  <2>4. CASE Abstract!ins.op = "else"
    <3>1. PICK e : e = b.exit OBVIOUS
    <3>2. [A EXCEPT !.blocks = O, !.pc = e] = Act(f, e, L, O)
      <4>1. [D EXCEPT !.pc = e] = Act(f, e, L, O) BY ONLY <2>c, ActExcept
      <4>2. QED BY <2>c, <2>d, <4>1
    <3>3. QED BY <2>1, <2>3, <2>4, <3>1, <3>2
  <2>5. CASE Abstract!ins.op # "else"
    <3>1. [A EXCEPT !.blocks = O, !.pc = y] = Act(f, y, L, O)
      <4>1. [D EXCEPT !.pc = y] = Act(f, y, L, O) BY ONLY <2>c, ActExcept
      <4>2. QED BY <2>c, <2>d, <4>1
    <3>2. A.pc = p BY ONLY <2>2 DEF Act
    <3>3. QED BY <2>1, <2>3, <2>5, <3>1, <3>2
  <2>6. QED BY <2>4, <2>5
<1>15. Abstract!Put([Abstract!cur EXCEPT
                       !.blocks = Abstract!Outer(1, Abstract!vals, b.results),
                       !.pc = IF Abstract!ins.op = "else" THEN b.exit ELSE @ + 1])
  BY <1>7, <1>8, <1>9, <1>13, <1>14
<1>16. Abstract!nest > 1 /\ Len(Abstract!vals) = b.results BY <1>2, <1>4, <1>9, <1>13
<1>17. QED BY <1>8, <1>9, <1>12, <1>15, <1>16 DEF Abstract!EndStep

LEMMA UnwoundAll ==
  ASSUME NEW s, s \in Seq(Nat), NEW d, d \in Nat, NEW k, k \in Nat, Len(s) = d + k
  PROVE  Unwound(s, d, k) = s
<1>1. PICK t, m : t = Unwound(s, d, k) /\ m = d + k OBVIOUS
<1>2. d <= Len(s) /\ k <= Len(s) /\ m \in Nat /\ Len(s) = m BY <1>1
<1>3. t \in Seq(Nat) /\ Len(t) = m BY <1>1, <1>2, UnwoundNat
<1>4. /\ SubSeq(t, d + 1, d + k) = SubSeq(s, d + 1, d) \o SubSeq(s, Len(s) - k + 1, Len(s))
      /\ \A i \in 1..d : t[i] = s[i]
  <2>1. Unwinds(s, d, d, k) BY <1>2 DEF Unwinds
  <2>2. UnwoundTo(s, d, d, k) BY ONLY <2>1, UnwoundSlice
  <2>3. QED BY <1>1, <2>2 DEF UnwoundTo
<1>5. SubSeq(t, d + 1, m) = SubSeq(s, d + 1, m)
  <2>1. SubSeq(s, d + 1, d) = << >>
    <3>1. NoneBefore(s, d) BY <1>2, EmptySlice
    <3>2. QED BY <3>1 DEF NoneBefore, Slice
  <2>2. Len(s) - k + 1 = d + 1 BY <1>2
  <2>3. SubSeq(s, d + 1, m) \in Seq(Nat) BY <1>2, SliceFacts
  <2>4. << >> \o SubSeq(s, d + 1, m) = SubSeq(s, d + 1, m) BY ONLY <2>3, EmptyBefore
  <2>5. SubSeq(s, Len(s) - k + 1, Len(s)) = SubSeq(s, d + 1, m) BY <1>2, <2>2
  <2>6. QED BY <1>1, <1>4, <2>1, <2>4, <2>5
<1>6. ASSUME NEW i \in 1..m PROVE t[i] = s[i]
  <2>1. CASE i <= d
    <3>1. i \in 1..d BY <2>1
    <3>2. QED BY <1>4, <3>1
  <2>2. CASE i > d
    <3>1. PICK j : j = i - d OBVIOUS
    <3>2. j \in 1..(m - d) /\ d + j = i BY <1>2, <2>2, <3>1
    <3>3. SubSeq(t, d + 1, m)[j] = t[d + j]
      <4>1. d <= m /\ m <= Len(t) BY <1>2, <1>3
      <4>2. QED BY ONLY <1>2, <1>3, <3>2, <4>1, d \in Nat, SliceFacts
    <3>4. SubSeq(s, d + 1, m)[j] = s[d + j]
      <4>1. d <= m /\ m <= Len(s) BY <1>2
      <4>2. QED BY ONLY <1>2, <3>2, <4>1, d \in Nat, s \in Seq(Nat), SliceFacts
    <3>5. QED BY <1>5, <3>2, <3>3, <3>4
  <2>3. QED BY <1>2, <2>1, <2>2
<1>7. t = s BY <1>2, <1>3, <1>6, SameNat
<1>8. QED BY <1>1, <1>7

LEMMA TopStays ==
  ASSUME ValInv, CtxInv, status = "running", UNCHANGED <<valVars, call_stack, status>>,
         NEW q, NEW m, regs' = [ip |-> q, label_top |-> m]
  PROVE  TopChange(frame, frame, q, m)
BY DEF TopChange, frame, top

LEMMA ElseImplements == ASSUME ValInv, CtxInv, TypingInv, TypedCtx, Held, Else PROVE Abstract!EndStep /\ Held'
<1>1. PICK g, f, T, N, p, n, base, a, L, B, v : Place(g, f, T, N, p, n, base, a, L, B, v)
  BY PlaceHere DEF Else, Running
<1>2. /\ status = "running" /\ instr.op = "else" /\ UNCHANGED <<valVars, stack>>
  BY DEF Else, Running, instr
<1>3. PICK l : l = g.labels[n] OBVIOUS
<1>4. /\ Len(v) = l.results /\ l.results \in Nat /\ label = l /\ n > 1 /\ l.stack_top = a
  <2>1. instr.op \in {"end", "else"} BY <1>2
  <2>2. QED BY <1>1, <1>2, <1>3, <2>1, ClosesHere
<1>5. /\ n = regs.label_top /\ g = frame /\ stack \in Seq(Nat) /\ sp = Len(stack)
      /\ Len(v) = sp - a /\ a \in Nat /\ n \in Nat /\ sp \in Nat
  BY <1>1 DEF Place, Standing
<1>6. PICK q, m : q = l.pc /\ m = n - 1 OBVIOUS
<1>7. /\ regs' = [ip |-> q, label_top |-> m] /\ UNCHANGED <<valVars, call_stack, status>>
  <2>1. regs.label_top # 0 BY <1>4, <1>5
  <2>2. QED BY <1>4, <1>5, <1>6, <2>1 DEF Else, Continue
<1>8. TopChange(g, g, q, m) BY <1>2, <1>5, <1>7, TopStays
<1>9. stack' = Unwound(stack, l.stack_top, l.results)
  <2>1. Len(stack) = a + l.results BY <1>4, <1>5
  <2>2. Unwound(stack, a, l.results) = stack BY <1>4, <1>5, <2>1, UnwoundAll
  <2>3. QED BY <1>2, <1>4, <2>2
<1>10. QED BY <1>1, <1>2, <1>3, <1>4, <1>6, <1>8, <1>9, EndsBlock

LEMMA EndInner ==
  ASSUME ValInv, CtxInv, TypingInv, TypedCtx, Held, End, regs.label_top > 1 PROVE Abstract!EndStep /\ Held'
<1>1. PICK g, f, T, N, p, n, base, a, L, B, v : Place(g, f, T, N, p, n, base, a, L, B, v)
  BY PlaceHere DEF End, Running
<1>2. /\ status = "running" /\ instr.op = "end" BY DEF End, Running, instr
<1>3. PICK l : l = g.labels[n] OBVIOUS
<1>4. label = l
  <2>1. instr.op \in {"end", "else"} BY <1>2
  <2>2. QED BY <1>1, <1>2, <1>3, <2>1, ClosesHere
<1>5. n = regs.label_top /\ g = frame /\ n \in Nat /\ p = regs.ip /\ n > 1
  BY <1>1 DEF Place, Standing
<1>6. PICK q, m : q = p + 1 /\ m = n - 1 OBVIOUS
<1>7. /\ regs' = [ip |-> q, label_top |-> m] /\ UNCHANGED <<valVars, call_stack, status>>
      /\ stack' = Unwound(stack, l.stack_top, l.results)
  <2>1. regs.label_top # 0 /\ ~(regs.label_top <= 1) BY <1>5
  <2>2. QED BY <1>4, <1>5, <1>6, <2>1 DEF End, Step, Continue
<1>8. TopChange(g, g, q, m) BY <1>2, <1>5, <1>7, TopStays
<1>9. UNCHANGED valVars BY <1>7
<1>10. QED BY <1>1, <1>2, <1>3, <1>5, <1>6, <1>7, <1>8, <1>9, EndsBlock

\* What is left of the blocks B of which n are open, after a branch to l.
Jumped(B, i, j, w, k, loop) == IF loop THEN LoopBlocks(B, i, w, k) ELSE Abstract!Outer(j, w, k)

\* A branch of the abstract machine, to the block with the label t.
LEMMA JumpIs ==
  ASSUME NEW g, NEW f, NEW T, NEW N, NEW p, NEW n, NEW base, NEW a, NEW L, NEW B, NEW v,
         Place(g, f, T, N, p, n, base, a, L, B, v),
         NEW l, l \in Nat, l < n - 1, NEW i, i = n - l, NEW j, j = l + 1,
         NEW t, NEW x, B[i] = BlockOf(t, x), NEW w, NEW k, Len(w) >= k,
         k = (IF t.opcode = "loop" THEN t.params ELSE t.results),
         NEW q, q = t.pc, TopIs(Act(f, q, L, Jumped(B, i, j, w, k, t.opcode = "loop")))
  PROVE  Abstract!Jump(w, l) /\ Held'
<1>1. Abstract!cur = Act(f, p, L, B) /\ Abstract!nest = n BY DEF Place, Seen
<1>2. PICK A, C, D, b, Z : /\ A = Abstract!cur /\ C = [A EXCEPT !.pc = q]
                           /\ D = Act(f, q, L, B) /\ b = A.blocks[Abstract!nest - l]
                           /\ Z = Jumped(B, i, j, w, k, t.opcode = "loop")
  OBVIOUS
<1>3. A = Act(f, p, L, B) /\ n = Abstract!nest BY <1>1, <1>2
<1>4. C = D BY ONLY <1>2, <1>3, ActExcept
<1>5. D.blocks = B /\ A.blocks = B /\ [D EXCEPT !.blocks = Z] = Act(f, q, L, Z)
  BY ONLY <1>2, <1>3, ActExcept
<1>6. b = BlockOf(t, x) BY <1>2, <1>3, <1>5
<1>7. b.exit = q /\ b.arity = k /\ b.loop = (t.opcode = "loop") BY <1>6, BlockVals
<1>8. Z = (IF b.loop THEN [SubSeq(C.blocks, 1, i) EXCEPT ![i].vals = Abstract!TopOf(w, b.arity)]
           ELSE Abstract!Outer(j, w, b.arity))
  BY <1>2, <1>4, <1>5, <1>7 DEF Jumped, LoopBlocks
<1>9. [A EXCEPT !.pc = b.exit, !.blocks =
         IF b.loop THEN [SubSeq(@, 1, i) EXCEPT ![i].vals = Abstract!TopOf(w, b.arity)]
         ELSE Abstract!Outer(j, w, b.arity)] = Act(f, q, L, Z)
  <2>1. C = [A EXCEPT !.pc = b.exit] BY <1>2, <1>7
  <2>2. [C EXCEPT !.blocks = Z] = Act(f, q, L, Z) BY <1>4, <1>5
  <2>3. QED BY <1>8, <2>1, <2>2
<1>10. Abstract!Put(Act(f, q, L, Z)) /\ Abstract!Proceed /\ Held' BY <1>2, TopPut
<1>11. /\ i = Abstract!nest - l /\ j = l + 1 /\ l < Abstract!nest - 1 /\ Len(w) >= b.arity
  BY <1>3, <1>7
<1>12. QED BY <1>2, <1>9, <1>10, <1>11 DEF Abstract!Jump

\* The label t that a branch to l finds, and the labels m that it leaves.
BranchAt(g, n, l, k, t, i, m) ==
  /\ i = n - l /\ t = g.labels[i] /\ i \in 2..n /\ l < n - 1
  /\ k = (IF t.opcode = "loop" THEN t.params ELSE t.results)
  /\ m = (IF t.opcode = "loop" THEN i ELSE i - 1)

LEMMA BranchTarget ==
  ASSUME Features = {}, NEW g, NEW f, NEW T, NEW N, NEW p, NEW n, NEW base,
         Standing(g, f, T, N, p, n, base),
         NEW l, l \in Nat, LabelOk(T[p], l), NEW k, k = Arity(T[p], l)
  PROVE  \E t, i, m : BranchAt(g, n, l, k, t, i, m)
<1>1. /\ n = Len(T[p].ctrls) /\ n \in Nat /\ n > 0
      /\ Seated(T, N, base, g.labels, p, n, sp - base) /\ T[p] \in States
  BY DEF Standing
<1>2. l < n - 1 BY <1>1 DEF LabelOk
<1>3. PICK t, i, m : /\ i = n - l /\ t = g.labels[i]
                     /\ m = (IF t.opcode = "loop" THEN i ELSE i - 1)
  OBVIOUS
<1>4. i \in 2..n BY ONLY <1>1, <1>2, <1>3, l \in Nat
<1>5. LabelFits(T, N, T[p], i, base, t) BY <1>1, <1>3, <1>4 DEF Seated
<1>6. k = (IF t.opcode = "loop" THEN t.params ELSE t.results)
  BY <1>1, <1>3, <1>5 DEF LabelFits, Arity, Target
<1>7. QED BY <1>2, <1>3, <1>4, <1>6 DEF BranchAt

LEMMA BranchWrites ==
  ASSUME ValInv, CtxInv, status = "running",
         NEW g, NEW f, NEW T, NEW N, NEW p, NEW n, NEW base, Standing(g, f, T, N, p, n, base),
         NEW s, NEW l, l \in Nat, BranchTo(s, l), NEW k, NEW t, NEW i, NEW m,
         BranchAt(g, n, l, k, t, i, m), NEW q, q = t.pc
  PROVE  /\ stack' = Unwound(s, t.stack_top, k) /\ UNCHANGED valVars
         /\ \E h : TopChange(g, h, q, m) /\ h.labels = g.labels
<1>1. /\ g = frame /\ n = regs.label_top /\ n \in Nat
      /\ g = call_stack[Len(call_stack)]
  BY DEF Standing
<1>2. /\ i = n - l /\ t = g.labels[i]
      /\ k = (IF t.opcode = "loop" THEN t.params ELSE t.results)
      /\ m = (IF t.opcode = "loop" THEN i ELSE i - 1)
  BY DEF BranchAt
<1>3. PICK z : z = regs.label_top - l - (IF t.opcode = "loop" THEN 0 ELSE 1) OBVIOUS
<1>4. z = m
  <2>1. i = regs.label_top - l /\ i \in Int BY <1>1, <1>2
  <2>2. CASE t.opcode = "loop" BY <1>2, <1>3, <2>1, <2>2
  <2>3. CASE t.opcode # "loop" BY <1>2, <1>3, <2>1, <2>3
  <2>4. QED BY <2>2, <2>3
<1>5. /\ stack' = Unwound(s, t.stack_top, k)
      /\ call_stack' = [call_stack EXCEPT ![top].ip = q, ![top].label_stack_top = m]
      /\ regs' = [ip |-> q, label_top |-> m] /\ UNCHANGED <<valVars, status>>
  BY <1>1, <1>2, <1>3, <1>4 DEF BranchTo, Continue
<1>6. OnlyWrote(call_stack, call_stack', q, m) BY <1>5, WrittenBack
<1>7. PICK h : /\ Len(call_stack') = Len(call_stack) /\ call_stack'[Len(call_stack)] = h
               /\ \A j \in 1..Len(call_stack) :
                    j # Len(call_stack) => call_stack'[j] = call_stack[j]
               /\ h.func = g.func /\ h.locals = g.locals /\ h.labels = g.labels
  BY <1>1, <1>6 DEF OnlyWrote
<1>8. TopChange(g, h, q, m) BY <1>5, <1>7 DEF TopChange
<1>9. QED BY <1>5, <1>7, <1>8

LEMMA BranchImplements ==
  ASSUME ValInv, CtxInv, TypingInv, TypedCtx, Held, Features = {}, status = "running",
         NEW g, NEW f, NEW T, NEW N, NEW p, NEW n, NEW base, NEW a, NEW L, NEW B, NEW v,
         Place(g, f, T, N, p, n, base, a, L, B, v),
         NEW l, l \in Nat, LabelOk(T[p], l), NEW k, k = Arity(T[p], l),
         NEW s, NEW w, Leaving(s, a, w, k), BranchTo(s, l)
  PROVE  Abstract!Jump(w, l) /\ Held'
<1>1. Standing(g, f, T, N, p, n, base) BY DEF Place
<1>n. n \in Nat /\ n > 0 BY DEF Place
<1>2. PICK t, i, m : BranchAt(g, n, l, k, t, i, m) BY <1>1, BranchTarget
<1>3. PICK q, c, j : q = t.pc /\ c = t.stack_top /\ j = l + 1 OBVIOUS
<1>4. /\ stack' = Unwound(s, c, k) /\ UNCHANGED valVars
      /\ \E h : TopChange(g, h, q, m) /\ h.labels = g.labels
  <2>1. /\ stack' = Unwound(s, t.stack_top, k) /\ UNCHANGED valVars
        /\ \E h : TopChange(g, h, q, m) /\ h.labels = g.labels
    BY <1>1, <1>2, <1>3, BranchWrites
  <2>2. QED BY <1>3, <2>1
<1>5. PICK h : TopChange(g, h, q, m) /\ h.labels = g.labels BY <1>4
<1>6. LabelsStay(g, h, m) BY <1>5 DEF LabelsStay
<1>7. /\ i = n - l /\ t = g.labels[i] /\ i \in 2..n /\ l < n - 1
      /\ k = (IF t.opcode = "loop" THEN t.params ELSE t.results)
      /\ m = (IF t.opcode = "loop" THEN i ELSE i - 1)
  BY <1>2 DEF BranchAt
<1>8. c = g.labels[i].stack_top BY <1>3, <1>7
<1>9. TopIs(Act(f, q, L, Jumped(B, i, j, w, k, t.opcode = "loop"))) /\ Len(w) >= k
  <2>1. CASE t.opcode = "loop"
    <3>1. m = i /\ m \in 2..n /\ c = g.labels[m].stack_top BY <1>7, <1>8, <2>1
    <3>2. TopIs(Act(f, q, L, LoopBlocks(B, m, w, k))) /\ Len(w) >= k
      BY <1>4, <1>5, <1>6, <3>1, BackView
    <3>3. QED BY <2>1, <3>1, <3>2 DEF Jumped
  <2>2. CASE t.opcode # "loop"
    <3>0. m = i - 1 BY <1>7, <2>2
    <3>1. m = n - j /\ m \in 1..n /\ i = m + 1 /\ i \in 2..n
      BY ONLY <1>n, <1>3, <1>7, <3>0, l \in Nat
    <3>2. TopIs(Act(f, q, L, Abstract!Outer(j, w, k))) /\ Len(w) >= k
      BY <1>4, <1>5, <1>6, <1>8, <3>1, OutView
    <3>3. QED BY <2>2, <3>2 DEF Jumped
  <2>3. QED BY <2>1, <2>2
<1>10. \E x : B[i] = BlockOf(t, x)
  <2>1. \A y \in 1..n : \E x : B[y] = BlockOf(g.labels[y], x) BY BlockHere
  <2>2. i \in 1..n BY <1>7
  <2>3. QED BY <1>7, <2>1, <2>2
<1>11. PICK x : B[i] = BlockOf(t, x) BY <1>10
<1>12. QED BY <1>3, <1>7, <1>9, <1>11, JumpIs

\* What the checker counted above the block is on the stack.
LEMMA RoomAbove ==
  ASSUME NEW g, NEW f, NEW T, NEW N, NEW p, NEW n, NEW base, NEW a, NEW L, NEW B, NEW v,
         Place(g, f, T, N, p, n, base, a, L, B, v), NEW u, u \in Nat, u <= T[p].h - InnerCtrl(T[p]).height
  PROVE  u <= Len(v) /\ u <= sp - a /\ sp \in Nat
<1>1. /\ T[p].h = sp - base /\ InnerCtrl(T[p]).height \in Nat
      /\ a = base + InnerCtrl(T[p]).height /\ base \in Nat /\ sp \in Nat /\ Len(v) = sp - a
  BY DEF Place, Standing
<1>2. PICK x, y, z : x = T[p].h /\ y = InnerCtrl(T[p]).height /\ z = sp OBVIOUS
<1>3. /\ u <= x - y /\ x = z - base /\ a = base + y /\ Len(v) = z - a
      /\ y \in Nat /\ z \in Nat /\ base \in Nat
  BY <1>1, <1>2
<1>4. u <= Len(v) /\ u <= z - a BY ONLY <1>3, u \in Nat
<1>5. QED BY <1>2, <1>3, <1>4

\* s is the stack without its topmost slot, w its operands.
PoppedTo(s, a, v, w) ==
  /\ s \in Seq(Nat) /\ stack \in Seq(Nat) /\ sp \in Nat /\ Len(s) = sp - 1
  /\ a \in Nat /\ a <= Len(s) /\ \A i \in 1..Len(s) : s[i] = stack[i]
  /\ w = Slice(s, a, Len(s)) /\ v[Len(v)] = stack[sp] /\ stack[sp] \in Nat

LEMMA PoppedOne ==
  ASSUME NEW g, NEW f, NEW T, NEW N, NEW p, NEW n, NEW base, NEW a, NEW L, NEW B, NEW v,
         Place(g, f, T, N, p, n, base, a, L, B, v), 1 <= Len(v), NEW s, s = Below(stack, 1), NEW w, w = Abstract!Keep(v, 1)
  PROVE  PoppedTo(s, a, v, w)
<1>1. /\ stack \in Seq(Nat) /\ sp = Len(stack) /\ sp \in Nat /\ a \in Nat /\ a <= sp
      /\ Len(v) = sp - a /\ v = SubSeq(stack, a + 1, sp)
  BY DEF Place, Standing
<1>2. PICK S, m : S = stack /\ m = sp OBVIOUS
<1>3. /\ S \in Seq(Nat) /\ a \in Nat /\ a <= Len(S) /\ 1 \in Nat /\ 1 <= Len(S) - a
      /\ s = Below(S, 1) /\ m = Len(S) /\ m \in Nat
  BY <1>1, <1>2
<1>4. Shorter(S, s, a, 1) BY ONLY <1>3, BelowKept
<1>5. /\ s \in Seq(Nat) /\ Len(s) = m - 1 /\ a <= Len(s)
      /\ \A i \in 1..Len(s) : s[i] = S[i]
      /\ Slice(s, a, Len(s)) = Abstract!Keep(Slice(S, a, m), 1)
  BY <1>3, <1>4 DEF Shorter
<1>6. Slice(S, a, m) = v BY <1>1, <1>2 DEF Slice
<1>7. v[Len(v)] = S[m] /\ S[m] \in Nat
  <2>1. TopsAre(stack, a, v, sp) BY <1>1, OperandTops
  <2>2. sp - a >= 1 BY <1>1
  <2>3. QED BY <1>2, <2>1, <2>2 DEF TopsAre
<1>8. QED BY <1>2, <1>3, <1>5, <1>6, <1>7 DEF PoppedTo

LEMMA PoppedLeaves ==
  ASSUME NEW s, NEW a, NEW v, NEW w, PoppedTo(s, a, v, w),
         NEW k, k \in Nat, NEW u, u = k + 1, u <= sp - a
  PROVE  Leaving(s, a, w, k)
<1>1. PICK m, x : m = Len(s) /\ x = sp OBVIOUS
<1>2. m = x - 1 /\ x \in Nat /\ a \in Nat /\ a <= m /\ u <= x - a BY <1>1 DEF PoppedTo
<1>3. k <= m - a /\ m <= x BY ONLY <1>2, u = k + 1, k \in Nat
<1>4. QED BY <1>1, <1>3 DEF PoppedTo, Leaving

\* The operands of an instruction that does not pop before it leaves.
LEMMA StackLeaves ==
  ASSUME NEW g, NEW f, NEW T, NEW N, NEW p, NEW n, NEW base, NEW a, NEW L, NEW B, NEW v,
         Place(g, f, T, N, p, n, base, a, L, B, v), NEW k, k \in Nat, k <= sp - a
  PROVE  Leaving(stack, a, v, k)
<1>1. /\ stack \in Seq(Nat) /\ sp = Len(stack) /\ a \in Nat /\ a <= sp
      /\ v = SubSeq(stack, a + 1, sp) /\ sp \in Nat
  BY DEF Place, Standing
<1>2. k <= Len(stack) - a /\ Len(stack) <= sp /\ a <= Len(stack) BY <1>1
<1>3. v = Slice(stack, a, Len(stack)) BY <1>1 DEF Slice
<1>4. QED BY <1>1, <1>2, <1>3 DEF Leaving

LEMMA BrImplements ==
  ASSUME ValInv, CtxInv, TypingInv, TypedCtx, Held, Features = {}, Br PROVE Abstract!BranchStep /\ Held'
<1>1. PICK g, f, T, N, p, n, base, a, L, B, v : Place(g, f, T, N, p, n, base, a, L, B, v)
  BY PlaceHere DEF Br, Running
<1>2. /\ status = "running" /\ instr.op = "br" /\ BranchTo(stack, instr.label)
  BY DEF Br, Running, instr
<1>3. PICK l, k, t : l = instr.label /\ k = Arity(t, l) /\ t = T[p] OBVIOUS
<1>4. /\ instr \in Instructions /\ Checks(t, T[p + 1], instr, Signatures) /\ Upright(t)
      /\ ~InnerCtrl(t).dead /\ Seen(f, p, L, B, n, v)
  BY <1>1, <1>3 DEF Place, Standing
<1>5. l \in Nat BY <1>2, <1>3, <1>4, InstructionTypes
<1>6. LabelOk(t, l) /\ k <= t.h - InnerCtrl(t).height
  BY <1>2, <1>3, <1>4 DEF Checks, Dies
<1>7. k \in Nat BY <1>3, <1>4, <1>5, <1>6, ArityNat
<1>8. k <= sp - a
  <2>1. k <= T[p].h - InnerCtrl(T[p]).height BY <1>3, <1>6
  <2>2. QED BY <1>1, <1>7, <2>1, RoomAbove
<1>9. Leaving(stack, a, v, k) BY <1>1, <1>7, <1>8, StackLeaves
<1>10. Abstract!Jump(v, l) /\ Held'
  <2>1. LabelOk(T[p], l) /\ k = Arity(T[p], l) /\ BranchTo(stack, l) BY <1>2, <1>3, <1>6
  <2>2. QED BY <1>1, <1>2, <1>5, <1>9, <2>1, BranchImplements
<1>11. Abstract!vals = v /\ Abstract!ins = instr /\ Abstract!Executing({"br"})
  BY <1>2, <1>4, SeesOperands
<1>12. QED BY <1>3, <1>10, <1>11 DEF Abstract!BranchStep

LEMMA BrIfImplements ==
  ASSUME ValInv, CtxInv, TypingInv, TypedCtx, Held, Features = {}, BrIf PROVE Abstract!BranchStep /\ Held'
<1>1. PICK g, f, T, N, p, n, base, a, L, B, v : Place(g, f, T, N, p, n, base, a, L, B, v)
  BY PlaceHere DEF BrIf, Running
<1>2. /\ status = "running" /\ instr.op = "br_if" BY DEF BrIf, Running, instr
<1>3. PICK l, k, t, s, w, u : /\ l = instr.label /\ k = Arity(t, l) /\ t = T[p]
                              /\ s = Below(stack, 1) /\ w = Abstract!Keep(v, 1) /\ u = k + 1
  OBVIOUS
<1>4. /\ instr \in Instructions /\ Checks(t, T[p + 1], instr, Signatures) /\ Upright(t)
      /\ ~InnerCtrl(t).dead /\ Seen(f, p, L, B, n, v)
  BY <1>1, <1>3 DEF Place, Standing
<1>5. l \in Nat BY <1>2, <1>3, <1>4, InstructionTypes
<1>6. LabelOk(t, l) /\ u <= t.h - InnerCtrl(t).height
  BY <1>2, <1>3, <1>4 DEF Checks, Moves
<1>7. k \in Nat BY <1>3, <1>4, <1>5, <1>6, ArityNat
<1>8. u <= Len(v) /\ u <= sp - a /\ u \in Nat /\ 1 <= Len(v) /\ 1 <= sp - a /\ sp \in Nat
  <2>1. u \in Nat /\ u <= T[p].h - InnerCtrl(T[p]).height BY <1>3, <1>6, <1>7
  <2>2. u <= Len(v) /\ u <= sp - a /\ sp \in Nat BY <1>1, <2>1, RoomAbove
  <2>3. a \in Nat /\ v \in Seq(Nat) BY <1>1 DEF Place
  <2>4. QED BY <1>3, <1>7, <2>1, <2>2, <2>3
<1>9. PoppedTo(s, a, v, w) BY <1>1, <1>3, <1>8, PoppedOne
<1>10. /\ Abstract!vals = v /\ Abstract!ins = instr /\ Abstract!Executing({"br_if"})
       /\ Abstract!Has(1)
  BY <1>2, <1>4, <1>8, SeesOperands
<1>11. v[Len(v)] = stack[sp] BY <1>9 DEF PoppedTo
<1>12. CASE stack[sp] # 0 /\ BranchTo(Below(stack, 1), instr.label)
  <2>1. Leaving(s, a, w, k) BY <1>3, <1>7, <1>8, <1>9, PoppedLeaves
  <2>2. LabelOk(T[p], l) /\ k = Arity(T[p], l) /\ BranchTo(s, l) BY <1>3, <1>6, <1>12
  <2>3. Abstract!Jump(w, l) /\ Held' BY <1>1, <1>2, <1>5, <2>1, <2>2, BranchImplements
  <2>4. v[Len(v)] # 0 BY <1>11, <1>12
  <2>5. QED BY <1>3, <1>10, <2>3, <2>4 DEF Abstract!BranchStep
<1>13. CASE /\ stack[sp] = 0 /\ stack' = Below(stack, 1) /\ Step(regs.label_top)
            /\ UNCHANGED <<valVars, call_stack, labels_pool_top, status>>
  <2>1. Stepped
    <3>1. Below(stack, 1) \in Seq(Nat) BY <1>3, <1>9 DEF PoppedTo
    <3>2. QED BY <1>13, <3>1 DEF Stepped
  <2>2. PICK j : j = 1 OBVIOUS
  <2>3. j \in Nat /\ j <= sp - a /\ stack' = Below(stack, j) BY <1>8, <1>13, <2>2
  <2>4. /\ Abstract!Put(Abstract!WithVals(Abstract!Keep(v, j)))
        /\ Abstract!Proceed /\ Held'
    BY <1>1, <1>2, <2>1, <2>3, Taking
  <2>5. ~(v[Len(v)] # 0) BY <1>11, <1>13
  <2>6. QED BY <1>10, <2>2, <2>4, <2>5 DEF Abstract!BranchStep
<1>14. QED BY <1>12, <1>13 DEF BrIf

LEMMA BrTableImplements ==
  ASSUME ValInv, CtxInv, TypingInv, TypedCtx, Held, Features = {}, BrTable PROVE Abstract!BranchStep /\ Held'
<1>1. PICK g, f, T, N, p, n, base, a, L, B, v : Place(g, f, T, N, p, n, base, a, L, B, v)
  BY PlaceHere DEF BrTable, Running
<1>2. /\ status = "running" /\ instr.op = "br_table" BY DEF BrTable, Running, instr
<1>3. PICK ls, x, y, t, s, w : /\ ls = instr.labels /\ t = T[p] /\ s = Below(stack, 1)
                               /\ w = Abstract!Keep(v, 1) /\ x = Len(ls) /\ y = stack[sp]
  OBVIOUS
<1>4. /\ instr \in Instructions /\ Checks(t, T[p + 1], instr, Signatures) /\ Upright(t)
      /\ ~InnerCtrl(t).dead /\ Seen(f, p, L, B, n, v)
  BY <1>1, <1>3 DEF Place, Standing
<1>5. ls \in Seq(Nat) /\ ls # << >> BY <1>2, <1>3, <1>4, InstructionTypes
<1>6. /\ \A i \in DOMAIN ls : LabelOk(t, ls[i]) /\ Arity(t, ls[i]) = Arity(t, ls[1])
      /\ Dies(t, T[p + 1], Arity(t, ls[1]) + 1)
  BY <1>2, <1>3, <1>4 DEF Checks
<1>7. PICK k, u : k = Arity(t, ls[1]) /\ u = k + 1 OBVIOUS
<1>8. x \in Nat /\ x > 0 /\ DOMAIN ls = 1..x /\ 1 \in DOMAIN ls /\ ls[1] \in Nat
  BY <1>3, <1>5
<1>9. k \in Nat BY <1>4, <1>6, <1>7, <1>8, ArityNat
<1>10. u <= Len(v) /\ u <= sp - a /\ 1 <= Len(v)
  <2>1. u <= T[p].h - InnerCtrl(T[p]).height BY <1>3, <1>4, <1>6, <1>7 DEF Dies
  <2>2. u \in Nat BY <1>7, <1>9
  <2>3. u <= Len(v) /\ u <= sp - a BY <1>1, <2>1, <2>2, RoomAbove
  <2>4. v \in Seq(Nat) BY <1>1 DEF Place
  <2>5. QED BY <1>7, <1>9, <2>3, <2>4
<1>11. PoppedTo(s, a, v, w) BY <1>1, <1>3, <1>10, PoppedOne
<1>12. y \in Nat /\ v[Len(v)] = y BY <1>3, <1>11 DEF PoppedTo
<1>13. PICK z : z = (IF y + 1 < x THEN y + 1 ELSE x) OBVIOUS
<1>14. z \in 1..x /\ z = (IF y < x - 1 THEN y + 1 ELSE x) BY ONLY <1>8, <1>12, <1>13
<1>15. PICK l : l = ls[z] OBVIOUS
<1>16. l \in Nat /\ LabelOk(t, l) /\ k = Arity(t, l)
  BY <1>5, <1>6, <1>7, <1>8, <1>14, <1>15
<1>17. BranchTo(s, l) BY <1>3, <1>13, <1>15 DEF BrTable
<1>18. Leaving(s, a, w, k) BY <1>7, <1>9, <1>10, <1>11, PoppedLeaves
<1>19. Abstract!Jump(w, l) /\ Held'
  <2>1. LabelOk(T[p], l) /\ k = Arity(T[p], l) BY <1>3, <1>16
  <2>2. QED BY <1>1, <1>2, <1>16, <1>17, <1>18, <2>1, BranchImplements
<1>20. /\ Abstract!vals = v /\ Abstract!ins = instr /\ Abstract!Executing({"br_table"})
       /\ Abstract!Has(1)
  BY <1>2, <1>4, <1>10, SeesOperands
<1>21. l = instr.labels[IF v[Len(v)] < Len(instr.labels) - 1 THEN v[Len(v)] + 1
                        ELSE Len(instr.labels)]
  BY <1>3, <1>12, <1>14, <1>15
<1>22. QED BY <1>3, <1>19, <1>20, <1>21 DEF Abstract!BranchStep

\* A frame with more operands in block m.
Grown(V, m, r) == [V EXCEPT !.blocks[m].vals = @ \o r]
HasVals(B, n, x) == B[n].vals = x

LEMMA GrownAct ==
  ASSUME NEW f, NEW q, NEW L, NEW n, NEW B, NEW x, HasVals(B, n, x), NEW r
  PROVE  Grown(Act(f, q, L, B), n, r) = Act(f, q, L, [B EXCEPT ![n].vals = x \o r])
<1>1. PICK A, C : A = Act(f, q, L, B) /\ C = [B EXCEPT ![n].vals = x \o r] OBVIOUS
<1>a. A = Act(f, q, L, B) BY <1>1
<1>2. A.blocks = B BY <1>1, ActExcept
<1>3. [A EXCEPT !.blocks = C] = Act(f, q, L, C) BY ONLY <1>a, ActExcept
<1>4. Grown(A, n, r) = [A EXCEPT !.blocks = C] BY <1>1, <1>2 DEF Grown, HasVals
<1>5. QED BY <1>1, <1>3, <1>4

Meets(t, a, e, d) ==
  t \in Seq(Nat) /\ a \in Nat /\ e \in Nat /\ a <= e /\ e <= Len(t) /\ d = Len(t)

LEMMA JoinSlices ==
  ASSUME NEW t, NEW a, NEW e, NEW d, Meets(t, a, e, d)
  PROVE  Slice(t, a, d) = Slice(t, a, e) \o Slice(t, e, d)
<1>1. /\ t \in Seq(Nat) /\ a \in Nat /\ e \in Nat /\ a <= e /\ e <= Len(t) /\ d = Len(t)
      /\ d \in Nat /\ a <= d /\ e <= d /\ d <= Len(t)
  BY DEF Meets
<1>2. PICK u, x, y, c, m, k : /\ u = Slice(t, a, d) /\ x = Slice(t, a, e)
                              /\ y = Slice(t, e, d) /\ c = x \o y /\ m = e - a /\ k = d - e
  OBVIOUS
<1>3. /\ u \in Seq(Nat) /\ Len(u) = d - a /\ \A i \in 1..(d - a) : u[i] = t[a + i]
  <2>1. /\ SubSeq(t, a + 1, d) \in Seq(Nat) /\ Len(SubSeq(t, a + 1, d)) = d - a
        /\ \A i \in 1..(d - a) : SubSeq(t, a + 1, d)[i] = t[a + i]
    BY ONLY <1>1, SliceFacts
  <2>2. QED BY <1>2, <2>1 DEF Slice
<1>4. /\ x \in Seq(Nat) /\ Len(x) = m /\ \A i \in 1..m : x[i] = t[a + i]
  <2>1. /\ SubSeq(t, a + 1, e) \in Seq(Nat) /\ Len(SubSeq(t, a + 1, e)) = e - a
        /\ \A i \in 1..(e - a) : SubSeq(t, a + 1, e)[i] = t[a + i]
    BY ONLY <1>1, SliceFacts
  <2>2. QED BY <1>2, <2>1 DEF Slice
<1>5. /\ y \in Seq(Nat) /\ Len(y) = k /\ \A i \in 1..k : y[i] = t[e + i]
  <2>1. /\ SubSeq(t, e + 1, d) \in Seq(Nat) /\ Len(SubSeq(t, e + 1, d)) = d - e
        /\ \A i \in 1..(d - e) : SubSeq(t, e + 1, d)[i] = t[e + i]
    BY ONLY <1>1, SliceFacts
  <2>2. QED BY <1>2, <2>1 DEF Slice
<1>6. /\ c \in Seq(Nat) /\ Len(c) = m + k
      /\ \A i \in 1..m : c[i] = x[i]
      /\ \A i \in 1..k : c[m + i] = y[i]
  <2>1. x \in Seq(Nat) /\ y \in Seq(Nat) /\ m = Len(x) /\ k = Len(y) BY <1>4, <1>5
  <2>2. /\ x \o y \in Seq(Nat) /\ Len(x \o y) = m + k
        /\ \A i \in 1..m : (x \o y)[i] = x[i]
        /\ \A i \in 1..k : (x \o y)[m + i] = y[i]
    BY ONLY <2>1, ConcatElems
  <2>3. QED BY <1>2, <2>2
<1>7. m \in Nat /\ k \in Nat /\ m + k = d - a /\ a + m = e BY ONLY <1>1, <1>2
<1>8. ASSUME NEW i \in 1..(d - a) PROVE u[i] = c[i]
  <2>1. CASE i <= m
    <3>1. i \in 1..m BY <1>7, <2>1
    <3>2. QED BY <1>3, <1>4, <1>6, <3>1
  <2>2. CASE i > m
    <3>1. PICK j : j = i - m OBVIOUS
    <3>2. j \in 1..k /\ m + j = i /\ e + j = a + i
      BY ONLY <1>1, <1>7, <2>2, <3>1, i \in 1..(d - a)
    <3>3. QED BY <1>3, <1>5, <1>6, <3>2
  <2>3. i <= m \/ i > m BY <1>7
  <2>4. QED BY <2>1, <2>2, <2>3
<1>9. u = c
  <2>1. Len(u) = Len(c) /\ \A i \in 1..Len(u) : u[i] = c[i] BY <1>3, <1>6, <1>7, <1>8
  <2>2. QED BY <1>3, <1>6, <2>1, SameNat
<1>10. QED BY <1>2, <1>9

\* The slots of t above e are r; below it is s.
Receives(h, base, n, e, s, t, r) ==
  /\ Cut(h.labels, base, n, e) /\ h.locals \in Nat /\ h.locals <= base /\ base <= e
  /\ s \in Seq(Nat) /\ t \in Seq(Nat) /\ e <= Len(s) /\ e <= Len(t)
  /\ \A i \in 1..e : t[i] = s[i]
  /\ r = Slice(t, e, Len(t))

LEMMA GrownView ==
  ASSUME NEW h, NEW base, NEW n, NEW e, NEW s, NEW t, NEW r,
         Receives(h, base, n, e, s, t, r), NEW d, d = Len(t), NEW q
  PROVE  View(h, base, t, q, n, d) = Grown(View(h, base, s, q, n, e), n, r)
<1>1. PICK l, ls : l = h.locals /\ ls = h.labels OBVIOUS
<1>2. /\ Cut(ls, base, n, e) /\ l \in Nat /\ l <= base /\ base <= e
      /\ s \in Seq(Nat) /\ t \in Seq(Nat) /\ e <= Len(s) /\ e <= Len(t)
      /\ (\A i \in 1..e : t[i] = s[i]) /\ r = Slice(t, e, Len(t))
  BY <1>1 DEF Receives
<1>3. PICK a : a = FirstOf(ls, base, n) OBVIOUS
<1>4. /\ base \in Nat /\ e \in Nat /\ n \in Nat /\ n >= 1 /\ a \in Nat /\ base <= a /\ a <= e
  BY <1>2, <1>3 DEF Cut
<1>5. /\ \A i \in (base + 1)..a : i \in 1..e
      /\ \A i \in (l + 1)..base : i \in 1..e
      /\ \A i \in (a + 1)..e : i \in 1..e
      /\ n \in 1..n /\ a <= Len(t) /\ l <= Len(t) /\ base <= Len(s) /\ base <= Len(t)
  BY <1>2, <1>4
<1>6. Carries(ls, base, n, e, s, t, n, a, ls) BY <1>2, <1>3, <1>4, <1>5 DEF Carries
<1>7. PICK B : B = Blocks(ls, base, s, n, e) OBVIOUS
<1>8. Blocks(ls, base, t, n, d) = BlocksFilled(B, n, t, a, d)
  BY ONLY <1>6, <1>7, BlocksTop
<1>9. Slice(t, a, d) = Slice(s, a, e) \o r
  <2>1. Meets(t, a, e, d) BY <1>2, <1>4 DEF Meets
  <2>2. Slice(t, a, d) = Slice(t, a, e) \o Slice(t, e, d) BY ONLY <2>1, JoinSlices
  <2>3. \A i \in (a + 1)..e : t[i] = s[i] BY <1>2, <1>5
  <2>4. Alike(s, t, a, e) BY ONLY <1>2, <1>4, <2>3 DEF Alike
  <2>5. Slice(t, a, e) = Slice(s, a, e) BY ONLY <2>4, SliceAlike
  <2>6. QED BY <1>2, <2>2, <2>5
<1>10. SubSeq(t, l + 1, base) = SubSeq(s, l + 1, base)
  <2>1. \A i \in (l + 1)..base : t[i] = s[i] BY <1>2, <1>5
  <2>2. Alike(s, t, l, base) BY ONLY <1>2, <1>4, <1>5, <2>1 DEF Alike
  <2>3. Slice(t, l, base) = Slice(s, l, base) BY ONLY <2>2, SliceAlike
  <2>4. QED BY <2>3 DEF Slice
<1>11. B[n].vals = Slice(s, a, e)
  <2>1. BlocksAre(Blocks(ls, base, s, n, e), ls, base, s, n, e) BY <1>4, BlocksFacts
  <2>2. BlocksAre(B, ls, base, s, n, e) BY <1>7, <2>1
  <2>3. B[n] = BlockOf(ls[n], SubSeq(s, FirstOf(ls, base, n) + 1, LastOf(ls, n, e, n)))
    BY <1>5, <2>2 DEF BlocksAre
  <2>4. LastOf(ls, n, e, n) = e BY DEF LastOf
  <2>5. B[n] = BlockOf(ls[n], SubSeq(s, a + 1, e)) BY <1>3, <2>3, <2>4
  <2>6. PICK o, y : o = ls[n] /\ y = SubSeq(s, a + 1, e) OBVIOUS
  <2>7. BlockOf(o, y).vals = y BY ONLY BlockVals
  <2>8. QED BY <2>5, <2>6, <2>7 DEF Slice
<1>12. PICK x, M : x = Slice(s, a, e) /\ M = SubSeq(s, l + 1, base) OBVIOUS
<1>13. View(h, base, s, q, n, e) = Act(h.func, q, M, B) BY <1>1, <1>7, <1>12, ViewIs
<1>14. View(h, base, t, q, n, d) = Act(h.func, q, M, BlocksFilled(B, n, t, a, d))
  <2>1. View(h, base, t, q, n, d) =
          Act(h.func, q, SubSeq(t, h.locals + 1, base), Blocks(h.labels, base, t, n, d))
    BY ViewIs
  <2>2. QED BY <1>1, <1>8, <1>10, <1>12, <2>1
<1>15. BlocksFilled(B, n, t, a, d) = [B EXCEPT ![n].vals = x \o r]
  BY <1>9, <1>12 DEF BlocksFilled, Slice
<1>16. Grown(Act(h.func, q, M, B), n, r) = Act(h.func, q, M, [B EXCEPT ![n].vals = x \o r])
  <2>1. HasVals(B, n, x) BY <1>11, <1>12 DEF HasVals
  <2>2. PICK f : f = h.func OBVIOUS
  <2>3. Grown(Act(f, q, M, B), n, r) = Act(f, q, M, [B EXCEPT ![n].vals = x \o r])
    BY ONLY <2>1, GrownAct
  <2>4. QED BY <2>2, <2>3
<1>17. QED BY <1>13, <1>14, <1>15, <1>16

LEMMA KeepOne ==
  ASSUME NEW F, ASeq(F), NEW n, n \in Nat, Len(F) = n, NEW m, m \in Nat, n = m + 1,
         NEW K, K = Abstract!Keep(F, 1)
  PROVE  K = [k \in 1..m |-> K[k]] /\ \A k \in 1..m : K[k] = F[k]
<1>1. PICK S : F \in Seq(S) BY DEF ASeq
<1>2. K = SubSeq(F, 1, m) BY DEF Abstract!Keep
<1>3. m <= Len(F) OBVIOUS
<1>4. /\ K \in Seq(S) /\ Len(K) = m /\ \A k \in 1..m : K[k] = F[k] BY <1>1, <1>2, <1>3
<1>5. QED BY <1>4

\* The frame below the running one, which waits for its results.
CallerIs(h, ob, n, e, d) ==
  /\ Cut(h.labels, ob, n, e) /\ h.locals \in Nat /\ h.locals <= ob /\ ob <= e /\ e \in Nat
  /\ Activations[d] = View(h, ob, stack, h.ip, n, e) /\ Len(Activations[d].blocks) = n
  /\ n = h.label_stack_top /\ OperandBase(d) = ob

LEMMA CallerHere ==
  ASSUME ValInv, CtxInv, TypingInv, TypedCtx, Held, Active, NEW D, D = Len(call_stack),
         NEW d, d \in Nat, d > 0, D = d + 1, NEW h, h = call_stack[d],
         NEW e, e = call_stack[D].locals
  PROVE  \E ob, n : CallerIs(h, ob, n, e, d)
<1>1. /\ d \in 1..Len(call_stack) /\ d # Len(call_stack) /\ Len(call_stack) \in Nat
      /\ d + 1 = D
  BY ONLY D = Len(call_stack), d \in Nat, d > 0, D = d + 1
<1>2. /\ Cut(call_stack[d].labels, OperandBase(d), call_stack[d].label_stack_top, OperandEnd(d))
      /\ OperandEnd(d) = call_stack[d + 1].locals /\ OperandEnd(d) \in Nat
      /\ call_stack[d].locals \in Nat /\ call_stack[d].locals <= OperandBase(d)
      /\ OperandBase(d) <= OperandEnd(d)
  BY <1>1, CutBelow
<1>3. PICK ob, n : ob = OperandBase(d) /\ n = h.label_stack_top OBVIOUS
<1>4. /\ Cut(h.labels, ob, n, e) /\ h.locals \in Nat /\ h.locals <= ob /\ ob <= e /\ e \in Nat
      /\ OperandEnd(d) = e
  BY <1>1, <1>2, <1>3
<1>5. Activations[d] = View(h, ob, stack, h.ip, n, e)
  <2>1. Activations[d] = ViewAt(d) BY <1>1, FramesNow
  <2>2. IpOf(d) = h.ip /\ LabelTopOf(d) = n BY <1>1, <1>3 DEF IpOf, LabelTopOf, top
  <2>3. QED BY <1>3, <1>4, <2>1, <2>2 DEF ViewAt
<1>6. Len(Activations[d].blocks) = n
  <2>1. n \in Nat BY <1>4 DEF Cut
  <2>2. PICK ls, s, X : ls = h.labels /\ s = stack /\ X = Blocks(ls, ob, s, n, e) OBVIOUS
  <2>3. BlocksAre(Blocks(ls, ob, s, n, e), ls, ob, s, n, e) BY <2>1, BlocksFacts
  <2>4. Len(X) = n BY <2>2, <2>3 DEF BlocksAre
  <2>5. Activations[d].blocks = X BY <1>5, <2>2 DEF View
  <2>6. QED BY <2>4, <2>5
<1>7. CallerIs(h, ob, n, e, d) BY <1>3, <1>4, <1>5, <1>6 DEF CallerIs
<1>8. QED BY <1>7

\* The running frame goes and the one below it runs.
GivesWay(d) ==
  /\ status' = "running" /\ UNCHANGED valVars /\ Len(call_stack') = d
  /\ \A k \in 1..d : call_stack'[k] = call_stack[k]
  /\ regs' = [ip |-> call_stack[d].ip, label_top |-> call_stack[d].label_stack_top]

LEMMA LeavesTo ==
  ASSUME ValInv, CtxInv, status = "running", LeaveFrame
  PROVE  \/ Len(call_stack) = 1 /\ status' = "returned" /\ UNCHANGED valVars
         \/ \E d : d \in Nat /\ d > 0 /\ Len(call_stack) = d + 1 /\ GivesWay(d)
<1>1. Stacked(call_stack, labels_pool_top) /\ top = Len(call_stack) /\ top \in Nat /\ top > 0
  BY RunningFrame DEF top
<1>2. PICK S : call_stack \in Seq(S) BY <1>1 DEF Stacked
<1>3. CASE top = 1 /\ status' = "returned" BY <1>1, <1>3 DEF LeaveFrame
<1>4. CASE /\ top > 1 /\ UNCHANGED status
           /\ Continue(call_stack[top - 1].ip, call_stack[top - 1].label_stack_top)
  <2>1. PICK d, D : d = D - 1 /\ D = top OBVIOUS
  <2>2. d \in Nat /\ d > 0 /\ D = d + 1 /\ D = Len(call_stack) /\ d <= D BY <1>1, <1>4, <2>1
  <2>3. call_stack' = SubSeq(call_stack, 1, d) /\ UNCHANGED valVars BY <2>1 DEF LeaveFrame
  <2>4. Len(call_stack') = d /\ \A k \in 1..d : call_stack'[k] = call_stack[k]
    BY <1>2, <2>2, <2>3
  <2>5. regs' = [ip |-> call_stack[d].ip, label_top |-> call_stack[d].label_stack_top]
    BY <1>4, <2>1 DEF Continue
  <2>6. GivesWay(d) BY <1>4, <2>3, <2>4, <2>5 DEF GivesWay
  <2>7. QED BY <2>2, <2>6
<1>5. QED BY <1>3, <1>4 DEF LeaveFrame

\* The slots above the locals of the frame that leaves are its results.
LeavesResults(d, e, r) ==
  /\ d \in Nat /\ d > 0 /\ Len(call_stack) = d + 1 /\ e = frame.locals /\ StackKept(e)
  /\ e <= Len(stack) /\ stack \in Seq(Nat) /\ r = Slice(stack', e, Len(stack'))

HandedTo(d, m, r) ==
  Activations' = [Abstract!Keep(Activations, 1) EXCEPT ![d].blocks[m].vals = @ \o r]

LEMMA CallerGoesOn ==
  ASSUME ValInv, CtxInv, TypingInv, TypedCtx, Held, status = "running", NEW d, NEW e, NEW r, LeavesResults(d, e, r),
         GivesWay(d), NEW m, m = Len(Activations[d].blocks)
  PROVE  HandedTo(d, m, r) /\ Abstract!Proceed /\ Held'
<1>1. /\ d \in Nat /\ d > 0 /\ Len(call_stack) = d + 1 /\ e = frame.locals /\ StackKept(e)
      /\ e <= Len(stack) /\ stack \in Seq(Nat) /\ r = Slice(stack', e, Len(stack'))
  BY DEF LeavesResults
<1>2. /\ status' = "running" /\ UNCHANGED valVars /\ Len(call_stack') = d
      /\ \A k \in 1..d : call_stack'[k] = call_stack[k]
      /\ regs' = [ip |-> call_stack[d].ip, label_top |-> call_stack[d].label_stack_top]
  BY DEF GivesWay
<1>3. Active /\ Active' BY <1>2 DEF Active
<1>4. /\ Len(call_stack) \in Nat /\ frame = call_stack[Len(call_stack)]
      /\ \A k \in 1..Len(call_stack) : /\ call_stack[k].locals \in Nat
                                       /\ call_stack[k].locals <= frame.locals
  BY <1>3, LocalsAscend
<1>5. PICK D, h, F, G : D = d + 1 /\ h = call_stack[d] /\ F = Activations /\ G = Activations'
  OBVIOUS
<1>6. D = Len(call_stack) /\ e = call_stack[D].locals /\ D \in Nat /\ d # D /\ e \in Nat
  <2>1. D = Len(call_stack) /\ D \in Nat /\ d # D BY <1>1, <1>5
  <2>2. D \in 1..D BY <1>1, <1>5
  <2>3. QED BY <1>1, <1>4, <2>1, <2>2
<1>7. PICK ob, n : CallerIs(h, ob, n, e, d) BY <1>1, <1>3, <1>5, <1>6, CallerHere
<1>8. /\ Cut(h.labels, ob, n, e) /\ h.locals \in Nat /\ h.locals <= ob /\ ob <= e
      /\ F[d] = View(h, ob, stack, h.ip, n, e) /\ m = n
      /\ n = h.label_stack_top /\ OperandBase(d) = ob
  BY <1>5, <1>7 DEF CallerIs
<1>9. FramesAre(F, D) /\ \A k \in 1..D : F[k] = ViewAt(k)
  BY <1>3, <1>4, <1>5, <1>6, FramesNow
<1>10. FramesAre(G, d) /\ \A k \in 1..d : G[k] = ViewAt(k)' BY <1>1, <1>2, <1>3, <1>5, FramesNext
<1>11. /\ stack' \in Seq(Nat) /\ e <= Len(stack') /\ \A i \in 1..e : stack'[i] = stack[i]
  BY <1>1 DEF StackKept
<1>12. ASSUME NEW k \in 1..d, k # d PROVE G[k] = F[k]
  <2>1. /\ k \in 1..Len(call_stack) /\ k # Len(call_stack) /\ k + 1 \in 1..Len(call_stack)
        /\ k \in 1..Len(call_stack') /\ k # Len(call_stack') /\ Len(call_stack') \in Nat
        /\ k + 1 \in 1..d /\ k \in 1..D
    BY <1>1, <1>2, <1>5, <1>12
  <2>2. call_stack[k + 1].locals <= e BY <1>1, <1>4, <2>1
  <2>3. call_stack'[k] = call_stack[k] /\ call_stack'[k + 1].locals = call_stack[k + 1].locals
    BY <1>2, <2>1
  <2>4. ViewAt(k)' = ViewAt(k)
    BY <1>1, <1>2, <1>3, <1>6, <1>11, <2>1, <2>2, <2>3, WaitsSame
  <2>5. QED BY <1>9, <1>10, <2>1, <2>4
<1>13. d \in 1..d /\ d \in 1..D /\ call_stack'[d] = h BY <1>1, <1>2, <1>5
<1>14. ViewAt(d)' = View(h, ob, stack', h.ip, n, Len(stack'))
  <2>1. OperandBase(d)' = ob
    <3>1. functions' = functions BY <1>2 DEF valVars
    <3>2. QED BY <1>5, <1>8, <1>13, <3>1 DEF OperandBase
  <2>2. IpOf(d)' = h.ip /\ LabelTopOf(d)' = n
    BY <1>2, <1>5, <1>8 DEF IpOf, LabelTopOf, top
  <2>3. OperandEnd(d)' = Len(stack') BY <1>2 DEF OperandEnd, top, sp
  <2>4. QED BY <1>13, <2>1, <2>2, <2>3 DEF ViewAt
<1>15. G[d] = Grown(F[d], m, r)
  <2>1. PICK s, t, q, b : s = stack /\ t = stack' /\ q = h.ip /\ b = Len(t) OBVIOUS
  <2>2. Receives(h, ob, n, e, s, t, r) BY <1>1, <1>8, <1>11, <2>1 DEF Receives
  <2>3. View(h, ob, t, q, n, b) = Grown(View(h, ob, s, q, n, e), n, r)
    BY ONLY <2>1, <2>2, GrownView
  <2>4. QED BY <1>8, <1>10, <1>13, <1>14, <2>1, <2>3
<1>16. PICK K : K = Abstract!Keep(F, 1) OBVIOUS
<1>17. K = [k \in 1..d |-> K[k]] /\ \A k \in 1..d : K[k] = F[k]
  <2>1. ASeq(F) /\ Len(F) = D BY <1>9 DEF FramesAre
  <2>2. QED BY <1>1, <1>5, <1>6, <1>16, <2>1, KeepOne
<1>18. G = [K EXCEPT ![d] = Grown(K[d], m, r)]
  <2>1. PICK X : X = Grown(K[d], m, r) OBVIOUS
  <2>2. /\ K = [k \in 1..d |-> K[k]] /\ d \in 1..d /\ G = [k \in 1..d |-> G[k]]
        /\ G[d] = X /\ \A k \in 1..d : k # d => G[k] = K[k]
    BY <1>10, <1>12, <1>13, <1>15, <1>17, <2>1 DEF FramesAre
  <2>3. G = [K EXCEPT ![d] = X] BY ONLY <2>2, PutAt
  <2>4. QED BY <2>1, <2>3
<1>19. HandedTo(d, m, r)
  <2>1. [K EXCEPT ![d].blocks[m].vals = @ \o r] = [K EXCEPT ![d] = Grown(K[d], m, r)]
    BY DEF Grown
  <2>2. QED BY <1>5, <1>16, <1>18, <2>1 DEF HandedTo
<1>20. Abstract!Proceed
  <2>1. Mode' = Mode /\ Returned' = Returned BY <1>2 DEF Mode, Returned
  <2>2. UNCHANGED functions BY <1>2 DEF valVars
  <2>3. Program' = Program BY <2>2, ProgramStays
  <2>4. QED BY <2>1, <2>3 DEF Abstract!Proceed
<1>21. Held'
  <2>1. ASSUME NEW k \in 1..(d - 1)
        PROVE  Within(call_stack'[k], call_stack'[k + 1].locals)
    <3>1. k \in 1..(Len(call_stack) - 1) /\ k \in 1..d /\ k + 1 \in 1..d BY <1>1, <2>1
    <3>2. Within(call_stack[k], call_stack[k + 1].locals) BY <1>3, <3>1 DEF Held
    <3>3. QED BY <1>2, <3>1, <3>2
  <2>2. \A k \in 1..(Len(call_stack') - 1) : Within(call_stack'[k], call_stack'[k + 1].locals)
    BY <1>2, <2>1
  <2>3. QED BY <1>2, <2>2 DEF Held
<1>22. QED BY <1>19, <1>20, <1>21

-----------------------------------------------------------------------------
(* Ends of functions and returns *)

\* The k results of the function move down to where its frame began.
HandsOver(g, f, v, k) ==
  /\ k = functions[f].results /\ k \in Nat /\ k <= Len(v)
  /\ stack' = Unwound(stack, g.locals, k)

LEMMA ResultsLeft ==
  ASSUME NEW g, NEW f, NEW T, NEW N, NEW p, NEW n, NEW base, NEW a, NEW L, NEW B, NEW v,
         Place(g, f, T, N, p, n, base, a, L, B, v),
         NEW k, HandsOver(g, f, v, k), NEW e, e = g.locals,
         NEW r, r = Slice(stack', e, Len(stack'))
  PROVE  /\ r = Abstract!TopOf(v, k) /\ StackKept(e) /\ e \in Nat /\ e <= Len(stack)
         /\ r \in Seq(Nat)
<1>1. /\ stack \in Seq(Nat) /\ sp = Len(stack) /\ sp \in Nat /\ a \in Nat /\ a <= sp
      /\ base \in Nat /\ base <= a /\ g.locals \in Nat /\ g.locals <= base /\ Len(v) = sp - a
  BY DEF Place, Standing
<1>2. /\ k \in Nat /\ k <= Len(v) /\ stack' = Unwound(stack, e, k) BY DEF HandsOver
<1>3. Leaving(stack, a, v, k)
  <2>1. k <= sp - a BY <1>1, <1>2
  <2>2. QED BY <1>2, <2>1, StackLeaves
<1>4. e \in Nat /\ e <= a /\ e <= Len(stack) /\ a <= Len(stack) BY <1>1
<1>5. MovedDown(stack, v, k, e, e)
  <2>1. MovesDown(stack, a, e, e, k) BY <1>2, <1>4 DEF MovesDown
  <2>2. QED BY ONLY <1>3, <2>1, LeavingTop
<1>6. PICK s, t : s = stack /\ t = stack' OBVIOUS
<1>7. /\ StackKept(e) /\ Slice(t, e, Len(t)) = Slice(s, e, e) \o Abstract!TopOf(v, k)
  BY <1>5, <1>6 DEF MovedDown
<1>8. Slice(s, e, e) = << >>
  <2>1. s \in Seq(Nat) /\ e <= Len(s) /\ e \in Nat BY <1>1, <1>4, <1>6
  <2>2. NoneBefore(s, e) BY ONLY <2>1, EmptySlice
  <2>3. QED BY <2>2 DEF NoneBefore
<1>9. Abstract!TopOf(v, k) \in Seq(Nat) BY ONLY <1>3, LeavingNat
<1>10. << >> \o Abstract!TopOf(v, k) = Abstract!TopOf(v, k) BY ONLY <1>9, EmptyBefore
<1>11. r = Abstract!TopOf(v, k) BY <1>6, <1>7, <1>8, <1>10
<1>12. QED BY <1>4, <1>7, <1>9, <1>11

\* The results are given to the caller, or out of the machine.
LEMMA ReturnsWith ==
  ASSUME ValInv, CtxInv, TypingInv, TypedCtx, Held, status = "running",
         NEW g, NEW f, NEW T, NEW N, NEW p, NEW n, NEW base, NEW a, NEW L, NEW B, NEW v,
         Place(g, f, T, N, p, n, base, a, L, B, v),
         NEW k, HandsOver(g, f, v, k), LeaveFrame
  PROVE  Abstract!ReturnWith(v) /\ Held'
<1>1. PICK e, r : e = g.locals /\ r = Slice(stack', e, Len(stack')) OBVIOUS
<1>2. /\ r = Abstract!TopOf(v, k) /\ StackKept(e) /\ e \in Nat /\ e <= Len(stack)
      /\ r \in Seq(Nat)
  BY <1>1, ResultsLeft
<1>3. /\ g = frame /\ g = call_stack[Len(call_stack)] /\ stack \in Seq(Nat)
      /\ f \in DOMAIN functions /\ Seen(f, p, L, B, n, v)
  BY DEF Place, Standing
<1>4. k = functions[f].results /\ k <= Len(v) /\ k \in Nat BY DEF HandsOver
<1>5. Program[f].results = k BY <1>3, <1>4, ProgramFacts
<1>6. Abstract!cur.func = f /\ Abstract!depth = Len(call_stack) /\ Mode = "running"
  <2>1. Abstract!cur = Act(f, p, L, B) BY <1>3 DEF Seen
  <2>2. QED BY <1>3, <2>1, ActExcept DEF Seen
<1>7. Program[Abstract!cur.func].results = k BY <1>5, <1>6
<1>8. Len(v) >= k /\ Len(v) \in Nat
  <2>1. v \in Seq(Nat) BY DEF Place
  <2>2. QED BY <1>4, <2>1
<1>9. CASE Len(call_stack) = 1 /\ status' = "returned" /\ UNCHANGED valVars
  <2>1. e = 0
    <3>1. Active BY DEF Active
    <3>2. 1 \in 1..Len(call_stack) BY <1>9
    <3>3. Roomy(functions, call_stack[1], 1) BY <3>1, <3>2 DEF TypedCtx, Framed
    <3>4. QED BY <1>1, <1>3, <1>9, <3>3 DEF Roomy
  <2>2. r = stack'
    <3>1. PICK t : t = stack' OBVIOUS
    <3>2. t \in Seq(Nat) BY <1>2, <3>1 DEF StackKept
    <3>3. SubSeq(t, 0 + 1, Len(t)) = t BY ONLY <3>2
    <3>4. QED BY <1>1, <2>1, <3>1, <3>3 DEF Slice
  <2>3. Activations' = << >> /\ Mode' = "returned" /\ Returned' = stack' /\ Held'
    BY <1>9 DEF Activations, Active, Mode, Returned, Held
  <2>4. Program' = Program
    <3>1. UNCHANGED functions BY <1>9 DEF valVars
    <3>2. QED BY <3>1, ProgramStays
  <2>5. Abstract!depth = 1 BY <1>6, <1>9
  <2>6. QED BY <1>2, <1>7, <1>8, <2>2, <2>3, <2>4, <2>5 DEF Abstract!ReturnWith
<1>10. ASSUME NEW d, d \in Nat, d > 0, Len(call_stack) = d + 1, GivesWay(d)
       PROVE  Abstract!ReturnWith(v) /\ Held'
  <2>1. PICK m : m = Len(Activations[d].blocks) OBVIOUS
  <2>2. LeavesResults(d, e, r) BY <1>1, <1>2, <1>3, <1>10 DEF LeavesResults
  <2>3. HandedTo(d, m, r) /\ Abstract!Proceed /\ Held' BY <1>10, <2>1, <2>2, CallerGoesOn
  <2>4. Abstract!depth # 1 /\ Abstract!depth - 1 = d
    <3>1. PICK D : D = Len(call_stack) OBVIOUS
    <3>2. D = d + 1 BY <1>10, <3>1
    <3>3. D # 1 /\ D - 1 = d BY ONLY <3>2, d \in Nat, d > 0
    <3>4. QED BY <1>6, <3>1, <3>3
  <2>5. PICK F, G, K : F = Activations /\ G = Activations' /\ K = Abstract!Keep(F, 1) OBVIOUS
  <2>6. G = [K EXCEPT ![d].blocks[m].vals = @ \o r] BY <2>3, <2>5 DEF HandedTo
  <2>7. /\ UNCHANGED <<Mode, Returned, Program>> BY <2>3 DEF Abstract!Proceed
  <2>8. Abstract!ReturnWith(v)
    BY <1>2, <1>7, <1>8, <2>1, <2>4, <2>5, <2>6, <2>7 DEF Abstract!ReturnWith
  <2>9. QED BY <2>3, <2>8
<1>11. QED BY <1>9, <1>10, LeavesTo

\* The end of the body of a function.
LEMMA EndOuter ==
  ASSUME ValInv, CtxInv, TypingInv, TypedCtx, Held, End, regs.label_top <= 1
  PROVE  Abstract!EndStep /\ Held'
<1>1. status = "running" /\ instr.op = "end" BY DEF End, Running, instr
<1>2. PICK g, f, T, N, p, n, base, a, L, B, v : Place(g, f, T, N, p, n, base, a, L, B, v)
  BY <1>1, PlaceHere
<1>3. /\ n = regs.label_top /\ n \in Nat /\ n > 0 /\ Seen(f, p, L, B, n, v)
      /\ Placed(functions, g, p, n, sp - base)
  BY <1>2 DEF Place, Standing
<1>4. n = 1
  <2>1. PICK x : x = regs.label_top OBVIOUS
  <2>2. x <= 1 /\ n = x /\ n \in Nat /\ n > 0 BY <1>3, <2>1
  <2>3. QED BY ONLY <2>2
<1>r. LeaveFrame
  <2>1. PICK x : x = regs.label_top OBVIOUS
  <2>2. ~(x > 1)
    <3>1. x = 1 BY <1>3, <1>4, <2>1
    <3>2. QED BY ONLY <3>1
  <2>3. QED BY <2>1, <2>2 DEF End
<1>5. PICK l, k : l = g.labels[n] /\ k = l.results OBVIOUS
<1>6. Len(v) = k /\ k \in Nat /\ label = l /\ k = functions[f].results
  BY <1>1, <1>2, <1>4, <1>5, ClosesHere
<1>7. l.stack_top = g.locals BY <1>3, <1>4, <1>5 DEF Placed
<1>8. HandsOver(g, f, v, k)
  <2>1. regs.label_top # 0 BY <1>3
  <2>2. stack' = Unwound(stack, l.stack_top, k) BY <1>5, <1>6, <2>1 DEF End
  <2>3. k <= Len(v) BY <1>6
  <2>4. QED BY <1>6, <1>7, <2>2, <2>3 DEF HandsOver
<1>9. Abstract!ReturnWith(v) /\ Held' BY <1>1, <1>2, <1>8, <1>r, ReturnsWith
<1>10. Abstract!nest = 1 BY <1>3, <1>4 DEF Seen
<1>11. Abstract!vals = v /\ Abstract!Executing({"end", "else"})
  BY <1>1, <1>3, SeesOperands
<1>12. QED BY <1>9, <1>10, <1>11 DEF Abstract!EndStep

LEMMA EndImplements == ASSUME ValInv, CtxInv, TypingInv, TypedCtx, Held, End PROVE Abstract!EndStep /\ Held'
<1>1. CASE regs.label_top > 1 BY <1>1, EndInner
<1>2. CASE regs.label_top <= 1 BY <1>2, EndOuter
<1>3. QED BY <1>1, <1>2 DEF End

LEMMA ReturnImplements == ASSUME ValInv, CtxInv, TypingInv, TypedCtx, Held, Return PROVE Abstract!ReturnStep /\ Held'
<1>1. /\ status = "running" /\ instr.op = "return" /\ LeaveFrame
  BY RunningFrame DEF Return, Running, instr
<1>2. PICK g, f, T, N, p, n, base, a, L, B, v : Place(g, f, T, N, p, n, base, a, L, B, v)
  BY <1>1, PlaceHere
<1>3. PICK t, k : t = T[p] /\ k = functions[f].results OBVIOUS
<1>4. /\ Seen(f, p, L, B, n, v) /\ Placed(functions, g, p, n, sp - base) /\ f = g.func
      /\ Formed(t, k) /\ Checks(t, T[p + 1], instr, Signatures) /\ g = frame
      /\ functions[f] \in Functions
  BY <1>2, <1>3 DEF Place, Standing
<1>5. t.ctrls[1].results = k
  <2>1. t.ctrls # << >> BY <1>2, <1>3 DEF Place, Standing
  <2>2. QED BY <1>4, <2>1 DEF Formed
<1>6. Dies(t, T[p + 1], k) BY <1>1, <1>4, <1>5 DEF Checks
<1>7. k \in Nat /\ k <= t.h - InnerCtrl(t).height
  <2>1. k \in Nat BY <1>3, <1>4 DEF Functions
  <2>2. ~InnerCtrl(t).dead BY <1>2, <1>3 DEF Place, Standing
  <2>3. QED BY <1>6, <2>1, <2>2 DEF Dies
<1>8. k <= Len(v)
  <2>1. k <= T[p].h - InnerCtrl(T[p]).height BY <1>3, <1>7
  <2>2. QED BY <1>2, <1>7, <2>1, RoomAbove
<1>9. HandsOver(g, f, v, k)
  <2>1. g.labels[1].stack_top = g.locals /\ g.labels[1].results = k
    BY <1>3, <1>4 DEF Placed
  <2>2. stack' = Unwound(stack, g.locals, k) BY <1>4, <2>1 DEF Return
  <2>3. QED BY <1>3, <1>7, <1>8, <2>2 DEF HandsOver
<1>10. Abstract!ReturnWith(v) /\ Held' BY <1>1, <1>2, <1>9, ReturnsWith
<1>11. Abstract!vals = v /\ Abstract!Executing({"return"}) BY <1>1, <1>4, SeesOperands
<1>12. QED BY <1>10, <1>11 DEF Abstract!ReturnStep

-----------------------------------------------------------------------------
(* Calls *)

\* The running frame h, once it has been saved at q inside m blocks.
NextTop(g, h, q, m, e, d) ==
  /\ Active' /\ UNCHANGED valVars /\ d = Len(call_stack) /\ d <= Len(call_stack')
  /\ Len(call_stack') \in Nat /\ call_stack'[d] = h
  /\ \A k \in 1..d : k # d => call_stack'[k] = call_stack[k]
  /\ h.func = g.func /\ h.locals = g.locals
  /\ IpOf(d)' = q /\ LabelTopOf(d)' = m /\ OperandEnd(d)' = e

\* Of the d lowest frames the topmost becomes V.
FramesBelow(d, V) ==
  /\ FramesAre(Activations', Len(call_stack')) /\ Activations'[d] = V
  /\ \A k \in 1..d : k # d => Activations'[k] = Activations[k]

LEMMA NextFrames ==
  ASSUME ValInv, CtxInv, TypingInv, TypedCtx, Held, Active,
         NEW g, g = frame, NEW h, NEW q, NEW m, NEW e, NEW d, NextTop(g, h, q, m, e, d),
         StackKept(g.locals), g.locals <= Len(stack),
         NEW base, base = Base(functions, g)
  PROVE  FramesBelow(d, Act(g.func, q, SubSeq(stack', g.locals + 1, base),
                            Blocks(h.labels, base, stack', m, e)))
<1>1. /\ Active' /\ UNCHANGED valVars /\ d = Len(call_stack) /\ d <= Len(call_stack')
      /\ Len(call_stack') \in Nat /\ call_stack'[d] = h
      /\ \A k \in 1..d : k # d => call_stack'[k] = call_stack[k]
      /\ h.func = g.func /\ h.locals = g.locals
      /\ IpOf(d)' = q /\ LabelTopOf(d)' = m /\ OperandEnd(d)' = e
  BY DEF NextTop
<1>2. /\ d \in Nat /\ d > 0 /\ g = call_stack[d]
      /\ \A k \in 1..d : call_stack[k].locals \in Nat /\ call_stack[k].locals <= g.locals
  BY <1>1, LocalsAscend
<1>3. PICK l, L, B : /\ l = g.locals /\ L = SubSeq(stack', g.locals + 1, base)
                     /\ B = Blocks(h.labels, base, stack', m, e)
  OBVIOUS
<1>4. /\ stack' \in Seq(Nat) /\ l <= Len(stack') /\ l <= Len(stack) /\ l \in Nat
      /\ \A i \in 1..l : stack'[i] = stack[i]
  BY <1>2, <1>3 DEF StackKept
<1>5. FramesAre(Activations, d) /\ \A k \in 1..d : Activations[k] = ViewAt(k)
  BY <1>1, <1>2, FramesNow
<1>6. FramesAre(Activations', Len(call_stack'))
      /\ \A k \in 1..Len(call_stack') : Activations'[k] = ViewAt(k)'
  BY <1>1, FramesNext
<1>7. functions' = functions
  BY <1>1 DEF valVars
<1>8. Activations'[d] = Act(g.func, q, L, B)
  <2>1. d \in 1..Len(call_stack')  BY <1>1, <1>2
  <2>2. OperandBase(d)' = base  BY <1>1, <1>7 DEF OperandBase, Base
  <2>3. ViewAt(d)' = View(h, base, stack', q, m, e)  BY <1>1, <2>2 DEF ViewAt
  <2>4. View(h, base, stack', q, m, e)
          = Act(h.func, q, SubSeq(stack', h.locals + 1, base), Blocks(h.labels, base, stack', m, e))
    BY ViewIs
  <2>5. QED BY <1>1, <1>3, <1>6, <2>1, <2>3, <2>4
<1>9. ASSUME NEW k \in 1..d, k # d PROVE Activations'[k] = Activations[k]
  <2>1. k + 1 \in 1..d /\ k \in 1..Len(call_stack') /\ k # Len(call_stack')
    BY <1>1, <1>2, <1>9
  <2>2. call_stack[k + 1].locals <= l  BY <1>2, <1>3, <2>1
  <2>3. call_stack'[k + 1].locals = call_stack[k + 1].locals
    <3>1. CASE k + 1 = d  BY <1>1, <1>2, <3>1
    <3>2. CASE k + 1 # d  BY <1>1, <2>1, <3>2
    <3>3. QED BY <3>1, <3>2
  <2>4. call_stack'[k] = call_stack[k]  BY <1>1, <1>9
  <2>5. ViewAt(k)' = ViewAt(k)  BY <1>1, <1>4, <1>9, <2>1, <2>2, <2>3, <2>4, WaitsSame
  <2>6. QED BY <1>5, <1>6, <2>1, <2>5
<1>10. QED BY <1>3, <1>6, <1>8, <1>9 DEF FramesBelow

\* A call leaves the frame saved and the stack up to z as it was in s.
SavesCaller(s, z) ==
  /\ UNCHANGED valVars /\ stack' \in Seq(Nat) /\ z \in Nat /\ z <= Len(s) /\ z <= Len(stack')
  /\ \A i \in 1..z : stack'[i] = s[i]
  /\ \/ status' = "yielded" /\ call_stack' = SaveFrame /\ Len(stack') = z
     \/ status' = "running" /\ \E e : call_stack' = Append(SaveFrame, e) /\ e.locals = z

CallerKept(h, q, n, z, d) ==
  /\ NextTop(frame, h, q, n, z, d) /\ h.labels = frame.labels
  /\ \A k \in 1..(d - 1) : Within(call_stack[k], call_stack[k + 1].locals)
  /\ Len(call_stack') = d \/ Len(call_stack') = d + 1
  /\ h.label_stack_top = n
  /\ Len(call_stack') = d + 1 => status' = "running" /\ call_stack'[d + 1].locals = z
  /\ Len(call_stack') = d => status' = "yielded" /\ Len(stack') = z

LEMMA CallerSaved ==
  ASSUME ValInv, CtxInv, TypingInv, TypedCtx, Held, status = "running",
         NEW s, NEW z, SavesCaller(s, z), NEW d, d = Len(call_stack),
         NEW q, q = regs.ip + 1, NEW n, n = regs.label_top
  PROVE  \E h : CallerKept(h, q, n, z, d)
<1>1. Active BY DEF Active
<1>2. d \in Nat /\ d > 0 /\ frame = call_stack[d] BY <1>1, LocalsAscend
<1>3. (\E S : SaveFrame \in Seq(S)) /\ Len(SaveFrame) = d
  BY SaveKeeps, RunningFrame DEF Stacked, top
<1>4. OnlyWrote(call_stack, SaveFrame, q, n) BY WrittenBack DEF SaveFrame
<1>5. PICK h : /\ h = SaveFrame[d] /\ \A k \in 1..d : k # d => SaveFrame[k] = call_stack[k]
               /\ h.func = frame.func /\ h.locals = frame.locals /\ h.labels = frame.labels
               /\ h.ip = q /\ h.label_stack_top = n
  BY <1>2, <1>4 DEF OnlyWrote
<1>6. \A k \in 1..(d - 1) : Within(call_stack[k], call_stack[k + 1].locals)
  BY <1>1 DEF Held
<1>7. UNCHANGED valVars BY DEF SavesCaller
<1>8. CASE status' = "yielded" /\ call_stack' = SaveFrame /\ Len(stack') = z
  <2>1. /\ Len(call_stack') = d /\ call_stack'[d] = h /\ Active'
        /\ \A k \in 1..d : k # d => call_stack'[k] = call_stack[k]
    BY <1>3, <1>5, <1>8 DEF Active
  <2>2. IpOf(d)' = q /\ LabelTopOf(d)' = n /\ OperandEnd(d)' = z
    BY <1>5, <1>8, <2>1 DEF IpOf, LabelTopOf, OperandEnd, top, sp
  <2>3. NextTop(frame, h, q, n, z, d) BY <1>2, <1>5, <1>7, <2>1, <2>2 DEF NextTop
  <2>4. d # d + 1 BY <1>2
  <2>5. QED BY <1>5, <1>6, <1>8, <2>1, <2>3, <2>4 DEF CallerKept
<1>9. CASE status' = "running" /\ \E e : call_stack' = Append(SaveFrame, e) /\ e.locals = z
  <2>0. PICK e : call_stack' = Append(SaveFrame, e) /\ e.locals = z BY <1>9
  <2>1. /\ Len(call_stack') = d + 1 /\ call_stack'[d + 1] = e
        /\ \A k \in 1..d : call_stack'[k] = SaveFrame[k]
    BY <1>3, <2>0, SeqPush
  <2>2. /\ call_stack'[d] = h /\ Active' /\ d <= Len(call_stack') /\ Len(call_stack') \in Nat
        /\ \A k \in 1..d : k # d => call_stack'[k] = call_stack[k]
    BY <1>2, <1>5, <1>9, <2>1 DEF Active
  <2>3. IpOf(d)' = q /\ LabelTopOf(d)' = n /\ OperandEnd(d)' = z
    <3>1. d # Len(call_stack') BY <1>2, <2>1
    <3>2. QED BY <1>5, <2>0, <2>1, <2>2, <3>1 DEF IpOf, LabelTopOf, OperandEnd, top
  <2>4. NextTop(frame, h, q, n, z, d) BY <1>5, <1>7, <2>2, <2>3 DEF NextTop
  <2>5. d # d + 1 BY <1>2
  <2>6. QED BY <1>5, <1>6, <1>9, <2>0, <2>1, <2>4, <2>5 DEF CallerKept
<1>10. QED BY <1>8, <1>9 DEF SavesCaller

LEMMA HeldAfterCall ==
  ASSUME ValInv, CtxInv, TypingInv, TypedCtx, Active, NEW h, NEW q, NEW n, NEW z, NEW d,
         CallerKept(h, q, n, z, d), Within(h, z)
  PROVE  Held'
<1>1. /\ NextTop(frame, h, q, n, z, d)
      /\ \A k \in 1..(d - 1) : Within(call_stack[k], call_stack[k + 1].locals)
      /\ Len(call_stack') = d \/ Len(call_stack') = d + 1
      /\ Len(call_stack') = d + 1 => status' = "running" /\ call_stack'[d + 1].locals = z
      /\ Len(call_stack') = d => status' = "yielded" /\ Len(stack') = z
  BY DEF CallerKept
<1>2. /\ d = Len(call_stack) /\ call_stack'[d] = h /\ h.locals = frame.locals
      /\ \A k \in 1..d : k # d => call_stack'[k] = call_stack[k]
  BY <1>1 DEF NextTop
<1>3. d \in Nat /\ d > 0 /\ frame = call_stack[d] BY <1>2 DEF CtxInv, Active, frame, top
<1>4. ASSUME NEW k \in 1..(d - 1) PROVE Within(call_stack'[k], call_stack'[k + 1].locals)
  <2>1. k \in 1..d /\ k # d /\ k + 1 \in 1..d BY <1>3
  <2>2. call_stack'[k] = call_stack[k] BY <1>2, <2>1
  <2>3. call_stack'[k + 1].locals = call_stack[k + 1].locals
    <3>1. CASE k + 1 = d BY <1>2, <1>3, <3>1
    <3>2. CASE k + 1 # d BY <1>2, <2>1, <3>2
    <3>3. QED BY <3>1, <3>2
  <2>4. QED BY <1>1, <1>4, <2>2, <2>3
<1>5. CASE Len(call_stack') = d
  <2>1. status' = "yielded" /\ Len(stack') = z BY <1>1, <1>5
  <2>2. \A k \in 1..(Len(call_stack') - 1) : Within(call_stack[k]', call_stack[k + 1].locals')
    BY <1>4, <1>5
  <2>3. QED BY <1>2, <1>5, <2>1, <2>2 DEF Held
<1>6. CASE Len(call_stack') = d + 1
  <2>1. status' = "running" /\ call_stack'[d + 1].locals = z BY <1>1, <1>6
  <2>2. ASSUME NEW k \in 1..(Len(call_stack') - 1)
        PROVE  Within(call_stack[k]', call_stack[k + 1].locals')
    <3>1. CASE k = d BY <1>2, <2>1, <3>1
    <3>2. CASE k # d
      <4>1. k \in 1..(d - 1) BY <1>3, <1>6, <2>2, <3>2
      <4>2. QED BY <1>4, <4>1
    <3>3. QED BY <3>1, <3>2
  <2>3. QED BY <2>1, <2>2 DEF Held
<1>7. QED BY <1>1, <1>5, <1>6

\* The k arguments on top of s begin at slot z.
ArgumentsAt(s, k, z, a) == z = Len(s) - k /\ a <= z /\ z \in Nat

\* The caller keeps the operands below its arguments.
LEMMA CallerWaits ==
  ASSUME ValInv, CtxInv, TypingInv, TypedCtx, Held, status = "running",
         NEW g, NEW f, NEW T, NEW N, NEW p, NEW n, NEW base, NEW a, NEW L, NEW B, NEW v,
         Place(g, f, T, N, p, n, base, a, L, B, v),
         NEW s, NEW w, NEW k, Leaving(s, a, w, k), NEW z, ArgumentsAt(s, k, z, a),
         SavesCaller(s, z), NEW d, d = Len(call_stack)
  PROVE  FramesBelow(d, Abstract!WithVals(Abstract!Keep(w, k))) /\ Held'
<1>1. /\ g = frame /\ f = g.func /\ n = regs.label_top /\ p = regs.ip /\ a \in Nat
      /\ base <= a /\ a <= sp /\ base \in Nat
      /\ base = Base(functions, g) /\ Cut(g.labels, base, n, sp)
      /\ a = FirstOf(g.labels, base, n) /\ B = Blocks(g.labels, base, stack, n, sp)
      /\ stack \in Seq(Nat) /\ sp = Len(stack) /\ n \in Nat /\ n > 0 /\ p \in Nat
      /\ Seen(f, p, L, B, n, v) /\ g.locals \in Nat /\ g.locals <= base
  BY DEF Place, Standing
<1>2. /\ s \in Seq(Nat) /\ Len(s) <= sp /\ \A i \in 1..Len(s) : s[i] = stack[i]
      /\ w = Slice(s, a, Len(s)) /\ k \in Nat /\ k <= Len(s) - a /\ a <= Len(s)
  BY DEF Leaving
<1>3. z = Len(s) - k /\ a <= z /\ z \in Nat BY DEF ArgumentsAt
<1>4. /\ stack' \in Seq(Nat) /\ z <= Len(s) /\ z <= Len(stack')
      /\ \A i \in 1..z : stack'[i] = s[i]
  BY DEF SavesCaller
<1>5. /\ StackKept(a) /\ Active /\ g.locals <= Len(stack)
  <2>1. \A i \in 1..a : stack'[i] = stack[i]
    <3>0. PICK m : m = Len(s) OBVIOUS
    <3>m. m \in Nat BY <1>2, <3>0
    <3>z. a \in Nat /\ a <= z /\ z \in Nat /\ z <= m BY <1>1, <1>3, <1>4, <3>0
    <3>1. \A i \in 1..a : i \in 1..z /\ i \in 1..Len(s) BY ONLY <3>0, <3>m, <3>z
    <3>2. QED BY <1>2, <1>4, <3>1
  <2>2. a <= Len(stack') BY ONLY <1>1, <1>2, <1>3, <1>4
  <2>3. QED BY <1>1, <1>4, <2>1, <2>2 DEF StackKept, Active
<1>6. PICK q, h : q = regs.ip + 1 /\ CallerKept(h, q, n, z, d) BY <1>1, CallerSaved
<1>7. NextTop(g, h, q, n, z, d) /\ h.labels = g.labels BY <1>1, <1>6 DEF CallerKept
<1>8. SubSeq(stack', g.locals + 1, base) = L /\ StackKept(g.locals) BY <1>1, <1>5, LocalsKept
<1>9. FramesBelow(d, Act(f, q, L, Blocks(h.labels, base, stack', n, z)))
  <2>1. FramesBelow(d, Act(g.func, q, SubSeq(stack', g.locals + 1, base),
                           Blocks(h.labels, base, stack', n, z)))
    BY <1>1, <1>5, <1>7, <1>8, NextFrames
  <2>2. QED BY <1>1, <1>8, <2>1
<1>10. PICK S, t, e, labels, X : /\ S = stack /\ t = stack' /\ e = sp /\ labels = g.labels
                                 /\ X = Abstract!Keep(w, k)
  OBVIOUS
<1>11. Blocks(labels, base, t, n, z) = BlocksFilled(B, n, t, a, z)
  <2>1. Carries(labels, base, n, e, S, t, n, a, labels)
    <3>1. n \in 1..n BY <1>1
    <3>2. /\ \A i \in 1..a : t[i] = S[i]
          /\ a <= Len(t) /\ t \in Seq(Nat)
      BY <1>5, <1>10 DEF StackKept
    <3>3. /\ Cut(labels, base, n, e) /\ a = FirstOf(labels, base, n) /\ S \in Seq(Nat)
          /\ e <= Len(S)
      BY <1>1, <1>10
    <3>4. \A i \in (base + 1)..a : i \in 1..a BY ONLY <1>1
    <3>5. \A i \in (base + 1)..a : t[i] = S[i] BY <3>2, <3>4
    <3>6. QED BY <3>1, <3>2, <3>3, <3>5 DEF Carries
  <2>2. Blocks(labels, base, t, n, z)
          = BlocksFilled(Blocks(labels, base, S, n, e), n, t, a, z)
    BY ONLY <2>1, BlocksTop
  <2>3. QED BY <1>1, <1>10, <2>2
<1>12. SubSeq(t, a + 1, z) = X
  <2>1. Parts(s, a, Len(s), k, z) BY <1>1, <1>2, <1>3 DEF Parts
  <2>2. Abstract!Keep(Slice(s, a, Len(s)), k) = Slice(s, a, z) BY ONLY <2>1, PartsOf
  <2>3. \A i \in (a + 1)..z : i \in 1..z BY ONLY <1>1
  <2>4. /\ s \in Seq(Nat) /\ t \in Seq(Nat) /\ a \in Nat /\ z \in Nat /\ a <= z
        /\ z <= Len(s) /\ z <= Len(t) /\ \A i \in (a + 1)..z : t[i] = s[i]
    BY <1>1, <1>2, <1>3, <1>4, <1>10, <2>3
  <2>5. SubSeq(t, a + 1, z) = SubSeq(s, a + 1, z) BY ONLY <2>4, SliceSame
  <2>6. QED BY <1>2, <1>10, <2>2, <2>5 DEF Slice
<1>13. Blocks(h.labels, base, stack', n, z) = [B EXCEPT ![n].vals = X]
  BY <1>7, <1>10, <1>11, <1>12 DEF BlocksFilled
<1>14. Abstract!WithVals(X) = Act(f, p + 1, L, [B EXCEPT ![n].vals = X]) BY <1>1, WithValsIs
<1>15. FramesBelow(d, Abstract!WithVals(X)) BY <1>1, <1>6, <1>9, <1>13, <1>14
<1>16. Within(h, z)
  <2>1. \A j \in 2..n : g.labels[j].stack_top <= z
    <3>1. TAKE j \in 2..n
    <3>2. j \in 1..n /\ n \in 1..n /\ j <= n /\ j # 1 BY <1>1
    <3>3. FirstOf(g.labels, base, j) <= FirstOf(g.labels, base, n)
          /\ FirstOf(g.labels, base, j) \in Nat
      BY <1>1, <3>2 DEF Cut
    <3>4. FirstOf(g.labels, base, j) = g.labels[j].stack_top BY <3>2 DEF FirstOf
    <3>5. QED BY <1>1, <1>3, <3>3, <3>4
  <2>2. h.label_stack_top = n BY <1>6 DEF CallerKept
  <2>3. QED BY <1>7, <2>1, <2>2 DEF Within
<1>17. Held' BY <1>5, <1>6, <1>16, HeldAfterCall
<1>18. QED BY <1>10, <1>15, <1>17

\* Function j takes k arguments.
Callee(j, k) == j \in DOMAIN functions /\ k = functions[j].params

LEMMA CalleeSeen ==
  ASSUME ValInv, NEW j, NEW k, Callee(j, k)
  PROVE  /\ j \in DOMAIN Program /\ Program[j].params = k /\ k \in Nat
         /\ Program[j].kind = functions[j].kind /\ functions[j].results \in Nat
         /\ Program[j].results = functions[j].results /\ functions[j] \in Functions
         /\ functions[j].local_count \in Nat
<1>1. functions[j] \in Functions BY FunctionFields DEF Callee, ValInv
<1>2. k \in Nat /\ functions[j].results \in Nat /\ functions[j].local_count \in Nat
  BY <1>1 DEF Callee, Functions
<1>3. QED BY <1>1, <1>2, ProgramFacts DEF Callee

\* The host answers at once.
LEMMA HostReturns ==
  ASSUME ValInv, CtxInv, TypingInv, TypedCtx, Held, status = "running", UNCHANGED valVars,
         NEW g, NEW f, NEW T, NEW N, NEW p, NEW n, NEW base, NEW a, NEW L, NEW B, NEW v,
         Place(g, f, T, N, p, n, base, a, L, B, v),
         NEW s, NEW w, NEW k, Leaving(s, a, w, k), NEW j, Callee(j, k),
         functions[j].kind = "host", NEW r, r \in Tuples(functions[j].results),
         stack' = Below(s, k) \o r, Step(regs.label_top),
         UNCHANGED <<call_stack, labels_pool_top, status>>
  PROVE  Abstract!CallHost(w, j) /\ Held'
<1>1. /\ Program[j].params = k /\ Program[j].kind = "host" /\ functions[j].results \in Nat
      /\ Program[j].results = functions[j].results
  BY CalleeSeen
<1>2. r \in Seq(Nat) BY <1>1, TuplesNat
<1>3. /\ s \in Seq(Nat) /\ a \in Nat /\ a <= Len(s) /\ k \in Nat /\ k <= Len(s) - a
      /\ \A i \in 1..Len(s) : s[i] = stack[i]
  BY DEF Leaving
<1>4. PICK t : t = stack' OBVIOUS
<1>5. Replaced(s, t, a, k, r)
  <2>1. t = Below(s, k) \o r BY <1>4
  <2>2. QED BY ONLY <1>2, <1>3, <2>1, ReplaceOperands
<1>6. PICK u : u = SubSeq(stack', a + 1, Len(stack')) OBVIOUS
<1>7. u = Abstract!Keep(w, k) \o r BY <1>4, <1>5, <1>6 DEF Replaced, Leaving, Slice
<1>8. StackKept(a)
  <2>1. t \in Seq(Nat) /\ a <= Len(t) /\ \A i \in 1..a : t[i] = s[i] BY <1>5 DEF Replaced
  <2>2. \A i \in 1..a : i \in 1..Len(s) BY ONLY <1>3
  <2>3. QED BY <1>3, <1>4, <2>1, <2>2 DEF StackKept
<1>9. Stepped BY <1>8 DEF Stepped, StackKept
<1>10. Abstract!Put(Abstract!WithVals(u)) /\ Abstract!Proceed /\ Held'
  BY <1>6, <1>8, <1>9, PutSame
<1>11. r \in Abstract!Tuples(Program[j].results) BY <1>1 DEF Tuples, Abstract!Tuples
<1>12. QED BY <1>1, <1>7, <1>10, <1>11 DEF Abstract!CallHost

\* The host answers later.
LEMMA HostSuspends ==
  ASSUME ValInv, CtxInv, TypingInv, TypedCtx, Held, status = "running", UNCHANGED valVars,
         NEW g, NEW f, NEW T, NEW N, NEW p, NEW n, NEW base, NEW a, NEW L, NEW B, NEW v,
         Place(g, f, T, N, p, n, base, a, L, B, v),
         NEW s, NEW w, NEW k, Leaving(s, a, w, k), NEW j, Callee(j, k),
         functions[j].kind = "host",
         stack' = Below(s, k), status' = "yielded", call_stack' = SaveFrame
  PROVE  Abstract!CallHost(w, j) /\ Held'
<1>1. Program[j].params = k /\ Program[j].kind = "host" BY CalleeSeen
<1>2. /\ s \in Seq(Nat) /\ a \in Nat /\ a <= Len(s) /\ k \in Nat /\ k <= Len(s) - a
  BY DEF Leaving
<1>3. PICK z, d : z = Len(s) - k /\ d = Len(call_stack) OBVIOUS
<1>4. a <= z /\ z \in Nat /\ z <= Len(s) /\ k <= Len(s) BY <1>2, <1>3
<1>5. stack' \in Seq(Nat) /\ Len(stack') = z BY <1>2, <1>3, <1>4, BelowNat
<1>6. \A i \in 1..z : stack'[i] = s[i] BY <1>2, <1>3, <1>4, BelowSlice
<1>7. SavesCaller(s, z) /\ ArgumentsAt(s, k, z, a)
  <2>1. z <= Len(stack') BY <1>4, <1>5
  <2>2. QED BY <1>3, <1>4, <1>5, <1>6, <2>1 DEF SavesCaller, ArgumentsAt
<1>8. PICK V : V = Abstract!WithVals(Abstract!Keep(w, k)) OBVIOUS
<1>9. FramesBelow(d, V) /\ Held' BY <1>3, <1>7, <1>8, CallerWaits
<1>10. FramesAre(Activations, d) /\ Abstract!depth = d /\ d \in Nat /\ d > 0
  <2>1. Seen(f, p, L, B, n, v) BY DEF Place
  <2>2. Active BY DEF Active
  <2>3. QED BY <1>3, <2>1, <2>2, LocalsAscend DEF Seen
<1>11. Len(call_stack') = d BY <1>3, SaveKeeps DEF top
<1>12. Activations' = [Activations EXCEPT ![d] = V]
  <2>1. PICK F, G : F = Activations /\ G = Activations' OBVIOUS
  <2>2. d \in 1..d BY <1>10
  <2>3. /\ F = [i \in 1..d |-> F[i]] /\ G = [i \in 1..d |-> G[i]] /\ G[d] = V
        /\ \A i \in 1..d : i # d => G[i] = F[i]
    BY <1>9, <1>10, <1>11, <2>1 DEF FramesBelow, FramesAre
  <2>4. G = [F EXCEPT ![d] = V] BY ONLY <2>2, <2>3, PutAt
  <2>5. QED BY <2>1, <2>4
<1>13. Mode' = "waiting" /\ Returned' = Returned BY DEF Mode, Returned
<1>14. Program' = Program
  <2>1. UNCHANGED functions BY DEF valVars
  <2>2. QED BY <2>1, ProgramStays
<1>15. Abstract!Put(V) BY <1>10, <1>12 DEF Abstract!Put
<1>16. QED BY <1>1, <1>8, <1>9, <1>13, <1>14, <1>15 DEF Abstract!CallHost

LEMMA HostImplements ==
  ASSUME ValInv, CtxInv, TypingInv, TypedCtx, Held, status = "running", UNCHANGED valVars,
         instr.op \in {"call", "call_indirect"},
         NEW g, NEW f, NEW T, NEW N, NEW p, NEW n, NEW base, NEW a, NEW L, NEW B, NEW v,
         Place(g, f, T, N, p, n, base, a, L, B, v),
         NEW s, NEW w, NEW k, Leaving(s, a, w, k), NEW j, Callee(j, k),
         functions[j].kind = "host", CallHost(s, j)
  PROVE  (Abstract!CallHost(w, j) \/ Abstract!Trapping) /\ Held'
<1>1. k = functions[j].params BY DEF Callee
<1>2. CASE /\ \E r \in Tuples(functions[j].results) : stack' = Below(s, k) \o r
           /\ Step(regs.label_top) /\ UNCHANGED <<call_stack, labels_pool_top, status>>
  <2>1. PICK r \in Tuples(functions[j].results) : stack' = Below(s, k) \o r BY <1>2
  <2>2. QED BY <1>2, <2>1, HostReturns
<1>3. CASE stack' = Below(s, k) /\ status' = "yielded" /\ call_stack' = SaveFrame
  BY <1>3, HostSuspends
<1>4. CASE Trap("kErrorExecuteRuntimeError")
  <2>1. status' = "kErrorExecuteRuntimeError" BY <1>4 DEF Trap
  <2>2. QED BY <2>1, Traps
<1>5. QED BY <1>1, <1>2, <1>3, <1>4 DEF CallHost

\* A frame X on top of d frames, of which the topmost becomes V.
Grew(F, G, d, V, X) ==
  /\ d \in Nat /\ d > 0 /\ FramesAre(F, d) /\ FramesAre(G, d + 1)
  /\ G[d] = V /\ G[d + 1] = X /\ \A i \in 1..d : i # d => G[i] = F[i]

LEMMA FrameAdded ==
  ASSUME NEW F, NEW G, NEW d, NEW V, NEW X, Grew(F, G, d, V, X)
  PROVE  G = Append([F EXCEPT ![d] = V], X)
<1>1. /\ d \in Nat /\ d > 0 /\ F = [i \in 1..d |-> F[i]]
      /\ G = [i \in 1..(d + 1) |-> G[i]] /\ G[d] = V /\ G[d + 1] = X
      /\ \A i \in 1..d : i # d => G[i] = F[i]
  BY DEF Grew, FramesAre
<1>2. PICK K, m : K = [i \in 1..d |-> IF i = d THEN V ELSE F[i]] /\ m = d + 1 OBVIOUS
<1>d. d \in 1..d BY <1>1
<1>3. /\ K = [i \in 1..d |-> K[i]] /\ K[d] = V /\ \A i \in 1..d : i # d => K[i] = F[i]
  BY <1>2, <1>d
<1>k. K = [F EXCEPT ![d] = V] BY ONLY <1>1, <1>3, <1>d, PutAt
<1>4. (\E S : K \in Seq(S)) /\ Len(K) = d BY <1>1, <1>3, TupleSame
<1>5. PICK A : A = Append(K, X) OBVIOUS
<1>6. (\E S : A \in Seq(S)) /\ Len(A) = m /\ A[m] = X /\ \A i \in 1..d : A[i] = K[i]
  <2>1. PICK S : K \in Seq(S) BY <1>4
  <2>2. /\ (\E Q : Append(K, X) \in Seq(Q)) /\ Len(Append(K, X)) = Len(K) + 1
        /\ \A i \in 1..Len(K) : Append(K, X)[i] = K[i]
        /\ Append(K, X)[Len(K) + 1] = X
    BY ONLY <2>1, SeqPush
  <2>3. m = Len(K) + 1 BY <1>2, <1>4
  <2>4. QED BY <1>4, <1>5, <2>2, <2>3
<1>7. A = [i \in 1..m |-> A[i]] BY <1>6
<1>8. ASSUME NEW i \in 1..m PROVE G[i] = A[i]
  <2>1. CASE i = m BY <1>1, <1>2, <1>6, <2>1
  <2>2. CASE i # m
    <3>1. i \in 1..d BY <1>1, <1>2, <2>2
    <3>2. G[i] = K[i] BY <1>1, <1>3, <3>1
    <3>3. QED BY <1>6, <3>1, <3>2
  <2>3. QED BY <2>1, <2>2
<1>9. G = [i \in 1..m |-> G[i]] BY <1>1, <1>2
<1>10. G = A BY ONLY <1>7, <1>8, <1>9, SameSeq
<1>11. QED BY <1>5, <1>10, <1>k

\* The arguments become the locals of the new frame.
LEMMA LocalEnters ==
  ASSUME ValInv, CtxInv, TypingInv, TypedCtx, Held, status = "running", UNCHANGED valVars,
         NEW g, NEW f, NEW T, NEW N, NEW p, NEW n, NEW base, NEW a, NEW L, NEW B, NEW v,
         Place(g, f, T, N, p, n, base, a, L, B, v),
         NEW s, NEW w, NEW k, Leaving(s, a, w, k), NEW j, Callee(j, k),
         functions[j].kind = "local", NEW z, ArgumentsAt(s, k, z, a),
         stack' = s \o Zeros(functions[j].local_count),
         call_stack' = Append(SaveFrame, NewFrame(j, z)), Continue(0, 1), UNCHANGED status
  PROVE  Abstract!CallLocal(w, j) /\ Held'
<1>1. /\ Program[j].params = k /\ Program[j].kind = "local" /\ j \in DOMAIN functions
      /\ k = functions[j].params
  BY CalleeSeen DEF Callee
<1>2. /\ s \in Seq(Nat) /\ a \in Nat /\ a <= Len(s) /\ k \in Nat /\ k <= Len(s) - a
      /\ w = Slice(s, a, Len(s))
  BY DEF Leaving
<1>3. z = Len(s) - k /\ a <= z /\ z \in Nat BY DEF ArgumentsAt
<1>4. PICK d, t, b, e : /\ d = Len(call_stack) /\ t = stack' /\ e = NewFrame(j, z)
                        /\ b = Base(functions, e)
  OBVIOUS
<1>5. Fresh(j, s, z, t, b)
  <2>1. Len(s) = z + k BY <1>2, <1>3
  <2>2. QED BY <1>1, <1>2, <1>3, <1>4, <2>1 DEF Fresh
<1>6. /\ t \in Seq(Nat) /\ Len(t) = b /\ b \in Nat /\ Len(s) <= b
      /\ \A i \in 1..Len(s) : t[i] = s[i]
      /\ View(e, b, t, 0, 1, b) = Abstract!Activation(j, Slice(s, z, Len(s)))
  <2>1. /\ t \in Seq(Nat) /\ Len(t) = b /\ b \in Nat /\ Len(s) <= b
        /\ \A i \in 1..Len(s) : t[i] = s[i]
        /\ View(NewFrame(j, z), b, t, 0, 1, b) = Abstract!Activation(j, Slice(s, z, Len(s)))
    BY ONLY ValInv, <1>5, FreshView
  <2>2. QED BY <1>4, <2>1
<1>7. SavesCaller(s, z)
  <2>0. PICK m : /\ m = Len(s) /\ m \in Nat /\ z = m - k /\ k \in Nat /\ z \in Nat /\ m <= b
    BY <1>2, <1>3, <1>6
  <2>1. z <= m /\ z <= b /\ \A i \in 1..z : i \in 1..m BY ONLY <2>0, <1>6
  <2>2. \A i \in 1..z : t[i] = s[i] BY <1>6, <2>0, <2>1
  <2>3. e.locals = z BY <1>4 DEF NewFrame
  <2>4. /\ stack' \in Seq(Nat) /\ z <= Len(stack') /\ z <= Len(s)
        /\ \A i \in 1..z : stack'[i] = s[i]
    BY <1>4, <1>6, <2>0, <2>1, <2>2
  <2>5. status' = "running" /\ \E x : call_stack' = Append(SaveFrame, x) /\ x.locals = z
    BY <1>4, <2>3
  <2>6. QED BY ONLY <1>3, <2>4, <2>5, UNCHANGED valVars DEF SavesCaller
<1>8. PICK V, X : /\ V = Abstract!WithVals(Abstract!Keep(w, k))
                  /\ X = Abstract!Activation(j, Abstract!TopOf(w, k))
  OBVIOUS
<1>9. FramesBelow(d, V) /\ Held' BY <1>4, <1>7, <1>8, CallerWaits
<1>10. FramesAre(Activations, d) /\ Abstract!depth = d /\ d \in Nat /\ d > 0
  <2>1. Seen(f, p, L, B, n, v) BY DEF Place
  <2>2. Active BY DEF Active
  <2>3. QED BY <1>4, <2>1, <2>2, LocalsAscend DEF Seen
<1>11. Len(call_stack') = d + 1 /\ call_stack'[d + 1] = e
  <2>1. (\E S : SaveFrame \in Seq(S)) /\ Len(SaveFrame) = d
    BY <1>4, SaveKeeps, RunningFrame DEF Stacked, top
  <2>2. QED BY <1>4, <2>1, SeqPush
<1>12. Activations'[d + 1] = ViewAt(d + 1)'
  <2>1. Active' /\ Len(call_stack') \in Nat /\ d + 1 \in 1..Len(call_stack')
    BY <1>10, <1>11 DEF Active
  <2>2. QED BY <2>1, FramesNext
<1>13. ViewAt(d + 1)' = View(e, b, t, 0, 1, b)
  <2>1. OperandBase(d + 1)' = b
    <3>1. functions' = functions BY DEF valVars
    <3>2. QED BY <1>4, <1>11, <3>1 DEF OperandBase, Base
  <2>2. IpOf(d + 1)' = 0 /\ LabelTopOf(d + 1)' = 1
    BY <1>11 DEF IpOf, LabelTopOf, top, Continue
  <2>3. OperandEnd(d + 1)' = b BY <1>4, <1>6, <1>11 DEF OperandEnd, top, sp
  <2>4. QED BY <1>4, <1>11, <2>1, <2>2, <2>3 DEF ViewAt
<1>14. Abstract!TopOf(w, k) = Slice(s, z, Len(s))
  <2>1. Parts(s, a, Len(s), k, z) BY <1>2, <1>3 DEF Parts
  <2>2. Abstract!TopOf(Slice(s, a, Len(s)), k) = Slice(s, z, Len(s)) BY ONLY <2>1, PartsOf
  <2>3. QED BY <1>2, <2>2
<1>15. Activations'[d + 1] = X BY <1>6, <1>8, <1>12, <1>13, <1>14
<1>16. Activations' = Append([Activations EXCEPT ![d] = V], X)
  <2>1. PICK F, G : F = Activations /\ G = Activations' OBVIOUS
  <2>2. Grew(F, G, d, V, X) BY <1>9, <1>10, <1>11, <1>15, <2>1 DEF FramesBelow, Grew
  <2>3. G = Append([F EXCEPT ![d] = V], X) BY ONLY <2>2, FrameAdded
  <2>4. QED BY <2>1, <2>3
<1>17. Abstract!Proceed
  <2>1. Mode' = Mode /\ Returned' = Returned BY DEF Mode, Returned
  <2>2. UNCHANGED functions BY DEF valVars
  <2>3. Program' = Program BY <2>2, ProgramStays
  <2>4. QED BY <2>1, <2>3 DEF Abstract!Proceed
<1>18. QED BY <1>1, <1>8, <1>9, <1>10, <1>16, <1>17 DEF Abstract!CallLocal

LEMMA LocalImplements ==
  ASSUME ValInv, CtxInv, TypingInv, TypedCtx, Held, status = "running", UNCHANGED valVars,
         instr.op \in {"call", "call_indirect"},
         NEW g, NEW f, NEW T, NEW N, NEW p, NEW n, NEW base, NEW a, NEW L, NEW B, NEW v,
         Place(g, f, T, N, p, n, base, a, L, B, v),
         NEW s, NEW w, NEW k, Leaving(s, a, w, k), NEW j, Callee(j, k),
         functions[j].kind = "local", NEW overflow,
         overflow \notin {"idle", "running", "yielded", "returned"},
         PushCallFrame(s, j, overflow)
  PROVE  (Abstract!CallLocal(w, j) \/ Abstract!Trapping) /\ Held'
<1>1. PICK z : z = Len(s) - functions[j].params OBVIOUS
<1>2. ArgumentsAt(s, k, z, a)
  <2>1. k = functions[j].params BY DEF Callee
  <2>2. k \in Nat /\ k <= Len(s) - a /\ a \in Nat /\ s \in Seq(Nat) /\ a <= Len(s)
    BY DEF Leaving
  <2>3. QED BY <1>1, <2>1, <2>2 DEF ArgumentsAt
<1>3. CASE status' \notin {"idle", "running", "yielded", "returned"} BY <1>3, Traps
<1>4. CASE /\ stack' = s \o Zeros(functions[j].local_count)
           /\ call_stack' = Append(SaveFrame, NewFrame(j, z)) /\ Continue(0, 1)
           /\ UNCHANGED status
  BY <1>2, <1>4, LocalEnters
<1>5. QED BY <1>1, <1>3, <1>4 DEF PushCallFrame

LEMMA InvokeImplements ==
  ASSUME ValInv, CtxInv, TypingInv, TypedCtx, Held, status = "running",
         instr.op \in {"call", "call_indirect"},
         NEW g, NEW f, NEW T, NEW N, NEW p, NEW n, NEW base, NEW a, NEW L, NEW B, NEW v,
         Place(g, f, T, N, p, n, base, a, L, B, v),
         NEW s, NEW w, NEW k, Leaving(s, a, w, k), NEW j, Callee(j, k),
         NEW overflow, overflow \notin {"idle", "running", "yielded", "returned"},
         Invoke(s, j, overflow)
  PROVE  (Abstract!CallOf(w, j) \/ Abstract!Trapping) /\ Held'
<1>1. UNCHANGED valVars BY DEF Invoke
<1>2. Program[j].params = k BY CalleeSeen
<1>3. Len(w) >= k
  <2>1. PICK m : m = Len(s) OBVIOUS
  <2>2. /\ s \in Seq(Nat) /\ m = Len(s) /\ m \in Nat /\ a \in Nat /\ a <= m /\ m <= Len(s)
        /\ w = SubSeq(s, a + 1, m) /\ k \in Nat /\ k <= m - a
    BY <2>1 DEF Leaving, Slice
  <2>3. Len(SubSeq(s, a + 1, m)) = m - a BY ONLY <2>2, SliceFacts
  <2>4. QED BY <2>2, <2>3
<1>4. CASE functions[j].kind = "host" /\ CallHost(s, j)
  <2>1. (Abstract!CallHost(w, j) \/ Abstract!Trapping) /\ Held' BY <1>1, <1>4, HostImplements
  <2>2. QED BY <1>2, <1>3, <2>1 DEF Abstract!CallOf
<1>5. CASE functions[j].kind = "local" /\ PushCallFrame(s, j, overflow)
  <2>1. (Abstract!CallLocal(w, j) \/ Abstract!Trapping) /\ Held'
    BY <1>1, <1>5, LocalImplements
  <2>2. QED BY <1>2, <1>3, <2>1 DEF Abstract!CallOf
<1>6. QED BY <1>4, <1>5 DEF Invoke

LEMMA CallImplements ==
  ASSUME ValInv, CtxInv, TypingInv, TypedCtx, Held, Call PROVE (Abstract!CallStep \/ Abstract!Trapping) /\ Held'
<1>1. status = "running" /\ instr.op = "call" BY DEF Call, Running, instr
<1>2. PICK g, f, T, N, p, n, base, a, L, B, v : Place(g, f, T, N, p, n, base, a, L, B, v)
  BY <1>1, PlaceHere
<1>3. PICK j, k, t : j = instr.func /\ k = functions[j].params /\ t = T[p] OBVIOUS
<1>4. Callee(j, k)
  <2>1. j \in DOMAIN functions BY <1>3, CallTarget DEF Call
  <2>2. QED BY <1>3, <2>1 DEF Callee
<1>5. k \in Nat /\ j \in DOMAIN Program BY <1>4, CalleeSeen
<1>6. /\ Checks(t, T[p + 1], instr, Signatures) /\ ~InnerCtrl(t).dead
      /\ Seen(f, p, L, B, n, v)
  BY <1>2, <1>3 DEF Place, Standing
<1>7. k <= t.h - InnerCtrl(t).height
  <2>1. Moves(t, T[p + 1], Signatures[j].params, Signatures[j].results)
    BY <1>1, <1>3, <1>6 DEF Checks
  <2>2. Signatures[j].params = k BY <1>3, <1>4 DEF Callee, Signatures
  <2>3. QED BY <1>6, <2>1, <2>2 DEF Moves
<1>8. k <= sp - a
  <2>1. k <= T[p].h - InnerCtrl(T[p]).height BY <1>3, <1>7
  <2>2. QED BY <1>2, <1>5, <2>1, RoomAbove
<1>9. Leaving(stack, a, v, k) BY <1>2, <1>5, <1>8, StackLeaves
<1>10. PICK x : x = "kErrorExecuteTrapStackOverflow" OBVIOUS
<1>11. x \notin {"idle", "running", "yielded", "returned"} BY <1>10
<1>12. Invoke(stack, j, x) BY <1>3, <1>10 DEF Call
<1>13. (Abstract!CallOf(v, j) \/ Abstract!Trapping) /\ Held'
  BY <1>1, <1>2, <1>4, <1>9, <1>11, <1>12, InvokeImplements
<1>14. Abstract!vals = v /\ Abstract!ins = instr /\ Abstract!Executing({"call"})
  BY <1>1, <1>6, SeesOperands
<1>15. QED BY <1>3, <1>5, <1>13, <1>14 DEF Abstract!CallStep

LEMMA CallIndirectImplements ==
  ASSUME ValInv, CtxInv, TypingInv, TypedCtx, Held, CallIndirect PROVE (Abstract!CallStep \/ Abstract!Trapping) /\ Held'
<1>1. status = "running" /\ instr.op = "call_indirect" BY DEF CallIndirect, Running, instr
<1>2. PICK g, f, T, N, p, n, base, a, L, B, v : Place(g, f, T, N, p, n, base, a, L, B, v)
  BY <1>1, PlaceHere
<1>3. PICK k, b, s, w, u, t : /\ k = instr.params /\ b = instr.results /\ s = Below(stack, 1)
                              /\ w = Abstract!Keep(v, 1) /\ u = k + 1 /\ t = T[p]
  OBVIOUS
<1>4. /\ instr \in Instructions /\ Checks(t, T[p + 1], instr, Signatures)
      /\ ~InnerCtrl(t).dead /\ Seen(f, p, L, B, n, v)
  BY <1>2, <1>3 DEF Place, Standing
<1>5. k \in Nat /\ u \in Nat
  <2>1. k \in Nat BY <1>1, <1>3, <1>4, InstructionTypes
  <2>2. QED BY <1>3, <2>1
<1>6. Moves(t, T[p + 1], u, b) BY <1>1, <1>3, <1>4 DEF Checks
<1>7. u <= Len(v) /\ u <= sp - a /\ 1 <= Len(v) /\ sp \in Nat
  <2>1. u <= T[p].h - InnerCtrl(T[p]).height BY <1>3, <1>4, <1>6 DEF Moves
  <2>2. u <= Len(v) /\ u <= sp - a /\ sp \in Nat BY <1>2, <1>5, <2>1, RoomAbove
  <2>3. v \in Seq(Nat) BY <1>2 DEF Place
  <2>4. QED BY <1>3, <1>5, <2>2, <2>3
<1>8. PoppedTo(s, a, v, w) BY <1>2, <1>3, <1>7, PoppedOne
<1>9. Leaving(s, a, w, k) BY <1>3, <1>5, <1>7, <1>8, PoppedLeaves
<1>10. PICK elem : elem = stack[sp] + 1 OBVIOUS
<1>11. /\ Abstract!vals = v /\ Abstract!ins = instr /\ Abstract!Executing({"call_indirect"})
       /\ Abstract!Has(1) /\ v[Len(v)] + 1 = elem
  <2>1. v[Len(v)] = stack[sp] BY <1>8 DEF PoppedTo
  <2>2. QED BY <1>1, <1>4, <1>7, <1>10, <2>1, SeesOperands
<1>12. ASSUME NEW r, r \notin {"idle", "running", "yielded", "returned"}, Trap(r),
              UNCHANGED valVars
       PROVE  Abstract!Trapping /\ Held'
  <2>1. status' \notin {"idle", "running", "yielded", "returned"} BY <1>12 DEF Trap
  <2>2. QED BY <1>1, <1>12, <2>1, Traps
<1>13. ASSUME NEW j, elem \in DOMAIN table, j = table[elem], j # 0,
              functions[j].params = k, functions[j].results = b,
              NEW x, x = "kErrorExecuteTrapCallStackOverflow", Invoke(s, j, x)
       PROVE  (Abstract!CallStep \/ Abstract!Trapping) /\ Held'
  <2>1. j \in DOMAIN functions
    <3>1. functions \in Seq(Functions) BY DEF ValInv, ValidatorTypeOK
    <3>2. table[elem] \in 0..Len(functions) BY <1>13 DEF ValInv, Progress
    <3>3. QED BY <1>13, <3>1, <3>2
  <2>2. Callee(j, k) BY <1>13, <2>1 DEF Callee
  <2>3. j \in DOMAIN Program /\ Program[j].params = k /\ Program[j].results = b
    BY <1>13, <2>2, CalleeSeen
  <2>4. x \notin {"idle", "running", "yielded", "returned"} BY <1>13
  <2>5. (Abstract!CallOf(w, j) \/ Abstract!Trapping) /\ Held'
    BY <1>1, <1>2, <1>9, <1>13, <2>2, <2>4, InvokeImplements
  <2>6. QED BY <1>3, <1>11, <1>13, <2>3, <2>5 DEF Abstract!CallStep
<1>14. \/ \E r : /\ r \notin {"idle", "running", "yielded", "returned"} /\ Trap(r)
                 /\ UNCHANGED valVars
       \/ /\ elem \in DOMAIN table /\ table[elem] # 0 /\ functions[table[elem]].params = k
          /\ functions[table[elem]].results = b
          /\ Invoke(s, table[elem], "kErrorExecuteTrapCallStackOverflow")
  BY <1>3, <1>10 DEF CallIndirect
<1>15. QED BY <1>12, <1>13, <1>14

-----------------------------------------------------------------------------
(* A suspended call of the host *)

\* The frame on top waits for the host with the stack up to e.
Paused(d, g, base, n, e) ==
  /\ d = Len(call_stack) /\ d \in Nat /\ d > 0 /\ g = frame /\ g = call_stack[d]
  /\ g.func \in DOMAIN functions /\ g.locals \in Nat /\ g.locals <= base /\ base <= e
  /\ base = Base(functions, g) /\ e = Len(stack) /\ stack \in Seq(Nat)
  /\ n = g.label_stack_top /\ Cut(g.labels, base, n, e)
  /\ g.ip \in 1..Len(functions[g.func].code)

LEMMA PausedHere ==
  ASSUME ValInv, CtxInv, TypingInv, TypedCtx, Held, status = "yielded"
  PROVE  \E d, g, base, n, e : Paused(d, g, base, n, e)
<1>1. PICK d, g, e, x : /\ d = Len(call_stack) /\ g = frame /\ e = Len(stack)
                        /\ x = e + Awaited(functions, g)
  OBVIOUS
<1>2. /\ d \in Nat /\ d > 0 /\ g = call_stack[d] /\ g.func \in Locals
      /\ phase = "done" /\ verdict = "kOk" /\ Roomy(functions, g, d)
      /\ Suspended(functions, g, e)
  BY <1>1, YieldedFrame
<1>3. PICK f, base, n, p, T, N, y : /\ f = g.func /\ base = Base(functions, g)
                                    /\ n = g.label_stack_top /\ p = g.ip
                                    /\ T = Typing(f) /\ N = Len(functions[f].code)
                                    /\ y = x - base
  OBVIOUS
<1>4. /\ Placed(functions, g, p, n, y) /\ base <= e /\ p \in 1..N
  BY <1>1, <1>2, <1>3 DEF Suspended, OnTop
<1>5. Seated(T, N, base, g.labels, p, n, y) BY <1>3, <1>4, TypingHere DEF Placed
<1>6. n \in Nat /\ n > 0 /\ base \in Nat /\ g.locals <= base
  <2>1. Seated(Typing(g.func), Len(functions[g.func].code), Base(functions, g),
               g.labels, p, n, y)
    BY <1>3, <1>5
  <2>2. /\ n \in Nat /\ n > 0 /\ Base(functions, g) \in Nat
        /\ g.locals <= Base(functions, g)
    BY <1>2, <2>1, SeatedFits
  <2>3. QED BY <1>3, <2>2
<1>7. Body(f) /\ f \in DOMAIN functions BY <1>2, <1>3, ExecutedBody
<1>8. Formed(T[p], functions[f].results) BY <1>3, <1>5, <1>7 DEF Seated, Body
<1>9. \A j \in 2..n : g.labels[j].stack_top <= e
  <2>1. Within(call_stack[Len(call_stack)], Len(stack)) BY DEF Held
  <2>2. QED BY <1>1, <1>2, <1>3, <2>1 DEF Within
<1>10. stack \in Seq(Nat) /\ e \in Nat /\ g.locals \in Nat
  BY <1>1, <1>2 DEF TypedCtx, Roomy
<1>11. Cuttable(T, N, base, g.labels, p, n, y, functions[f].results, e)
  BY <1>4, <1>5, <1>6, <1>8, <1>9, <1>10 DEF Cuttable
<1>12. Cut(g.labels, base, n, e) BY ONLY <1>11, SeatedCut
<1>13. Paused(d, g, base, n, e)
  BY <1>1, <1>2, <1>3, <1>4, <1>6, <1>7, <1>10, <1>12 DEF Paused
<1>14. QED BY <1>13

\* What the abstract machine sees of it.
LEMMA PausedView ==
  ASSUME ValInv, CtxInv, TypingInv, TypedCtx, Held, status = "yielded",
         NEW d, NEW g, NEW base, NEW n, NEW e, Paused(d, g, base, n, e)
  PROVE  /\ FramesAre(Activations, d) /\ Activations[d] = View(g, base, stack, g.ip, n, e)
         /\ \A k \in 1..d : Activations[k] = ViewAt(k)
         /\ Abstract!depth = d /\ Abstract!cur = View(g, base, stack, g.ip, n, e)
         /\ Abstract!nest = n /\ Abstract!code = functions[g.func].code
         /\ Abstract!cur.pc = g.ip
<1>1. /\ d = Len(call_stack) /\ d \in Nat /\ d > 0 /\ g = call_stack[d]
      /\ base = Base(functions, g) /\ e = Len(stack) /\ n = g.label_stack_top
      /\ g.func \in DOMAIN functions /\ Cut(g.labels, base, n, e)
  BY DEF Paused
<1>2. Active BY DEF Active
<1>3. PICK F : F = Activations OBVIOUS
<1>4. FramesAre(F, d) /\ \A k \in 1..d : F[k] = ViewAt(k) BY <1>1, <1>2, <1>3, FramesNow
<1>5. F[d] = View(g, base, stack, g.ip, n, e)
  <2>1. d \in 1..d BY <1>1
  <2>2. OperandBase(d) = base BY <1>1 DEF OperandBase, Base
  <2>3. IpOf(d) = g.ip /\ LabelTopOf(d) = n /\ OperandEnd(d) = e
    BY <1>1 DEF IpOf, LabelTopOf, OperandEnd, top, sp
  <2>4. QED BY <1>1, <1>4, <2>1, <2>2, <2>3 DEF ViewAt
<1>6. Abstract!depth = d /\ Abstract!cur = View(g, base, stack, g.ip, n, e)
  <2>1. Len(F) = d BY <1>4 DEF FramesAre
  <2>2. QED BY <1>3, <1>5, <2>1 DEF Abstract!depth, Abstract!cur
<1>7. PICK s, q, ls, B : /\ s = stack /\ q = g.ip /\ ls = g.labels
                         /\ B = Blocks(ls, base, s, n, e)
  OBVIOUS
<1>8. Len(B) = n
  <2>1. n \in Nat BY <1>1 DEF Cut
  <2>2. BlocksAre(Blocks(ls, base, s, n, e), ls, base, s, n, e) BY <2>1, BlocksFacts
  <2>3. BlocksAre(B, ls, base, s, n, e) BY <1>7, <2>2
  <2>4. QED BY <2>3 DEF BlocksAre
<1>9. /\ Abstract!cur.func = g.func /\ Abstract!cur.pc = q /\ Abstract!cur.blocks = B
  <2>1. /\ View(g, base, s, q, n, e).func = g.func /\ View(g, base, s, q, n, e).pc = q
        /\ View(g, base, s, q, n, e).blocks = Blocks(g.labels, base, s, n, e)
    BY ONLY DEF View
  <2>2. QED BY <1>6, <1>7, <2>1
<1>10. Abstract!nest = n BY <1>8, <1>9 DEF Abstract!nest
<1>11. Abstract!code = functions[g.func].code
  <2>1. Program[g.func].code = functions[g.func].code BY <1>1, ProgramFacts
  <2>2. QED BY <1>9, <2>1 DEF Abstract!code
<1>12. QED BY <1>3, <1>4, <1>5, <1>6, <1>7, <1>9, <1>10, <1>11

\* The results of the host go on top of the stack.
Delivered(d, e, r) ==
  /\ stack' \in Seq(Nat) /\ e <= Len(stack') /\ r = Slice(stack', e, Len(stack'))
  /\ \A i \in 1..e : stack'[i] = stack[i]
  /\ status' = "running" /\ UNCHANGED <<valVars, call_stack>>
  /\ regs' = [ip |-> call_stack[d].ip, label_top |-> call_stack[d].label_stack_top]

LEMMA GoesOnWith ==
  ASSUME ValInv, CtxInv, TypingInv, TypedCtx, Held, status = "yielded",
         NEW d, NEW g, NEW base, NEW n, NEW e, Paused(d, g, base, n, e),
         NEW r, Delivered(d, e, r)
  PROVE  /\ Activations' = [Activations EXCEPT ![d].blocks[n].vals = @ \o r]
         /\ Held'
<1>1. /\ d = Len(call_stack) /\ d \in Nat /\ d > 0 /\ g = call_stack[d] /\ g = frame
      /\ g.locals \in Nat /\ g.locals <= base /\ base <= e /\ base = Base(functions, g)
      /\ e = Len(stack) /\ stack \in Seq(Nat) /\ n = g.label_stack_top
      /\ Cut(g.labels, base, n, e)
  BY DEF Paused
<1>2. /\ stack' \in Seq(Nat) /\ e <= Len(stack') /\ r = Slice(stack', e, Len(stack'))
      /\ \A i \in 1..e : stack'[i] = stack[i]
      /\ status' = "running" /\ UNCHANGED <<valVars, call_stack>>
      /\ regs' = [ip |-> call_stack[d].ip, label_top |-> call_stack[d].label_stack_top]
  BY DEF Delivered
<1>3. Active /\ Active' BY <1>2 DEF Active
<1>4. PICK s, t, q, b, l : /\ s = stack /\ t = stack' /\ q = g.ip /\ b = Len(t)
                           /\ l = g.locals
  OBVIOUS
<1>5. NextTop(g, g, q, n, b, d)
  <2>1. IpOf(d)' = q /\ LabelTopOf(d)' = n /\ OperandEnd(d)' = b
    BY <1>1, <1>2, <1>4 DEF IpOf, LabelTopOf, OperandEnd, top, sp
  <2>2. d <= Len(call_stack') /\ Len(call_stack') \in Nat BY <1>1, <1>2
  <2>3. QED BY <1>1, <1>2, <1>3, <2>1, <2>2 DEF NextTop
<1>6. StackKept(l) /\ l <= Len(stack)
  <2>1. l <= e /\ l \in Nat /\ e \in Nat /\ base \in Nat BY <1>1, <1>4 DEF Cut
  <2>2. \A i \in 1..l : i \in 1..e BY ONLY <2>1
  <2>3. l <= Len(t) BY <1>2, <1>4, <2>1
  <2>4. QED BY <1>1, <1>2, <1>4, <2>1, <2>2, <2>3 DEF StackKept
<1>7. PICK V : V = Act(g.func, q, SubSeq(stack', g.locals + 1, base),
                       Blocks(g.labels, base, stack', n, b))
  OBVIOUS
<1>8. FramesBelow(d, V) BY <1>1, <1>3, <1>4, <1>5, <1>6, <1>7, NextFrames
<1>9. PICK F, G : F = Activations /\ G = Activations' OBVIOUS
<1>10. FramesAre(F, d) /\ F[d] = View(g, base, stack, g.ip, n, e) BY <1>9, PausedView
<1>11. /\ FramesAre(G, d) /\ G[d] = V /\ \A k \in 1..d : k # d => G[k] = F[k]
  BY <1>1, <1>2, <1>8, <1>9 DEF FramesBelow
<1>12. V = Grown(F[d], n, r)
  <2>1. Receives(g, base, n, e, s, t, r)
    <3>1. e <= Len(s) BY <1>1, <1>4
    <3>2. QED BY <1>1, <1>2, <1>4, <3>1 DEF Receives
  <2>2. View(g, base, t, q, n, b) = Grown(View(g, base, s, q, n, e), n, r)
    BY ONLY <1>4, <2>1, GrownView
  <2>3. View(g, base, stack', q, n, b) = V BY <1>7, ViewIs
  <2>4. QED BY <1>4, <1>10, <2>2, <2>3
<1>13. G = [F EXCEPT ![d] = Grown(F[d], n, r)]
  <2>1. d \in 1..d BY <1>1
  <2>2. PICK X : X = Grown(F[d], n, r) OBVIOUS
  <2>3. /\ F = [k \in 1..d |-> F[k]] /\ G = [k \in 1..d |-> G[k]] /\ G[d] = X
        /\ \A k \in 1..d : k # d => G[k] = F[k]
    BY <1>10, <1>11, <1>12, <2>2 DEF FramesAre
  <2>4. G = [F EXCEPT ![d] = X] BY ONLY <2>1, <2>3, PutAt
  <2>5. QED BY <2>2, <2>4
<1>14. [F EXCEPT ![d].blocks[n].vals = @ \o r] = [F EXCEPT ![d] = Grown(F[d], n, r)]
  BY DEF Grown
<1>15. Held'
  <2>1. \A k \in 1..(d - 1) : Within(call_stack[k], call_stack[k + 1].locals)
    BY <1>1, <1>3 DEF Held
  <2>2. \A k \in 1..(Len(call_stack') - 1) : Within(call_stack'[k], call_stack'[k + 1].locals)
    BY <1>1, <1>2, <2>1
  <2>3. QED BY <1>2, <2>2 DEF Held
<1>16. QED BY <1>9, <1>13, <1>14, <1>15

LEMMA ResumeImplements == ASSUME ValInv, CtxInv, TypingInv, TypedCtx, Held, Resume PROVE Abstract!Wake /\ Held'
<1>1. status = "yielded" BY DEF Resume
<1>2. PICK d, g, base, n, e : Paused(d, g, base, n, e) BY <1>1, PausedHere
<1>3. /\ d = Len(call_stack) /\ g = frame /\ g = call_stack[d] /\ d \in Nat /\ d > 0
      /\ g.func \in DOMAIN functions /\ e = Len(stack) /\ stack \in Seq(Nat)
      /\ g.ip \in 1..Len(functions[g.func].code)
  BY <1>2 DEF Paused
<1>4. PICK i, a : /\ i = functions[g.func].code[g.ip]
                  /\ a = (IF i.op = "call" THEN functions[i.func].results ELSE i.results)
  OBVIOUS
<1>5. a \in Nat
  <2>1. Awaited(functions, g) \in Nat BY <1>1, <1>3, YieldedFits
  <2>2. QED BY <1>4, <2>1 DEF Awaited
<1>6. PICK r : r \in Tuples(a) /\ stack' = stack \o r
  <2>1. Pending = a BY <1>3, <1>4 DEF Pending, body
  <2>2. QED BY <2>1 DEF Resume
<1>7. r \in Seq(Nat) BY <1>5, <1>6, TuplesNat
<1>8. PICK s, t : s = stack /\ t = stack' OBVIOUS
<1>9. /\ t \in Seq(Nat) /\ e <= Len(t) /\ \A k \in 1..e : t[k] = s[k]
      /\ Slice(t, e, Len(t)) = r
  <2>1. PICK m : m = Len(r) OBVIOUS
  <2>2. /\ s \o r \in Seq(Nat) /\ Len(s \o r) = e + m
        /\ \A k \in 1..e : (s \o r)[k] = s[k]
    <3>1. s \in Seq(Nat) /\ e = Len(s) BY <1>3, <1>8
    <3>2. QED BY ONLY <1>7, <2>1, <3>1, ConcatElems
  <2>3. t = s \o r BY <1>6, <1>8
  <2>4. /\ s \in Seq(Nat) /\ e \in Nat /\ e = Len(s) /\ m \in Nat /\ e <= Len(s)
    BY <1>3, <1>7, <1>8, <2>1
  <2>5. SubSeq(s \o r, e + 1, Len(s) + Len(r)) = SubSeq(s, e + 1, Len(s)) \o r
    BY ONLY <1>7, <2>4, SlicePush
  <2>6. SubSeq(s, e + 1, Len(s)) = << >>
    <3>1. NoneBefore(s, e) BY ONLY <2>4, EmptySlice
    <3>2. QED BY <2>4, <3>1 DEF NoneBefore, Slice
  <2>7. << >> \o r = r BY ONLY <1>7, EmptyBefore
  <2>8. Len(t) = Len(s) + Len(r) BY <2>1, <2>2, <2>3, <2>4
  <2>9. Slice(t, e, Len(t)) = r BY <2>3, <2>5, <2>6, <2>7, <2>8 DEF Slice
  <2>10. e <= Len(t) BY <2>2, <2>3, <2>4
  <2>11. QED BY <2>2, <2>3, <2>9, <2>10
<1>10. Delivered(d, e, r)
  <2>1. /\ status' = "running" /\ UNCHANGED <<valVars, call_stack>>
        /\ regs' = [ip |-> call_stack[d].ip, label_top |-> call_stack[d].label_stack_top]
    BY <1>3 DEF Resume, Continue
  <2>2. QED BY <1>8, <1>9, <2>1 DEF Delivered
<1>11. /\ Activations' = [Activations EXCEPT ![d].blocks[n].vals = @ \o r]
       /\ Held'
  BY <1>1, <1>2, <1>10, GoesOnWith
<1>12. /\ Abstract!depth = d /\ Abstract!nest = n /\ Abstract!code = functions[g.func].code
       /\ Abstract!cur.pc = g.ip
  BY <1>1, <1>2, PausedView
<1>13. Abstract!code[Abstract!cur.pc] = i BY <1>4, <1>12
<1>14. a = IF i.op = "call" THEN Program[i.func].results ELSE i.results
  <2>1. CASE i.op = "call"
    <3>1. i.func \in DOMAIN functions
      <4>1. /\ phase = "done" /\ verdict = "kOk" /\ g.func \in Locals
        BY <1>1, <1>3, YieldedFrame
      <4>2. /\ functions[g.func].kind = "local" /\ func_idx = Len(functions) + 1
            /\ functions \in Seq(Functions)
        BY <4>1 DEF Locals, ValInv, Progress, ValidatorTypeOK
      <4>3. Scanned(g.func) = Len(functions[g.func].code) BY <1>3, <4>2 DEF Scanned
      <4>4. InRange(g.func, i) BY <1>3, <1>4, <4>3 DEF ValInv, IndicesChecked
      <4>5. QED BY <2>1, <4>4 DEF InRange
    <3>2. Program[i.func].results = functions[i.func].results BY <3>1, ProgramFacts
    <3>3. QED BY <1>4, <2>1, <3>2
  <2>2. CASE i.op # "call" BY <1>4, <2>2
  <2>3. QED BY <2>1, <2>2
<1>15. Mode = "waiting" /\ Mode' = "running" /\ Returned' = Returned
  BY <1>1, <1>10 DEF Mode, Returned, Delivered
<1>16. Program' = Program
  <2>1. UNCHANGED functions BY DEF Resume, valVars
  <2>2. QED BY <2>1, ProgramStays
<1>17. r \in Abstract!Tuples(a) BY <1>6 DEF Tuples, Abstract!Tuples
<1>18. Abstract!Put([Abstract!cur EXCEPT !.blocks[Abstract!nest].vals = @ \o r])
  <2>1. PICK F, G : F = Activations /\ G = Activations' OBVIOUS
  <2>2. G = [F EXCEPT ![d].blocks[n].vals = @ \o r] BY <1>11, <2>1
  <2>3. Abstract!cur = F[d] BY <1>12, <2>1 DEF Abstract!cur
  <2>4. G = [F EXCEPT ![d] = [F[d] EXCEPT !.blocks[n].vals = @ \o r]] BY ONLY <2>2
  <2>5. QED BY <1>12, <2>1, <2>3, <2>4 DEF Abstract!Put
<1>19. QED BY <1>11, <1>13, <1>14, <1>15, <1>16, <1>17, <1>18 DEF Abstract!Wake

-----------------------------------------------------------------------------
(* Every step, and the refinement *)

\* A step in which the frames are where they were.
LEMMA NothingMoves ==
  ASSUME Held, UNCHANGED vars
  PROVE  UNCHANGED AbstractVars /\ Held'
<1>1. UNCHANGED <<functions, call_stack, stack, regs, status>>
  BY DEF vars, valVars, ctxVars
<1>2. Program' = Program BY <1>1, ProgramStays
<1>3. Active' = Active /\ Mode' = Mode /\ Returned' = Returned
  BY <1>1 DEF Active, Mode, Returned
<1>4. Activations' = Activations
  BY <1>1, <1>3 DEF Activations, Frames, top, sp, OperandBase, OperandEnd, IpOf, LabelTopOf
<1>5. Held' BY <1>1 DEF Held, Active
<1>6. QED BY <1>2, <1>3, <1>4, <1>5 DEF AbstractVars

LEMMA StepImplements ==
  ASSUME Features = {}, ValInv, CtxInv, TypingInv, TypedCtx, Held, [Next]_vars
  PROVE  (Abstract!Next \/ UNCHANGED AbstractVars) /\ Held'
<1>1. CASE ValidatorNext /\ UNCHANGED ctxVars BY <1>1, ValidatorStutters
<1>2. CASE \E f \in DOMAIN functions :
             \E args \in Tuples(functions[f].params) : Execute(f, args)
  <2>1. PICK f \in DOMAIN functions :
          \E args \in Tuples(functions[f].params) : Execute(f, args)
    BY <1>2
  <2>2. PICK args \in Tuples(functions[f].params) : Execute(f, args) BY <2>1
  <2>3. QED BY <2>2, ExecuteImplements
<1>3. CASE Operand BY <1>3, OperandImplements DEF Abstract!Next
<1>4. CASE Unreachable BY <1>4, UnreachableImplements DEF Abstract!Next
<1>5. CASE Block BY <1>5, BlockImplements DEF Abstract!Next
<1>6. CASE If BY <1>6, IfImplements DEF Abstract!Next
<1>7. CASE Else BY <1>7, ElseImplements DEF Abstract!Next
<1>8. CASE Br BY <1>8, BrImplements DEF Abstract!Next
<1>9. CASE BrIf BY <1>9, BrIfImplements DEF Abstract!Next
<1>10. CASE BrTable BY <1>10, BrTableImplements DEF Abstract!Next
<1>11. CASE End BY <1>11, EndImplements DEF Abstract!Next
<1>12. CASE Return BY <1>12, ReturnImplements DEF Abstract!Next
<1>13. CASE Call BY <1>13, CallImplements DEF Abstract!Next
<1>14. CASE CallIndirect BY <1>14, CallIndirectImplements DEF Abstract!Next
<1>15. CASE Resume BY <1>15, ResumeImplements DEF Abstract!Next
<1>16. CASE UNCHANGED vars BY <1>16, NothingMoves
<1>17. CASE Done BY <1>16, <1>17 DEF Done
<1>18. QED
  BY <1>1, <1>2, <1>3, <1>4, <1>5, <1>6, <1>7, <1>8, <1>9, <1>10, <1>11, <1>12, <1>13,
     <1>14, <1>15, <1>16, <1>17 DEF Next

LEMMA InitImplements == ASSUME InterpreterInit PROVE Abstract!Init /\ Held
<1>1. status = "idle" BY DEF InterpreterInit
<1>2. ~Active BY <1>1 DEF Active
<1>3. Mode = "idle" /\ Activations = << >> /\ Returned = << >>
  BY <1>1, <1>2 DEF Mode, Activations, Returned
<1>4. Held BY <1>1, <1>2 DEF Held
<1>5. QED BY <1>3, <1>4 DEF Abstract!Init

\* For a module that WebAssembly calls valid, and a stack with room for the
\* first frame, every run of RunLoop on its one stack, its label pool and the
\* jump tables of the validator is a run of the structured machine of
\* WebAssembly: the same results, of branches, blocks, calls and suspended
\* calls of the host alike.
THEOREM RefinesWebAssembly ==
  ASSUME Features = {}
  PROVE  Spec /\ ValidModule /\ FirstFrameFits => RunsWebAssembly
<1>1. InterpreterInit => Abstract!Init /\ Held BY InitImplements
<1>2. ValInv /\ CtxInv /\ TypingInv /\ TypedCtx /\ Held /\ [Next]_vars
        => [Abstract!Next]_<<Program, Activations, Mode, Returned>> /\ Held'
  BY StepImplements DEF AbstractVars
<1>3. QED
  BY <1>1, <1>2, InterpreterInvariant, TypedInvariant, PTL
  DEF Spec, RunsWebAssembly, Abstract!Spec
=============================================================================
