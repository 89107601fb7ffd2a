-------------------------- MODULE MemoryPoolProofs --------------------------
(* Proofs about MemoryPool.                                                *)
EXTENDS MemoryPool, LinkedListLemmas, TLAPS

(* The list links exactly the members of S, each once. *)
Links(s, S) == NoDuplicates(s) /\ \A a : Linked(a, s) <=> a \in S

-----------------------------------------------------------------------------
(* The free list.                                                          *)

(* InsertFreeList of a block that is not linked. *)
LEMMA InsertLinks ==
  ASSUME NEW T, NEW s \in Seq(T), NEW a \in T, NEW S, Links(s, S), a \notin S
  PROVE  <<a>> \o s \in Seq(T) /\ Links(<<a>> \o s, S \cup {a})
<1> DEFINE r == <<a>> \o s
<1>1. /\ r \in Seq(T) /\ Len(r) = Len(s) + 1 /\ Len(s) \in Nat
      /\ DOMAIN r = 1 .. Len(s) + 1 /\ DOMAIN s = 1 .. Len(s)
      /\ r[1] = a /\ \A i \in 1 .. Len(s) : r[i + 1] = s[i]
  OBVIOUS
<1>2. \A i \in 2 .. Len(s) + 1 : i - 1 \in 1 .. Len(s) /\ r[i] = s[i - 1]
  <2>1. TAKE i \in 2 .. Len(s) + 1
  <2>2. i - 1 \in 1 .. Len(s) /\ (i - 1) + 1 = i
    BY <1>1
  <2>3. QED BY <1>1, <2>2
<1> HIDE DEF r
<1>3. ASSUME NEW u, Linked(u, r) PROVE Linked(u, s) \/ u = a
  <2>1. PICK i \in 1 .. Len(s) + 1 : r[i] = u
    BY <1>1, <1>3 DEF Linked
  <2>2. CASE i = 1
    BY <1>1, <2>1, <2>2
  <2>3. CASE i \in 2 .. Len(s) + 1
    BY <1>1, <1>2, <2>1, <2>3 DEF Linked
  <2>4. QED BY <1>1, <2>1, <2>2, <2>3
<1>4. ASSUME NEW u, Linked(u, s) PROVE Linked(u, r)
  <2>1. PICK i \in 1 .. Len(s) : s[i] = u
    BY <1>1, <1>4 DEF Linked
  <2>2. i + 1 \in DOMAIN r /\ r[i + 1] = u
    BY <1>1, <2>1
  <2>3. QED BY <2>2 DEF Linked
<1>5. Linked(a, r)
  BY <1>1 DEF Linked
<1>6. NoDuplicates(r)
  <2>1. SUFFICES ASSUME NEW i \in DOMAIN r, NEW j \in DOMAIN r, r[i] = r[j]
                 PROVE  i = j
    BY DEF NoDuplicates
  <2>2. \A k \in 2 .. Len(s) + 1 : r[k] # a
    BY <1>1, <1>2 DEF Links, Linked
  <2>3. CASE i = 1 \/ j = 1
    BY <1>1, <2>1, <2>2, <2>3
  <2>4. CASE i # 1 /\ j # 1
    <3>1. /\ i - 1 \in DOMAIN s /\ j - 1 \in DOMAIN s
          /\ s[i - 1] = s[j - 1] /\ i \in Int /\ j \in Int
      BY <1>1, <1>2, <2>1, <2>4
    <3>2. i - 1 = j - 1
      BY <3>1 DEF Links, NoDuplicates
    <3>3. QED BY <3>1, <3>2
  <2>5. QED BY <2>3, <2>4
<1>7. QED BY <1>1, <1>3, <1>4, <1>5, <1>6 DEF Links, r

(* RemoveFreeList of a block that is linked. *)
LEMMA RemoveLinks ==
  ASSUME NEW T, NEW H, H.list \in Seq(T), NEW S, Links(H.list, S), NEW a \in S,
         H = [size |-> H.size, prev |-> H.prev, free |-> H.free, list |-> H.list]
  PROVE  /\ RemoveFreeList(H, a).list \in Seq(T)
         /\ Links(RemoveFreeList(H, a).list, S \ {a})
         /\ RemoveFreeList(H, a) =
              [size |-> H.size, prev |-> H.prev, free |-> H.free,
               list |-> RemoveFreeList(H, a).list]
<1> DEFINE s == H.list
           i == CHOOSE k \in DOMAIN s : s[k] = a
<1>1. Linked(a, s)
  BY DEF Links
<1>2. i \in DOMAIN s /\ s[i] = a
  BY <1>1 DEF Linked
<1>3. i \in 1 .. Len(s)
  BY <1>2
<1>4. RemoveFreeList(H, a) =
        [size |-> H.size, prev |-> H.prev, free |-> H.free, list |-> Unlink(s, i)]
  BY DEF RemoveFreeList
<1> HIDE DEF i, s
<1>5. s \in Seq(T) /\ NoDuplicates(s)
  BY DEF Links, s
<1>6. /\ Unlink(s, i) \in Seq(T) /\ NoDuplicates(Unlink(s, i))
      /\ \A u : Linked(u, Unlink(s, i)) <=> Linked(u, s) /\ u # a
  BY <1>2, <1>3, <1>5, UnlinkRemoves
<1>7. QED BY <1>4, <1>6 DEF Links, s

-----------------------------------------------------------------------------
(* The blocks of a heap.                                                   *)

Shape(H) ==
  /\ H = [size |-> H.size, prev |-> H.prev, free |-> H.free, list |-> H.list]
  /\ H.size \in [Blocks(H) -> Nat] /\ Blocks(H) \subseteq Nat
  /\ H.prev \in [Blocks(H) -> Blocks(H) \cup {Null}]
  /\ H.free \subseteq Blocks(H)
  /\ H.list \in Seq(Nat)

Sound(H) == Shape(H) /\ Tiled(H) /\ BackLinked(H)

(* The numbers the geometry is about. *)
Sizes == cap \in Nat /\ Header \in Nat \ {0} /\ Null = -1

(* A block's neighbours know each other. *)
LEMMA Neighbours ==
  ASSUME Sizes, NEW H, Sound(H), NEW a \in Blocks(H)
  PROVE  /\ a \in Nat /\ H.size[a] \in Nat /\ H.size[a] >= Header
         /\ \/ NextBlock(H, a) = Null /\ a + H.size[a] = cap
            \/ /\ NextBlock(H, a) = a + H.size[a] /\ a + H.size[a] < cap
               /\ NextBlock(H, a) \in Blocks(H)
               /\ H.prev[NextBlock(H, a)] = a
         /\ \/ a = 0 /\ H.prev[a] = Null
            \/ /\ H.prev[a] \in Blocks(H) /\ NextBlock(H, H.prev[a]) = a
               /\ H.prev[a] < a /\ H.prev[a] + H.size[H.prev[a]] = a
         /\ Null \notin Blocks(H)
<1>1. /\ a \in Nat /\ H.size[a] \in Nat /\ H.size[a] >= Header
      /\ Null \notin Blocks(H)
  BY DEF Sound, Shape, Tiled, Sizes
<1>0. /\ \A x \in Blocks(H) : x \in Nat /\ H.size[x] \in Nat /\ H.size[x] >= Header
      /\ \A x, y \in Blocks(H) : x < y => x + H.size[x] <= y
      /\ \A x \in Blocks(H) : x + H.size[x] = cap \/ x + H.size[x] < cap
      /\ cap \in Nat /\ Header \in Nat \ {0}
  BY DEF Sound, Shape, Tiled, Sizes
<1>2. ASSUME NEW b \in Blocks(H), NEW c \in Blocks(H), b + H.size[b] = c + H.size[c]
      PROVE  b = c
  <2>1. b \in Nat /\ c \in Nat /\ H.size[b] > 0 /\ H.size[c] > 0
        /\ H.size[b] \in Nat /\ H.size[c] \in Nat
    BY <1>0
  <2>2. ~ (b < c) /\ ~ (c < b)
    BY <1>0, <1>2, <2>1
  <2>3. QED BY <2>1, <2>2
<1>3. ASSUME NEW b \in Blocks(H), b # 0
      PROVE  H.prev[b] \in Blocks(H) /\ H.prev[b] + H.size[H.prev[b]] = b
  BY <1>3 DEF Sound, BackLinked
<1>4. ASSUME NEW b \in Blocks(H) PROVE b + H.size[b] > 0 /\ b + H.size[b] <= cap
  BY <1>0, <1>4
<1>5. \/ NextBlock(H, a) = Null /\ a + H.size[a] = cap
      \/ /\ NextBlock(H, a) = a + H.size[a] /\ a + H.size[a] < cap
         /\ NextBlock(H, a) \in Blocks(H)
         /\ H.prev[NextBlock(H, a)] = a
  <2>1. CASE a + H.size[a] = cap
    BY <1>1, <2>1 DEF NextBlock, Sizes
  <2>2. CASE a + H.size[a] < cap
    <3> DEFINE n == a + H.size[a]
    <3>1. n \in Blocks(H) /\ n # 0 /\ NextBlock(H, a) = n
      BY <1>1, <1>4, <2>2 DEF Sound, Tiled, NextBlock, Sizes
    <3> HIDE DEF n
    <3>2. H.prev[n] \in Blocks(H) /\ H.prev[n] + H.size[H.prev[n]] = n
      BY <1>3, <3>1
    <3>3. H.prev[n] = a
      BY <1>2, <3>2 DEF n
    <3>4. QED BY <2>2, <3>1, <3>3 DEF n
  <2>3. QED BY <1>1, <1>4, <2>1, <2>2 DEF Sizes
<1>6. \/ a = 0 /\ H.prev[a] = Null
      \/ /\ H.prev[a] \in Blocks(H) /\ NextBlock(H, H.prev[a]) = a
         /\ H.prev[a] < a /\ H.prev[a] + H.size[H.prev[a]] = a
  <2>1. CASE a = 0
    BY <2>1 DEF Sound, BackLinked
  <2>2. CASE a # 0
    <3> DEFINE b == H.prev[a]
    <3>1. b \in Blocks(H) /\ b + H.size[b] = a
      BY <1>3, <2>2
    <3> HIDE DEF b
    <3>2. b \in Nat /\ H.size[b] \in Nat /\ H.size[b] >= Header
      BY <3>1 DEF Sound, Shape, Tiled, Sizes
    <3>3. a < cap
      BY <1>1, <1>4 DEF Sizes
    <3>4. NextBlock(H, b) = a /\ b < a
      BY <1>1, <3>1, <3>2, <3>3 DEF NextBlock, Sizes
    <3>5. QED BY <3>1, <3>4 DEF b
  <2>3. QED BY <2>1, <2>2
<1>7. QED BY <1>1, <1>5, <1>6

(* Cutting a block in two leaves a sound heap with one more block. *)
LEMMA DivideSound ==
  ASSUME Sizes, NEW H, Sound(H), NEW h \in Blocks(H), NEW k \in Nat,
         k >= Header, H.size[h] - k >= Header
  PROVE  /\ Sound(Divide(H, h, k))
         /\ Blocks(Divide(H, h, k)) = Blocks(H) \cup {h + k}
         /\ h + k \notin Blocks(H)
         /\ Divide(H, h, k).size =
              [a \in Blocks(H) \cup {h + k} |->
                 IF a = h THEN k
                 ELSE IF a = h + k THEN H.size[h] - k ELSE H.size[a]]
         /\ Divide(H, h, k).free = H.free \cup {h + k}
         /\ Divide(H, h, k).list = H.list
<1> DEFINE new == h + k
           D == Divide(H, h, k)
<1>1. /\ D = [size |-> D.size, prev |-> D.prev, free |-> D.free, list |-> D.list]
      /\ D.size = [a \in Blocks(H) \cup {new} |->
                     IF a = h THEN k
                     ELSE IF a = new THEN H.size[h] - k ELSE H.size[a]]
      /\ D.prev = [a \in Blocks(H) \cup {new} |->
                     IF a = new THEN h
                     ELSE IF a = NextBlock(H, h) THEN new ELSE H.prev[a]]
      /\ D.free = H.free \cup {new} /\ D.list = H.list
  BY DEF Divide
<1>2. Blocks(D) = Blocks(H) \cup {new}
  BY <1>1 DEF Blocks
<1>3. /\ h \in Nat /\ H.size[h] \in Nat
      /\ \/ NextBlock(H, h) = Null /\ h + H.size[h] = cap
         \/ /\ NextBlock(H, h) = h + H.size[h] /\ h + H.size[h] < cap
            /\ NextBlock(H, h) \in Blocks(H)
      /\ Null \notin Blocks(H)
  BY Neighbours
<1>4. /\ new \in Nat /\ h < new /\ new + (H.size[h] - k) = h + H.size[h]
      /\ new < h + H.size[h] /\ new # h /\ H.size[h] - k \in Nat
      /\ new + Header <= h + H.size[h] /\ new < cap
  BY <1>3 DEF Sizes
<1>5. /\ \A a \in Blocks(H) : a \in Nat /\ H.size[a] \in Nat /\ H.size[a] >= Header
      /\ \A a, b \in Blocks(H) : a < b => a + H.size[a] <= b
  BY DEF Sound, Shape, Tiled, Sizes
<1>6. new \notin Blocks(H)
  BY <1>3, <1>4, <1>5
<1>7. /\ D.size[h] = k /\ D.size[new] = H.size[h] - k
      /\ \A a \in Blocks(H) \ {h} : D.size[a] = H.size[a]
      /\ D.prev[new] = h
      /\ \A a \in Blocks(H) : D.prev[a] = IF a = NextBlock(H, h) THEN new ELSE H.prev[a]
  BY <1>1, <1>4, <1>6
<1> HIDE DEF D, new
<1>8. Shape(D)
  <2>1. D.size \in [Blocks(D) -> Nat]
    BY <1>1, <1>2, <1>4, <1>5
  <2>2. D.prev \in [Blocks(D) -> Blocks(D) \cup {Null}]
    BY <1>1, <1>2, <1>4 DEF Sound, Shape
  <2>3. QED BY <1>1, <1>2, <1>4, <2>1, <2>2 DEF Sound, Shape
<1>9. Tiled(D)
  <2>1. 0 \in Blocks(D)
    BY <1>2 DEF Sound, Tiled
  <2>2. ASSUME NEW a \in Blocks(D)
        PROVE  /\ D.size[a] >= Header
               /\ \/ a + D.size[a] = cap
                  \/ (a + D.size[a] < cap /\ a + D.size[a] \in Blocks(D))
    <3>1. CASE a = h
      BY <1>2, <1>4, <1>7, <3>1 DEF new
    <3>2. CASE a = new
      BY <1>2, <1>3, <1>4, <1>7, <3>2
    <3>3. CASE a \in Blocks(H) \ {h}
      BY <1>2, <1>7, <3>3 DEF Sound, Tiled
    <3>4. QED BY <1>2, <3>1, <3>2, <3>3
  <2>3. ASSUME NEW a \in Blocks(D), NEW b \in Blocks(D), a < b
        PROVE  a + D.size[a] <= b
    <3>1. CASE a = h
      BY <1>2, <1>3, <1>4, <1>5, <1>7, <2>3, <3>1 DEF new
    <3>2. CASE a = new
      <4>1. b \in Blocks(H) /\ h < b
        BY <1>2, <1>3, <1>4, <1>5, <2>3, <3>2
      <4>2. QED BY <1>4, <1>5, <1>7, <3>2, <4>1
    <3>3. CASE a \in Blocks(H) \ {h} /\ b = new
      <4>1. a < h
        <5>1. a \in Nat /\ a # h /\ a < new
          BY <1>5, <2>3, <3>3
        <5>2. ~ (h < a)
          BY <1>3, <1>4, <1>5, <3>3, <5>1
        <5>3. QED BY <1>3, <5>1, <5>2
      <4>2. QED BY <1>3, <1>4, <1>5, <1>7, <3>3, <4>1
    <3>4. CASE a \in Blocks(H) \ {h} /\ b \in Blocks(H)
      BY <1>5, <1>7, <2>3, <3>4
    <3>5. QED BY <1>2, <3>1, <3>2, <3>3, <3>4
  <2>4. QED BY <2>1, <2>2, <2>3 DEF Tiled
<1>10. BackLinked(D)
  <2>1. SUFFICES ASSUME NEW a \in Blocks(D)
        PROVE  IF a = 0 THEN D.prev[a] = Null
               ELSE D.prev[a] \in Blocks(D) /\ D.prev[a] + D.size[D.prev[a]] = a
    BY DEF BackLinked
  <2>2. CASE a = new
    <3>1. new # 0 /\ D.prev[new] = h /\ h \in Blocks(D) /\ D.size[h] = k
      BY <1>2, <1>3, <1>4, <1>7
    <3>2. h + k = new
      BY DEF new
    <3>3. QED BY <2>2, <3>1, <3>2
  <2>3. CASE a \in Blocks(H) /\ a = NextBlock(H, h)
    BY <1>2, <1>3, <1>4, <1>7, <2>3
  <2>4. CASE a \in Blocks(H) /\ a # NextBlock(H, h)
    <3>1. \/ a = 0 /\ H.prev[a] = Null
          \/ /\ H.prev[a] \in Blocks(H) /\ NextBlock(H, H.prev[a]) = a
             /\ H.prev[a] < a /\ H.prev[a] + H.size[H.prev[a]] = a
      BY <2>4, Neighbours
    <3>2. D.prev[a] = H.prev[a] /\ a \in Blocks(H)
      BY <1>7, <2>4
    <3>3. CASE a = 0
      <4>1. H.prev[a] = Null
        BY <1>2, <3>2, <3>3 DEF Sound, BackLinked
      <4>2. QED BY <3>2, <3>3, <4>1
    <3>4. CASE a # 0
      <4> DEFINE q == H.prev[a]
      <4>1. q \in Blocks(H) /\ NextBlock(H, q) = a /\ q + H.size[q] = a
        BY <3>1, <3>4
      <4>2. q # h
        BY <2>4, <4>1
      <4>3. D.size[q] = H.size[q] /\ q \in Blocks(D)
        BY <1>2, <1>7, <4>1, <4>2
      <4>4. D.prev[a] = q
        BY <3>2
      <4> HIDE DEF q
      <4>5. QED BY <3>4, <4>1, <4>3, <4>4
    <3>5. QED BY <3>3, <3>4
  <2>5. QED BY <1>2, <2>2, <2>3, <2>4
<1>11. QED BY <1>1, <1>2, <1>6, <1>8, <1>9, <1>10 DEF Sound, D, new

(* Two neighbours become one block. *)
LEMMA MergeSound ==
  ASSUME Sizes, NEW H, Sound(H), NEW a \in Blocks(H), NEW b \in Blocks(H),
         a + H.size[a] = b
  PROVE  /\ Sound(Merge(H, a, b))
         /\ Blocks(Merge(H, a, b)) = Blocks(H) \ {b}
         /\ Merge(H, a, b).size =
              [x \in Blocks(H) \ {b} |->
                 IF x = a THEN H.size[a] + H.size[b] ELSE H.size[x]]
         /\ Merge(H, a, b).free = H.free \ {b}
         /\ Merge(H, a, b).list = H.list
         /\ NextBlock(Merge(H, a, b), a) = NextBlock(H, b)
         /\ Merge(H, a, b).prev[a] = H.prev[a]
<1> DEFINE M == Merge(H, a, b)
<1>1. /\ M = [size |-> M.size, prev |-> M.prev, free |-> M.free, list |-> M.list]
      /\ M.size = [x \in Blocks(H) \ {b} |->
                     IF x = a THEN H.size[a] + H.size[b] ELSE H.size[x]]
      /\ M.prev = [x \in Blocks(H) \ {b} |->
                     IF x = NextBlock(H, b) THEN a ELSE H.prev[x]]
      /\ M.free = H.free \ {b} /\ M.list = H.list
  BY DEF Merge
<1>2. Blocks(M) = Blocks(H) \ {b}
  BY <1>1 DEF Blocks
<1>3. /\ \A x \in Blocks(H) : x \in Nat /\ H.size[x] \in Nat /\ H.size[x] >= Header
      /\ \A x, y \in Blocks(H) : x < y => x + H.size[x] <= y
  BY DEF Sound, Shape, Tiled, Sizes
<1>4. /\ a < b /\ b # 0 /\ a # b
      /\ a + (H.size[a] + H.size[b]) = b + H.size[b]
      /\ H.size[a] + H.size[b] \in Nat /\ H.size[a] + H.size[b] >= Header
  BY <1>3 DEF Sizes
<1>5. /\ M.size[a] = H.size[a] + H.size[b]
      /\ \A x \in Blocks(H) \ {a, b} : M.size[x] = H.size[x]
      /\ \A x \in Blocks(H) \ {b} : M.prev[x] = IF x = NextBlock(H, b) THEN a ELSE H.prev[x]
  BY <1>1, <1>4
<1>6. /\ \/ NextBlock(H, b) = Null /\ b + H.size[b] = cap
         \/ /\ NextBlock(H, b) = b + H.size[b] /\ b + H.size[b] < cap
            /\ NextBlock(H, b) \in Blocks(H) /\ H.prev[NextBlock(H, b)] = b
      /\ Null \notin Blocks(H)
  BY Neighbours
<1>7. /\ b + H.size[b] # b /\ b + H.size[b] > a
  BY <1>3, <1>4 DEF Sizes
<1>17. NextBlock(H, a) = b
  BY <1>3, <1>6, <1>7 DEF NextBlock, Sizes
<1> HIDE DEF M
<1>8. Shape(M)
  <2>1. M.size \in [Blocks(M) -> Nat]
    BY <1>1, <1>2, <1>3, <1>4
  <2>2. \A x \in Blocks(H) : x # NextBlock(H, b) => H.prev[x] # b
    <3>1. SUFFICES ASSUME NEW x \in Blocks(H), H.prev[x] = b PROVE x = NextBlock(H, b)
      OBVIOUS
    <3>2. \/ x = 0 /\ H.prev[x] = Null
          \/ NextBlock(H, H.prev[x]) = x
      BY Neighbours
    <3>3. QED BY <1>6, <3>1, <3>2
  <2>3. M.prev \in [Blocks(M) -> Blocks(M) \cup {Null}]
    BY <1>1, <1>2, <1>4, <2>2 DEF Sound, Shape
  <2>4. QED BY <1>1, <1>2, <2>1, <2>3 DEF Sound, Shape
<1>9. Tiled(M)
  <2>1. 0 \in Blocks(M)
    BY <1>2, <1>4 DEF Sound, Tiled
  <2>2. ASSUME NEW x \in Blocks(M)
        PROVE  /\ M.size[x] >= Header
               /\ \/ x + M.size[x] = cap
                  \/ (x + M.size[x] < cap /\ x + M.size[x] \in Blocks(M))
    <3>1. CASE x = a
      BY <1>2, <1>4, <1>5, <1>6, <1>7, <3>1
    <3>2. CASE x \in Blocks(H) \ {a, b}
      <4>1. x + H.size[x] # b
        BY <1>3, <1>4, <3>2 DEF Sizes
      <4>2. QED BY <1>2, <1>5, <3>2, <4>1 DEF Sound, Tiled
    <3>3. QED BY <1>2, <3>1, <3>2
  <2>3. ASSUME NEW x \in Blocks(M), NEW y \in Blocks(M), x < y
        PROVE  x + M.size[x] <= y
    <3>1. CASE x = a
      <4>1. y \in Blocks(H) /\ b < y
        BY <1>2, <1>3, <1>4, <2>3, <3>1
      <4>2. QED BY <1>3, <1>4, <1>5, <3>1, <4>1
    <3>2. CASE x \in Blocks(H) \ {a, b}
      BY <1>2, <1>3, <1>5, <2>3, <3>2
    <3>3. QED BY <1>2, <3>1, <3>2
  <2>4. QED BY <2>1, <2>2, <2>3 DEF Tiled
<1>10. BackLinked(M)
  <2>1. SUFFICES ASSUME NEW x \in Blocks(M)
        PROVE  IF x = 0 THEN M.prev[x] = Null
               ELSE M.prev[x] \in Blocks(M) /\ M.prev[x] + M.size[M.prev[x]] = x
    BY DEF BackLinked
  <2>2. CASE x = NextBlock(H, b)
    BY <1>2, <1>3, <1>4, <1>5, <1>6, <2>1, <2>2
  <2>3. CASE x # NextBlock(H, b)
    <3>1. \/ x = 0 /\ H.prev[x] = Null
          \/ /\ H.prev[x] \in Blocks(H) /\ NextBlock(H, H.prev[x]) = x
             /\ H.prev[x] < x /\ H.prev[x] + H.size[H.prev[x]] = x
      BY <1>2, Neighbours
    <3>2. M.prev[x] = H.prev[x] /\ x \in Blocks(H) \ {b}
      BY <1>2, <1>5, <2>3
    <3>3. CASE x = 0
      <4>1. H.prev[x] = Null
        BY <1>2, <3>2, <3>3 DEF Sound, BackLinked
      <4>2. QED BY <3>2, <3>3, <4>1
    <3>4. CASE x # 0
      <4> DEFINE q == H.prev[x]
      <4>1. q \in Blocks(H) /\ NextBlock(H, q) = x /\ q + H.size[q] = x
        BY <1>6, <3>1, <3>4
      <4>2. q # a /\ q # b
        BY <1>17, <2>3, <3>2, <4>1
      <4>3. M.size[q] = H.size[q] /\ q \in Blocks(M)
        BY <1>2, <1>5, <4>1, <4>2
      <4>4. M.prev[x] = q
        BY <3>2
      <4> HIDE DEF q
      <4>5. QED BY <3>4, <4>1, <4>3, <4>4
    <3>5. QED BY <3>3, <3>4
  <2>4. QED BY <2>2, <2>3
<1>11. NextBlock(M, a) = NextBlock(H, b)
  BY <1>4, <1>5 DEF NextBlock
<1>12. M.prev[a] = H.prev[a]
  BY <1>3, <1>4, <1>5, <1>6, <1>7
<1>13. QED BY <1>1, <1>2, <1>8, <1>9, <1>10, <1>11, <1>12 DEF Sound, M

-----------------------------------------------------------------------------
(* The operations on a heap and its free list.                             *)

(* Two heaps with the same headers, but for free and list. *)
SameBlocks(G, H) == G.size = H.size /\ G.prev = H.prev

LEMMA SoundBySize ==
  ASSUME Sizes, NEW G, NEW H, Sound(H), SameBlocks(G, H),
         G = [size |-> G.size, prev |-> G.prev, free |-> G.free, list |-> G.list],
         G.free \subseteq Blocks(H), G.list \in Seq(Nat)
  PROVE  /\ Sound(G) /\ Blocks(G) = Blocks(H)
         /\ \A a \in Blocks(H) : NextBlock(G, a) = NextBlock(H, a)
<1>1. Blocks(G) = Blocks(H)
  BY DEF SameBlocks, Blocks
<1>2. Shape(G)
  BY <1>1 DEF Sound, Shape, SameBlocks
<1>3. Tiled(G) /\ BackLinked(G)
  BY <1>1 DEF Sound, Tiled, BackLinked, SameBlocks
<1>4. \A a \in Blocks(H) : NextBlock(G, a) = NextBlock(H, a)
  BY DEF NextBlock, SameBlocks
<1>5. QED BY <1>1, <1>2, <1>3, <1>4 DEF Sound

LEMMA RemoveSound ==
  ASSUME Sizes, NEW H, Sound(H), NEW S, Links(H.list, S), NEW a \in S
  PROVE  LET R == RemoveFreeList(H, a)
         IN  /\ Sound(R) /\ SameBlocks(R, H) /\ R.free = H.free
             /\ Links(R.list, S \ {a})
<1> DEFINE R == RemoveFreeList(H, a)
<1>1. /\ R.list \in Seq(Nat) /\ Links(R.list, S \ {a})
      /\ R = [size |-> H.size, prev |-> H.prev, free |-> H.free, list |-> R.list]
  BY RemoveLinks DEF Sound, Shape
<1> HIDE DEF R
<1>2. /\ SameBlocks(R, H) /\ R.free = H.free
      /\ R = [size |-> R.size, prev |-> R.prev, free |-> R.free, list |-> R.list]
  BY <1>1 DEF SameBlocks
<1>3. Sound(R)
  BY <1>1, <1>2, SoundBySize DEF Sound, Shape
<1>4. QED BY <1>1, <1>2, <1>3 DEF R

LEMMA InsertSound ==
  ASSUME Sizes, NEW H, Sound(H), NEW S, Links(H.list, S), NEW a \in Nat, a \notin S
  PROVE  LET R == InsertFreeList(H, a)
         IN  /\ Sound(R) /\ SameBlocks(R, H) /\ R.free = H.free
             /\ Links(R.list, S \cup {a})
<1> DEFINE R == InsertFreeList(H, a)
<1>0. /\ H = [size |-> H.size, prev |-> H.prev, free |-> H.free, list |-> H.list]
      /\ H.list \in Seq(Nat)
  BY DEF Sound, Shape
<1>1. R = [size |-> H.size, prev |-> H.prev, free |-> H.free, list |-> <<a>> \o H.list]
  <2> DEFINE s == <<a>> \o H.list
  <2>1. R = [H EXCEPT !.list = s]
    BY DEF InsertFreeList
  <2> HIDE DEF s
  <2>2. [H EXCEPT !.list = s] =
          [size |-> H.size, prev |-> H.prev, free |-> H.free, list |-> s]
    BY <1>0
  <2>3. QED BY <2>1, <2>2 DEF s
<1>2. R.list \in Seq(Nat) /\ Links(R.list, S \cup {a})
  <2>1. <<a>> \o H.list \in Seq(Nat) /\ Links(<<a>> \o H.list, S \cup {a})
    BY <1>0, InsertLinks
  <2>2. QED BY <1>1, <2>1
<1>3. /\ SameBlocks(R, H) /\ R.free = H.free
      /\ R = [size |-> R.size, prev |-> R.prev, free |-> R.free, list |-> R.list]
  BY <1>1 DEF SameBlocks
<1> HIDE DEF R
<1>4. Sound(R)
  BY <1>2, <1>3, SoundBySize DEF Sound, Shape
<1>5. QED BY <1>2, <1>3, <1>4 DEF R

LEMMA MarkSound ==
  ASSUME Sizes, NEW H, Sound(H), NEW a \in Blocks(H)
  PROVE  /\ LET R == MarkUsed(H, a)
            IN  /\ Sound(R) /\ SameBlocks(R, H) /\ R.list = H.list
                /\ R.free = H.free \ {a}
         /\ LET R == MarkFree(H, a)
            IN  /\ Sound(R) /\ SameBlocks(R, H) /\ R.list = H.list
                /\ R.free = H.free \cup {a}
<1>1. ASSUME NEW F \in SUBSET Blocks(H)
      PROVE  LET R == [size |-> H.size, prev |-> H.prev, free |-> F, list |-> H.list]
             IN  Sound(R) /\ SameBlocks(R, H)
  <2> DEFINE R == [size |-> H.size, prev |-> H.prev, free |-> F, list |-> H.list]
  <2>1. /\ SameBlocks(R, H) /\ R.free = F /\ R.list = H.list
        /\ R = [size |-> R.size, prev |-> R.prev, free |-> R.free, list |-> R.list]
    BY DEF SameBlocks
  <2> HIDE DEF R
  <2>2. Sound(R)
    BY <2>1, SoundBySize DEF Sound, Shape
  <2>3. QED BY <2>1, <2>2 DEF R
<1>2. H.free \ {a} \in SUBSET Blocks(H) /\ H.free \cup {a} \in SUBSET Blocks(H)
  BY DEF Sound, Shape
<1>0. H = [size |-> H.size, prev |-> H.prev, free |-> H.free, list |-> H.list]
  BY DEF Sound, Shape
<1>3. /\ MarkUsed(H, a) = [size |-> H.size, prev |-> H.prev,
                           free |-> H.free \ {a}, list |-> H.list]
      /\ MarkFree(H, a) = [size |-> H.size, prev |-> H.prev,
                           free |-> H.free \cup {a}, list |-> H.list]
  BY <1>0 DEF MarkUsed, MarkFree
<1>4. QED BY <1>1, <1>2, <1>3

(* No free block is followed by a free one, other than where h is one of
   the two. *)
ApartButFor(H, h) ==
  \A a \in H.free : NextBlock(H, a) \in H.free => a = h \/ NextBlock(H, a) = h

Apart(H) == \A a \in H.free : NextBlock(H, a) \notin H.free

(* What the merging of free blocks leaves alone. *)
SameUsed(G, H) ==
  /\ Blocks(G) \subseteq Blocks(H)
  /\ Blocks(G) \ G.free = Blocks(H) \ H.free
  /\ \A a \in Blocks(H) \ H.free : G.size[a] = H.size[a]

LEMMA MergeNextKeeps ==
  ASSUME Sizes, NEW H, Sound(H), NEW h \in H.free,
         Links(H.list, H.free \ {h}), ApartButFor(H, h)
  PROVE  LET M == MergeNext(H, h)
         IN  /\ Sound(M) /\ h \in M.free /\ Links(M.list, M.free \ {h})
             /\ \A a \in M.free : NextBlock(M, a) \in M.free => NextBlock(M, a) = h
             /\ SameUsed(M, H)
<1> DEFINE b == NextBlock(H, h)
           M == MergeNext(H, h)
<1>1. h \in Blocks(H) /\ H.free \subseteq Blocks(H)
  BY DEF Sound, Shape
<1>2. CASE b \notin H.free
  <2>1. M = H
    BY <1>2 DEF MergeNext
  <2>2. QED BY <1>2, <2>1 DEF ApartButFor, SameUsed
<1>3. CASE b \in H.free
  <2> DEFINE R == RemoveFreeList(H, b)
  <2>1. /\ b \in Blocks(H) /\ b # h /\ h + H.size[h] = b
        /\ H.prev[b] = h
    BY <1>1, <1>3, Neighbours DEF Sizes
  <2>2. /\ Sound(R) /\ SameBlocks(R, H) /\ R.free = H.free
        /\ Links(R.list, (H.free \ {h}) \ {b})
    BY <1>3, <2>1, RemoveSound
  <2>3. M = Merge(R, h, b)
    BY <1>3 DEF MergeNext
  <2> HIDE DEF R
  <2>4. /\ Blocks(R) = Blocks(H) /\ R.size = H.size /\ R.prev = H.prev
        /\ \A a \in Blocks(H) : NextBlock(R, a) = NextBlock(H, a)
    BY <2>2 DEF SameBlocks, Blocks, NextBlock
  <2>5. /\ Sound(M) /\ Blocks(M) = Blocks(H) \ {b}
        /\ M.size = [x \in Blocks(H) \ {b} |->
                       IF x = h THEN H.size[h] + H.size[b] ELSE H.size[x]]
        /\ M.free = H.free \ {b} /\ M.list = R.list
        /\ NextBlock(M, h) = NextBlock(H, b)
    BY <1>1, <2>1, <2>2, <2>3, <2>4, MergeSound
  <2> HIDE DEF M
  <2>6. ASSUME NEW a \in M.free, NextBlock(M, a) \in M.free PROVE NextBlock(M, a) = h
    <3>1. CASE a = h
      BY <1>3, <2>5, <2>6, <3>1 DEF ApartButFor
    <3>2. CASE a # h
      <4>1. a \in H.free /\ M.size[a] = H.size[a]
        BY <1>1, <2>5, <3>2
      <4>2. NextBlock(M, a) = NextBlock(H, a)
        BY <4>1 DEF NextBlock
      <4>3. QED BY <2>5, <2>6, <3>2, <4>1, <4>2 DEF ApartButFor
    <3>3. QED BY <3>1, <3>2
  <2>7. SameUsed(M, H)
    BY <1>1, <1>3, <2>5 DEF SameUsed
  <2>8. h \in M.free /\ Links(M.list, M.free \ {h})
    <3>1. (H.free \ {h}) \ {b} = M.free \ {h}
      BY <2>5
    <3>2. QED BY <2>1, <2>2, <2>5, <3>1
  <2>9. QED BY <2>5, <2>6, <2>7, <2>8 DEF M
<1>4. QED BY <1>2, <1>3

LEMMA MergePrevKeeps ==
  ASSUME Sizes, NEW H, Sound(H), NEW h \in H.free,
         Links(H.list, H.free \ {h}),
         \A a \in H.free : NextBlock(H, a) \in H.free => NextBlock(H, a) = h
  PROVE  LET M == MergePrev(H, h)
         IN  /\ Sound(M) /\ Links(M.list, M.free) /\ Apart(M) /\ SameUsed(M, H)
<1> DEFINE b == H.prev[h]
           M == MergePrev(H, h)
<1>1. h \in Blocks(H) /\ H.free \subseteq Blocks(H) /\ h \in Nat
  BY DEF Sound, Shape
<1>2. CASE b \notin H.free
  <2>1. M = InsertFreeList(H, h)
    BY <1>2 DEF MergePrev
  <2>2. /\ Sound(M) /\ SameBlocks(M, H) /\ M.free = H.free
        /\ Links(M.list, (H.free \ {h}) \cup {h})
    BY <1>1, <2>1, InsertSound
  <2> HIDE DEF M
  <2>3. (H.free \ {h}) \cup {h} = M.free
    BY <2>2
  <2>4. /\ Blocks(M) = Blocks(H) /\ M.size = H.size
        /\ \A a \in Blocks(H) : NextBlock(M, a) = NextBlock(H, a)
    BY <2>2 DEF SameBlocks, Blocks, NextBlock
  <2>5. Apart(M)
    <3>1. SUFFICES ASSUME NEW a \in H.free, NextBlock(H, a) \in H.free PROVE FALSE
      BY <1>1, <2>2, <2>4 DEF Apart
    <3>2. NextBlock(H, a) = h
      BY <3>1
    <3>3. H.prev[h] = a
      BY <1>1, <3>2, Neighbours
    <3>4. QED BY <1>2, <3>1, <3>3
  <2>6. SameUsed(M, H)
    BY <2>2, <2>4 DEF SameUsed
  <2>7. QED BY <2>2, <2>3, <2>5, <2>6 DEF M
<1>3. CASE b \in H.free
  <2> DEFINE R == RemoveFreeList(H, b)
             G == Merge(R, b, h)
  <2>1. /\ b \in Blocks(H) /\ b # h /\ b + H.size[b] = h
        /\ NextBlock(H, b) = h
    BY <1>1, <1>3, Neighbours DEF Sizes
  <2>2. /\ Sound(R) /\ SameBlocks(R, H) /\ R.free = H.free
        /\ Links(R.list, (H.free \ {h}) \ {b})
    BY <1>3, <2>1, RemoveSound
  <2>3. M = InsertFreeList(G, b) /\ G = Merge(R, b, h)
    BY <1>3 DEF MergePrev
  <2> HIDE DEF R, M, G
  <2>4. /\ Blocks(R) = Blocks(H) /\ R.size = H.size /\ R.prev = H.prev
        /\ \A a \in Blocks(H) : NextBlock(R, a) = NextBlock(H, a)
    BY <2>2 DEF SameBlocks, Blocks, NextBlock
  <2>5. /\ Sound(G) /\ Blocks(G) = Blocks(H) \ {h}
        /\ G.size = [x \in Blocks(H) \ {h} |->
                       IF x = b THEN H.size[b] + H.size[h] ELSE H.size[x]]
        /\ G.free = H.free \ {h} /\ G.list = R.list
        /\ NextBlock(G, b) = NextBlock(H, h)
    <3>1. b \in Blocks(R) /\ h \in Blocks(R) /\ b + R.size[b] = h
      BY <1>1, <2>1, <2>4
    <3>2. /\ Sound(G) /\ Blocks(G) = Blocks(R) \ {h}
          /\ G.size = [x \in Blocks(R) \ {h} |->
                         IF x = b THEN R.size[b] + R.size[h] ELSE R.size[x]]
          /\ G.free = R.free \ {h} /\ G.list = R.list
          /\ NextBlock(G, b) = NextBlock(R, h)
      BY <2>2, <2>3, <3>1, MergeSound
    <3>3. QED BY <1>1, <2>2, <2>4, <3>2
  <2>6. b \in Nat
    BY <2>1 DEF Sound, Shape
  <2>7. /\ Sound(M) /\ SameBlocks(M, G) /\ M.free = G.free
        /\ Links(M.list, ((H.free \ {h}) \ {b}) \cup {b})
    <3>1. Links(G.list, (H.free \ {h}) \ {b})
      BY <2>2, <2>5
    <3>2. b \notin (H.free \ {h}) \ {b}
      OBVIOUS
    <3>3. Sizes /\ Sound(G) /\ M = InsertFreeList(G, b)
      BY <2>3, <2>5
    <3>4. QED BY <2>6, <3>1, <3>2, <3>3, InsertSound, ZenonT(40)
  <2>8. M.free = ((H.free \ {h}) \ {b}) \cup {b}
    BY <1>3, <2>1, <2>5, <2>7
  <2>9. /\ Blocks(M) = Blocks(G) /\ M.size = G.size
        /\ \A a \in Blocks(G) : NextBlock(M, a) = NextBlock(G, a)
    BY <2>7 DEF SameBlocks, Blocks, NextBlock
  <2>10. Apart(M)
    <3>1. SUFFICES ASSUME NEW a \in M.free, NextBlock(M, a) \in M.free PROVE FALSE
      BY DEF Apart
    <3>2. a \in H.free /\ a # h /\ a \in Blocks(G) /\ NextBlock(G, a) \in H.free \ {h}
      BY <1>1, <2>5, <2>7, <2>9, <3>1
    <3>3. CASE a = b
      <4>1. NextBlock(H, h) \in H.free \ {h}
        BY <2>5, <3>2, <3>3
      <4>2. QED BY <4>1
    <3>4. CASE a # b
      <4>1. NextBlock(G, a) = NextBlock(H, a)
        <5>1. G.size[a] = H.size[a]
          BY <2>5, <3>2, <3>4
        <5>2. QED BY <5>1 DEF NextBlock
      <4>2. QED BY <3>2, <4>1
    <3>5. QED BY <3>3, <3>4
  <2>11. SameUsed(M, H)
    BY <1>1, <1>3, <2>5, <2>7, <2>9 DEF SameUsed
  <2>12. QED BY <2>7, <2>8, <2>10, <2>11 DEF M
<1>4. QED BY <1>2, <1>3

(* Free() of a used block h. *)
LEMMA FreeKeeps ==
  ASSUME Sizes, NEW H, Sound(H), Links(H.list, H.free), Apart(H),
         NEW h \in Blocks(H) \ H.free
  PROVE  LET R == MergePrev(MergeNext(MarkFree(H, h), h), h)
         IN  /\ Sound(R) /\ Links(R.list, R.free) /\ Apart(R)
             /\ Blocks(R) \ R.free = (Blocks(H) \ H.free) \ {h}
             /\ \A a \in Blocks(R) \ R.free : R.size[a] = H.size[a]
             /\ Blocks(R) \subseteq Blocks(H)
<1> DEFINE F == MarkFree(H, h)
           N == MergeNext(F, h)
           R == MergePrev(N, h)
<1>1. /\ Sound(F) /\ SameBlocks(F, H) /\ F.list = H.list /\ F.free = H.free \cup {h}
  BY MarkSound
<1> HIDE DEF F
<1>2. /\ h \in F.free /\ F.free \ {h} = H.free /\ Links(F.list, F.free \ {h})
  BY <1>1
<1>3. /\ Blocks(F) = Blocks(H) /\ F.size = H.size
      /\ \A a \in Blocks(H) : NextBlock(F, a) = NextBlock(H, a)
  BY <1>1 DEF SameBlocks, Blocks, NextBlock
<1>4. ApartButFor(F, h)
  <2>1. SUFFICES ASSUME NEW a \in F.free, NextBlock(F, a) \in F.free,
                        a # h, NextBlock(F, a) # h
                 PROVE  FALSE
    BY DEF ApartButFor
  <2>2. a \in H.free /\ a \in Blocks(H) /\ NextBlock(H, a) \in H.free
    BY <1>1, <1>3, <2>1 DEF Sound, Shape
  <2>3. QED BY <2>2 DEF Apart
<1>5. /\ Sound(N) /\ h \in N.free /\ Links(N.list, N.free \ {h})
      /\ \A a \in N.free : NextBlock(N, a) \in N.free => NextBlock(N, a) = h
      /\ SameUsed(N, F)
  BY <1>1, <1>2, <1>4, MergeNextKeeps
<1> HIDE DEF N
<1>6. Sound(R) /\ Links(R.list, R.free) /\ Apart(R) /\ SameUsed(R, N)
  BY <1>5, MergePrevKeeps
<1> HIDE DEF R
<1>7. /\ Blocks(R) \ R.free = (Blocks(H) \ H.free) \ {h}
      /\ Blocks(R) \subseteq Blocks(H)
      /\ \A a \in Blocks(R) \ R.free : R.size[a] = H.size[a]
  BY <1>1, <1>3, <1>5, <1>6 DEF SameUsed
<1>8. QED BY <1>6, <1>7 DEF R, N, F

(* Allocate() of a free block h. *)
LEMMA TakeKeeps ==
  ASSUME Sizes, NEW H, Sound(H), Links(H.list, H.free), Apart(H), NEW h \in H.free
  PROVE  LET R == MarkUsed(RemoveFreeList(H, h), h)
         IN  /\ Sound(R) /\ SameBlocks(R, H) /\ Links(R.list, R.free) /\ Apart(R)
             /\ R.free = H.free \ {h} /\ Blocks(R) = Blocks(H)
             /\ \A a \in Blocks(H) : NextBlock(R, a) = NextBlock(H, a)
<1> DEFINE G == RemoveFreeList(H, h)
           R == MarkUsed(G, h)
<1>1. Sound(G) /\ SameBlocks(G, H) /\ G.free = H.free /\ Links(G.list, H.free \ {h})
  BY RemoveSound
<1> HIDE DEF G
<1>2. h \in Blocks(G)
  BY <1>1 DEF Sound, Shape
<1>3. Sound(R) /\ SameBlocks(R, G) /\ R.list = G.list /\ R.free = G.free \ {h}
  BY <1>1, <1>2, MarkSound
<1> HIDE DEF R
<1>4. SameBlocks(R, H) /\ R.free = H.free \ {h} /\ Links(R.list, R.free)
  BY <1>1, <1>3 DEF SameBlocks
<1>5. /\ Blocks(R) = Blocks(H)
      /\ \A a \in Blocks(H) : NextBlock(R, a) = NextBlock(H, a)
  BY <1>4 DEF SameBlocks, Blocks, NextBlock
<1>6. Apart(R)
  BY <1>4, <1>5 DEF Apart, Sound, Shape
<1>7. QED BY <1>3, <1>4, <1>5, <1>6 DEF R, G

LEMMA SplitKeeps ==
  ASSUME Sizes, NEW H, Sound(H), Links(H.list, H.free), Apart(H), NEW h \in H.free,
         NEW k \in Nat, k >= Header, H.size[h] - k >= Header
  PROVE  LET R == InsertFreeList(Divide(MarkUsed(RemoveFreeList(H, h), h), h, k), h + k)
         IN  /\ Sound(R) /\ Links(R.list, R.free) /\ Apart(R)
             /\ Blocks(R) = Blocks(H) \cup {h + k}
             /\ Blocks(R) \ R.free = (Blocks(H) \ H.free) \cup {h}
             /\ R.size[h] = k
             /\ \A a \in Blocks(H) \ {h} : R.size[a] = H.size[a]
<1> DEFINE U == MarkUsed(RemoveFreeList(H, h), h)
           D == Divide(U, h, k)
           new == h + k
           R == InsertFreeList(D, new)
<1>1. /\ Sound(U) /\ SameBlocks(U, H) /\ Links(U.list, U.free) /\ Apart(U)
      /\ U.free = H.free \ {h} /\ Blocks(U) = Blocks(H)
      /\ \A a \in Blocks(H) : NextBlock(U, a) = NextBlock(H, a)
  BY TakeKeeps
<1> HIDE DEF U
<1>2. h \in Blocks(H) /\ h \in Nat /\ U.size = H.size /\ H.free \subseteq Blocks(H)
  BY <1>1 DEF SameBlocks, Sound, Shape
<1>3. /\ Sound(D) /\ Blocks(D) = Blocks(H) \cup {new} /\ new \notin Blocks(H)
      /\ D.size = [a \in Blocks(H) \cup {new} |->
                     IF a = h THEN k
                     ELSE IF a = new THEN H.size[h] - k ELSE H.size[a]]
      /\ D.free = U.free \cup {new} /\ D.list = U.list
  <2>1. h \in Blocks(U) /\ U.size[h] - k >= Header
    BY <1>1, <1>2
  <2>2. /\ Sound(D) /\ Blocks(D) = Blocks(U) \cup {new} /\ new \notin Blocks(U)
        /\ D.size = [a \in Blocks(U) \cup {new} |->
                       IF a = h THEN k
                       ELSE IF a = new THEN U.size[h] - k ELSE U.size[a]]
        /\ D.free = U.free \cup {new} /\ D.list = U.list
    BY <1>1, <2>1, DivideSound
  <2>3. QED BY <1>1, <1>2, <2>2
<1> HIDE DEF D
<1>4. new \in Nat /\ new \notin U.free
  BY <1>1, <1>2, <1>3
<1> HIDE DEF new
<1>5. Sound(R) /\ SameBlocks(R, D) /\ R.free = D.free /\ Links(R.list, U.free \cup {new})
  BY <1>1, <1>3, <1>4, InsertSound
<1> HIDE DEF R
<1>6. /\ Blocks(R) = Blocks(H) \cup {new} /\ R.size = D.size
      /\ R.free = (H.free \ {h}) \cup {new}
  BY <1>1, <1>3, <1>5 DEF SameBlocks, Blocks
<1>7. /\ R.size[h] = k /\ R.size[new] = H.size[h] - k
      /\ \A a \in Blocks(H) \ {h} : R.size[a] = H.size[a]
      /\ new # h
  BY <1>2, <1>3, <1>6
<1>8. NextBlock(R, h) = new /\ NextBlock(R, new) = NextBlock(H, h)
  <2>1. h + H.size[h] <= cap /\ H.size[h] \in Nat
    BY <1>2 DEF Sound, Shape, Tiled, Sizes
  <2>2. h + k = new /\ new < h + H.size[h] /\ new + (H.size[h] - k) = h + H.size[h]
    BY <1>2, <2>1 DEF new, Sizes
  <2>3. NextBlock(R, h) = new
    BY <1>2, <1>4, <1>7, <2>1, <2>2 DEF NextBlock, Sizes
  <2>4. NextBlock(R, new) = NextBlock(H, h)
    BY <1>7, <2>2 DEF NextBlock
  <2>5. QED BY <2>3, <2>4
<1>9. Apart(R)
  <2>1. SUFFICES ASSUME NEW a \in R.free, NextBlock(R, a) \in R.free PROVE FALSE
    BY DEF Apart
  <2>2. CASE a = new
    <3>1. NextBlock(H, h) \notin H.free
      BY DEF Apart
    <3>2. NextBlock(R, a) # new
      <4>1. new \in Blocks(R) /\ new \in Nat /\ R.size[new] \in Nat /\ R.size[new] >= Header
        BY <1>4, <1>5, <1>6 DEF Sound, Shape, Tiled
      <4>2. QED BY <2>2, <4>1 DEF NextBlock, Sizes
    <3>3. QED BY <1>6, <1>8, <2>1, <2>2, <3>1, <3>2
  <2>3. CASE a # new
    <3>1. a \in H.free /\ a # h /\ a \in Blocks(H) \ {h}
      BY <1>2, <1>6, <2>1, <2>3
    <3>2. NextBlock(R, a) = NextBlock(H, a)
      BY <1>7, <3>1 DEF NextBlock
    <3>3. NextBlock(R, a) # new
      <4>1. NextBlock(H, a) = Null \/ NextBlock(H, a) \in Blocks(H)
        BY <3>1, Neighbours
      <4>2. QED BY <1>3, <1>4, <3>2, <4>1 DEF Sizes
    <3>4. QED BY <1>6, <2>1, <3>1, <3>2, <3>3 DEF Apart
  <2>4. QED BY <2>2, <2>3
<1>10. /\ Blocks(R) \ R.free = (Blocks(H) \ H.free) \cup {h}
       /\ R.free = U.free \cup {new}
  BY <1>1, <1>2, <1>3, <1>6, <1>7
<1>11. QED BY <1>5, <1>6, <1>7, <1>9, <1>10 DEF R, D, U, new

-----------------------------------------------------------------------------
(* Sizes and alignment.                                                    *)

(* Euclidean division. *)
LEMMA DivMod ==
  ASSUME NEW x \in Nat, NEW A \in Nat \ {0}
  PROVE  /\ x \div A \in Nat /\ x % A \in 0 .. A - 1
         /\ x = A * (x \div A) + (x % A)
<1>1. x \div A \in Int /\ x % A \in 0 .. A - 1
  OBVIOUS
<1>2. x = A * (x \div A) + (x % A)
  OBVIOUS
<1>3. x \div A \in Nat
  <2>1. SUFFICES ASSUME x \div A < 0 PROVE FALSE
    BY <1>1
  <2>2. A * (x \div A) <= -A
    BY <1>1, <2>1
  <2>3. QED BY <1>1, <1>2, <2>2
<1>4. QED BY <1>1, <1>2, <1>3

(* A multiple has no remainder. *)
LEMMA MultMod ==
  ASSUME NEW k \in Nat, NEW A \in Nat \ {0}
  PROVE  (k * A) % A = 0
<1> DEFINE x == k * A
           q == x \div A
           r == x % A
<1>1. x \in Nat
  OBVIOUS
<1>2. q \in Nat /\ r \in 0 .. A - 1 /\ x = A * q + r
  BY <1>1, DivMod
<1> HIDE DEF q, r
<1>3. (k - q) * A = r
  BY <1>2
<1>4. CASE k - q >= 1
  <2>1. (k - q) * A >= A
    BY <1>2, <1>4
  <2>2. QED BY <2>1, <1>3, <1>2
<1>5. CASE k - q <= -1
  <2>1. (k - q) * A <= -A
    BY <1>2, <1>5
  <2>2. QED BY <2>1, <1>3, <1>2
<1>6. CASE k = q
  BY <1>3, <1>6, <1>2 DEF r
<1>7. QED BY <1>4, <1>5, <1>6, <1>2

-----------------------------------------------------------------------------
(* The inductive invariant.                                                *)

(* There is a buffer with room for a block. *)
Room == up /\ cap >= Header

Shapes ==
  /\ up \in BOOLEAN /\ cap \in Capacities \cup {0} /\ used \in Int
  /\ held \in [DOMAIN held -> Requests \ {0}] /\ DOMAIN held \subseteq Nat
  /\ pick \in [Callers -> [block : Nat \cup {Null}, request : Requests \cup {0}]]

(* The headers, the free list and the pointers in use tell one story. *)
Story ==
  IF Room
  THEN /\ Sound(heap) /\ Links(heap.list, heap.free) /\ Apart(heap)
       /\ Blocks(heap) \ heap.free = {p - Header : p \in DOMAIN held}
  ELSE heap = Formatted(FALSE, 0) /\ held = Nothing

(* What an Allocate() between its two steps relies on, and that it is alone. *)
Picks ==
  \A c \in Callers : pick[c] # NoPick =>
    /\ Room /\ pick[c].block \in heap.free /\ pick[c].request \in Requests \ {0}
    /\ Need(pick[c].request) >= Header
    /\ heap.size[pick[c].block] >= Need(pick[c].request)
    /\ \A d \in Callers : d # c => pick[d] = NoPick

(* Every block in use has the bytes Allocate() computed. *)
Needs ==
  \A p \in DOMAIN held :
    Need(held[p]) >= Header /\ heap.size[p - Header] >= Need(held[p])

Aligned == \A a \in Blocks(heap) : \E k \in Nat : a = k * Align

IInv == Shapes /\ Story /\ Picks /\ Needs /\ Aligned

Even == \A n \in Capacities : n % 2 = 0

(* A step that keeps the buffer reads the same geometry before and after. *)
LEMMA SameBuffer ==
  ASSUME cap' = cap
  PROVE  /\ Sound(heap)' <=> Sound(heap')
         /\ Apart(heap)' <=> Apart(heap')
         /\ Links(heap.list, heap.free)' <=> Links(heap'.list, heap'.free)
         /\ Blocks(heap)' = Blocks(heap')
BY DEF Sound, Shape, Tiled, BackLinked, Apart, NextBlock, Links, Blocks, Null

LEMMA IInvSizes ==
  ASSUME PoolAssumption, Shapes
  PROVE  Sizes
BY DEF PoolAssumption, Shapes, Sizes, Null

(* What a search finds is on the free list and long enough. *)
LEMMA FirstFits ==
  ASSUME PoolAssumption, IInv, NEW k \in Nat, Fits(k) # {}, Room
  PROVE  FirstFit(k) \in heap.free /\ heap.size[FirstFit(k)] >= k
<1>1. Links(heap.list, heap.free) /\ heap.list \in Seq(Nat)
  BY DEF IInv, Story, Sound, Shape
<1>2. Fits(k) \in SUBSET Nat
  BY <1>1 DEF Fits
<1>3. \E i \in Fits(k) : \A j \in Fits(k) : i <= j
  BY <1>2, SmallestExists
<1> DEFINE i == CHOOSE i \in Fits(k) : \A j \in Fits(k) : i <= j
<1>4. i \in Fits(k)
  BY <1>3
<1> HIDE DEF i
<1>5. i \in DOMAIN heap.list /\ heap.size[heap.list[i]] >= k
  BY <1>4 DEF Fits
<1>6. Linked(heap.list[i], heap.list)
  BY <1>5 DEF Linked
<1>7. QED BY <1>1, <1>5, <1>6 DEF Links, FirstFit, i

LEMMA NeedType ==
  ASSUME PoolAssumption, NEW n \in Requests, Need(n) >= Header
  PROVE  Need(n) \in Nat
<1> DEFINE x == (n + Align - 1) % Word
           y == (x \div Align) * Align
<1>1. /\ n \in Nat /\ Align \in Nat \ {0} /\ Word \in Nat \ {0} /\ Header \in Nat
      /\ n + Align - 1 \in Nat
  BY DEF PoolAssumption
<1>2. x \in Nat
  BY <1>1
<1> HIDE DEF x
<1>3. x \div Align \in Nat
  BY <1>1, <1>2, DivMod
<1>4. y \in Nat
  BY <1>1, <1>3
<1> HIDE DEF y
<1>5. (Header + y) % Word \in Nat
  BY <1>1, <1>4
<1>6. QED BY <1>5 DEF Need, AlignUp, x, y

-----------------------------------------------------------------------------
(* Each step keeps the invariant.                                          *)

LEMMA EvenKept ==
  ASSUME NEW n \in Nat, n % 2 = 0
  PROVE  WithoutFlag(n) = n
<1>1. n - 0 = n
  OBVIOUS
<1>2. QED BY <1>1 DEF WithoutFlag

LEMMA RestartKeeps ==
  ASSUME PoolAssumption, Even, up' \in BOOLEAN, cap' \in Capacities \cup {0},
         Restarted(up', cap'), Shapes
  PROVE  IInv'
<1>1. /\ heap' = Formatted(up', cap') /\ used' = 0 /\ held' = Nothing
      /\ pick' = pick /\ Quiet
  BY DEF Restarted
<1>2. cap' \in Nat /\ cap' % 2 = 0 /\ Header \in Nat \ {0}
  <2>1. CASE cap' = 0
    BY <2>1 DEF PoolAssumption
  <2>2. CASE cap' \in Capacities
    BY <2>2 DEF PoolAssumption, Even
  <2>3. QED BY <2>1, <2>2
<1>3. held' = Nothing /\ DOMAIN held' = {}
  BY <1>1 DEF Nothing
<1>4. Picks' /\ pick' \in [Callers -> [block : Nat \cup {Null}, request : Requests \cup {0}]]
  BY <1>1 DEF Picks, Quiet, Shapes
<1>5. Shapes'
  BY <1>1, <1>2, <1>3, <1>4 DEF Shapes
<1>6. Needs'
  BY <1>3 DEF Needs
<1>7. CASE up' /\ cap' >= Header
  <2>1. WithoutFlag(cap') = cap'
    BY <1>2, EvenKept
  <2>2. heap' = [size |-> [a \in {0} |-> cap'], prev |-> [a \in {0} |-> Null],
                 free |-> {0}, list |-> <<0>>]
    BY <1>1, <1>7, <2>1 DEF Formatted
  <2>3. /\ heap'.size = [a \in {0} |-> cap'] /\ heap'.prev = [a \in {0} |-> Null]
        /\ heap'.free = {0} /\ heap'.list = <<0>> /\ Blocks(heap') = {0}
        /\ heap' = [size |-> heap'.size, prev |-> heap'.prev,
                    free |-> heap'.free, list |-> heap'.list]
    BY <2>2 DEF Blocks
  <2>4. Shape(heap')
    BY <1>2, <2>3 DEF Shape
  <2>5. Tiled(heap)' /\ BackLinked(heap)'
    BY <1>2, <1>7, <2>3 DEF Tiled, BackLinked, Blocks
  <2>6. Shape(heap)' /\ Apart(heap)'
    BY <1>2, <2>3, <2>4 DEF Shape, Apart, NextBlock, Null, Blocks
  <2>7. Links(heap.list, heap.free)'
    BY <2>3 DEF Links, Linked, NoDuplicates
  <2>8. (Blocks(heap) \ heap.free)' = {} /\ Aligned'
    <3>1. 0 = 0 * Align
      BY DEF PoolAssumption
    <3>2. QED BY <2>3, <3>1 DEF Aligned, Blocks
  <2>9. Story'
    BY <1>3, <1>7, <2>5, <2>6, <2>7, <2>8 DEF Story, Room, Sound
  <2>10. QED BY <1>4, <1>5, <1>6, <2>8, <2>9 DEF IInv
<1>8. CASE ~ (up' /\ cap' >= Header)
  <2>1. heap' = Formatted(FALSE, 0)
    BY <1>1, <1>8 DEF Formatted
  <2>2. Blocks(heap') = {}
    BY <2>1 DEF Blocks, Formatted
  <2>3. Story' /\ Aligned'
    BY <1>1, <1>8, <2>1, <2>2 DEF Story, Room, Aligned, Blocks, Formatted, Nothing
  <2>4. QED BY <1>4, <1>5, <1>6, <2>3 DEF IInv
<1>9. QED BY <1>7, <1>8

(* Nobody else is inside an Allocate() when a caller may enter. *)
LEMMA Alone ==
  ASSUME Exclusive = TRUE, NEW c \in Callers, MayEnter(c)
  PROVE  \A d \in Callers : pick[d] = NoPick
BY DEF MayEnter, Quiet

LEMMA SearchKeeps ==
  ASSUME PoolAssumption, Exclusive = TRUE, IInv,
         NEW c \in Callers, NEW n \in Requests, Search(c, n)
  PROVE  IInv'
<1> DEFINE h == FirstFit(Need(n))
           k == Need(n)
<1>1. /\ k >= Header /\ Fits(k) # {} /\ n # 0 /\ up
      /\ pick' = [pick EXCEPT ![c] = [block |-> h, request |-> n]]
      /\ up' = up /\ cap' = cap /\ used' = used /\ heap' = heap /\ held' = held
      /\ \A d \in Callers : pick[d] = NoPick
  BY Alone DEF Search
<1>2. k \in Nat
  BY <1>1, NeedType
<1>3. Room
  <2>1. SUFFICES ASSUME ~ Room PROVE FALSE
    OBVIOUS
  <2>2. heap.list = << >>
    BY <2>1 DEF IInv, Story, Formatted
  <2>3. QED BY <1>1, <2>2 DEF Fits
<1>4. h \in heap.free /\ heap.size[h] >= k
  BY <1>1, <1>2, <1>3, FirstFits
<1>5. h \in Nat
  BY <1>3, <1>4 DEF IInv, Story, Sound, Shape
<1> HIDE DEF h
<1>6. Shapes'
  BY <1>1, <1>5 DEF IInv, Shapes
<1>7. Story' /\ Needs' /\ Aligned'
  BY <1>1 DEF IInv, Story, Needs, Aligned, Room, Sound, Shape, Tiled, BackLinked,
              Apart, NextBlock, Links, Blocks, Null
<1>8. Picks'
  <2>1. pick'[c] = [block |-> h, request |-> n]
    BY <1>1 DEF IInv, Shapes
  <2>2. \A d \in Callers : d # c => pick'[d] = NoPick
    BY <1>1 DEF IInv, Shapes
  <2>3. ASSUME NEW d \in Callers, pick'[d] # NoPick PROVE d = c
    BY <2>2, <2>3
  <2>4. /\ Room' /\ pick'[c].block \in heap'.free /\ pick'[c].request \in Requests \ {0}
        /\ Need(pick'[c].request) >= Header
        /\ heap'.size[pick'[c].block] >= Need(pick'[c].request)
    BY <1>1, <1>3, <1>4, <2>1 DEF Room
  <2>5. QED BY <2>2, <2>3, <2>4 DEF Picks, Need, AlignUp
<1>9. QED BY <1>6, <1>7, <1>8 DEF IInv

(* The block an Allocate() under way has found. *)
LEMMA Picked ==
  ASSUME PoolAssumption, IInv, NEW c \in Callers, pick[c].block # Null
  PROVE  /\ Room /\ Sizes /\ Sound(heap) /\ Links(heap.list, heap.free) /\ Apart(heap)
         /\ pick[c].block \in heap.free /\ pick[c].block \in Blocks(heap)
         /\ pick[c].block \in Nat
         /\ pick[c].request \in Requests \ {0}
         /\ Need(pick[c].request) \in Nat /\ Need(pick[c].request) >= Header
         /\ heap.size[pick[c].block] >= Need(pick[c].request)
         /\ heap.size[pick[c].block] \in Nat
         /\ \A d \in Callers : d # c => pick[d] = NoPick
<1>1. pick[c] # NoPick
  BY DEF NoPick
<1>2. /\ Room /\ pick[c].block \in heap.free /\ pick[c].request \in Requests \ {0}
      /\ Need(pick[c].request) >= Header
      /\ heap.size[pick[c].block] >= Need(pick[c].request)
      /\ \A d \in Callers : d # c => pick[d] = NoPick
  BY <1>1 DEF IInv, Picks
<1>3. Sound(heap) /\ Links(heap.list, heap.free) /\ Apart(heap)
  BY <1>2 DEF IInv, Story
<1>4. pick[c].block \in Blocks(heap) /\ pick[c].block \in Nat
      /\ heap.size[pick[c].block] \in Nat
  BY <1>2, <1>3 DEF Sound, Shape
<1>5. Sizes
  BY IInvSizes DEF IInv
<1>6. Need(pick[c].request) \in Nat
  BY <1>2, NeedType
<1>7. QED BY <1>2, <1>3, <1>4, <1>5, <1>6

(* Handing out the block that has become used. *)
LEMMA HandOutKeeps ==
  ASSUME PoolAssumption, IInv, NEW c \in Callers, NEW h, h = pick[c].block, h # Null,
         HandOut(c), used' \in Int,
         Sound(heap'), Links(heap'.list, heap'.free), Apart(heap'),
         Blocks(heap') \ heap'.free = (Blocks(heap) \ heap.free) \cup {h},
         heap'.size[h] >= Need(pick[c].request),
         \A a \in Blocks(heap) \ heap.free : heap'.size[a] = heap.size[a],
         \A a \in Blocks(heap') : \E k \in Nat : a = k * Align
  PROVE  IInv'
<1> DEFINE n == pick[c].request
           ptr == h + Header
<1>1. /\ Room /\ h \in Nat /\ h \in heap.free /\ n \in Requests \ {0}
      /\ Need(n) >= Header /\ Sizes
      /\ \A d \in Callers : d # c => pick[d] = NoPick
  BY Picked
<1>2. /\ held' = [p \in DOMAIN held \cup {ptr} |-> IF p = ptr THEN n ELSE held[p]]
      /\ pick' = [pick EXCEPT ![c] = NoPick] /\ up' = up /\ cap' = cap
  BY DEF HandOut
<1>3. /\ pick \in [Callers -> [block : Nat \cup {Null}, request : Requests \cup {0}]]
      /\ held \in [DOMAIN held -> Requests \ {0}] /\ DOMAIN held \subseteq Nat
      /\ up \in BOOLEAN /\ cap \in Capacities \cup {0}
  BY DEF IInv, Shapes
<1> HIDE DEF n
<1>4. /\ pick' \in [Callers -> [block : Nat \cup {Null}, request : Requests \cup {0}]]
      /\ \A d \in Callers : pick'[d] = NoPick
  <2>1. NoPick \in [block : Nat \cup {Null}, request : Requests \cup {0}]
    BY DEF NoPick
  <2> DEFINE T == [block : Nat \cup {Null}, request : Requests \cup {0}]
  <2> HIDE DEF T
  <2>2. pick \in [Callers -> T] /\ NoPick \in T
    BY <1>3, <2>1 DEF T
  <2>3. pick' \in [Callers -> T]
    BY <1>2, <2>2
  <2>4. \A d \in Callers : pick'[d] = NoPick
    BY <1>1, <1>2, <2>2
  <2>5. QED BY <2>3, <2>4 DEF T
<1>5. /\ held' \in [DOMAIN held' -> Requests \ {0}] /\ DOMAIN held' \subseteq Nat
      /\ DOMAIN held' = DOMAIN held \cup {ptr} /\ ptr \in Nat
      /\ held'[ptr] = n /\ \A p \in DOMAIN held \ {ptr} : held'[p] = held[p]
  <2>1. ptr \in Nat
    BY <1>1 DEF Sizes
  <2>2. QED BY <1>1, <1>2, <1>3, <2>1
<1>6. Shapes'
  BY <1>2, <1>3, <1>4, <1>5 DEF Shapes
<1>7. Picks'
  BY <1>4 DEF Picks
<1>8. ptr - Header = h
  BY <1>1 DEF Sizes
<1>9. Blocks(heap) \ heap.free = {p - Header : p \in DOMAIN held}
  BY <1>1 DEF IInv, Story
<1>10. Blocks(heap') \ heap'.free = {p - Header : p \in DOMAIN held'}
  BY <1>5, <1>8, <1>9
<1>11. Story'
  <2>1. Room'
    BY <1>1, <1>2 DEF Room
  <2>2. Sound(heap)' /\ Links(heap.list, heap.free)' /\ Apart(heap)'
        /\ Blocks(heap)' = Blocks(heap')
    BY <1>2, SameBuffer
  <2>3. QED BY <1>10, <2>1, <2>2 DEF Story
<1>12. Needs'
  <2>1. SUFFICES ASSUME NEW p \in DOMAIN held'
                 PROVE  Need(held'[p]) >= Header /\ heap'.size[p - Header] >= Need(held'[p])
    BY DEF Needs, Need, AlignUp
  <2>2. CASE p = ptr
    BY <1>1, <1>5, <1>8, <2>2 DEF n
  <2>3. CASE p # ptr
    <3>1. p \in DOMAIN held /\ held'[p] = held[p]
      BY <1>5, <2>3
    <3>2. p - Header \in Blocks(heap) \ heap.free
      BY <1>9, <3>1
    <3>3. Need(held[p]) >= Header /\ heap.size[p - Header] >= Need(held[p])
      BY <3>1 DEF IInv, Needs
    <3>4. QED BY <3>1, <3>2, <3>3
  <2>4. QED BY <2>2, <2>3
<1>13. Aligned'
  BY DEF Aligned, Blocks
<1>14. QED BY <1>6, <1>7, <1>11, <1>12, <1>13 DEF IInv

(* Sums and multiples of the alignment. *)
LEMMA AlignUpMultiple ==
  ASSUME PoolAssumption, NEW n \in Requests, Need(n) >= Header
  PROVE  /\ Need(n) = Header + AlignUp(n)
         /\ \E k \in Nat : Need(n) = k * Align
<1> DEFINE x == (n + Align - 1) % Word
           q == x \div Align
<1>1. /\ n \in Nat /\ Align \in Nat \ {0} /\ Word \in Nat \ {0} /\ Header \in Nat
      /\ n + Align - 1 \in Nat /\ Header % Align = 0
  BY DEF PoolAssumption
<1>2. x \in Nat /\ x < Word
  BY <1>1, DivMod
<1> HIDE DEF x
<1>3. q \in Nat /\ x = Align * q + (x % Align) /\ x % Align \in Nat
  BY <1>1, <1>2, DivMod
<1>4. AlignUp(n) = q * Align
  BY DEF AlignUp, x
<1> HIDE DEF q
<1>5. q * Align \in Nat /\ q * Align <= x
  BY <1>1, <1>2, <1>3
<1> DEFINE a == AlignUp(n)
<1>6. a \in Nat /\ a < Word
  BY <1>1, <1>2, <1>4, <1>5
<1> HIDE DEF a
<1>7. Need(n) = (Header + a) % Word
  BY DEF Need, a
<1>8. Need(n) = Header + a
  <2> DEFINE y == Header + a
             d == y \div Word
  <2>0. y \in Nat /\ y = Header + a /\ Need(n) = y % Word
    BY <1>1, <1>6, <1>7
  <2> HIDE DEF y
  <2>1. /\ d \in Nat /\ Header + a = Word * d + Need(n) /\ Need(n) \in Nat
    <3>1. d \in Nat /\ y % Word \in 0 .. Word - 1 /\ y = Word * d + (y % Word)
      BY <1>1, <2>0, DivMod
    <3>2. QED BY <1>1, <2>0, <3>1
  <2> HIDE DEF d
  <2>2. Word * d <= a
    BY <1>1, <1>6, <2>1
  <2>3. d = 0
    <3>1. SUFFICES ASSUME d >= 1 PROVE FALSE
      BY <2>1
    <3>2. Word * d >= Word
      BY <1>1, <2>1, <3>1
    <3>3. QED BY <1>1, <1>6, <2>1, <2>2, <3>2
  <2>4. QED BY <1>1, <1>6, <2>1, <2>3
<1>9. Header = Align * (Header \div Align) /\ Header \div Align \in Nat
  BY <1>1, DivMod
<1>10. Need(n) = ((Header \div Align) + q) * Align
  BY <1>1, <1>3, <1>4, <1>8, <1>9 DEF a
<1>11. QED BY <1>3, <1>8, <1>9, <1>10 DEF a

LEMMA SplitStepKeeps ==
  ASSUME PoolAssumption, IInv, NEW c \in Callers, Split(c)
  PROVE  IInv'
<1> DEFINE h == pick[c].block
           k == Need(pick[c].request)
<1>1. /\ h # Null /\ heap.size[h] - k >= Header
      /\ heap' = InsertFreeList(Divide(MarkUsed(RemoveFreeList(heap, h), h), h, k), h + k)
      /\ used' = used + k /\ HandOut(c)
  BY DEF Split
<1>2. /\ Sizes /\ Sound(heap) /\ Links(heap.list, heap.free) /\ Apart(heap)
      /\ h \in heap.free /\ h \in Blocks(heap) /\ h \in Nat
      /\ pick[c].request \in Requests /\ k \in Nat /\ k >= Header
  BY <1>1, Picked
<1>3. used' \in Int
  BY <1>1, <1>2 DEF IInv, Shapes
<1>4. \E j \in Nat : k = j * Align
  BY <1>2, AlignUpMultiple
<1> HIDE DEF h, k
<1>5. /\ Sound(heap') /\ Links(heap'.list, heap'.free) /\ Apart(heap')
      /\ Blocks(heap') = Blocks(heap) \cup {h + k}
      /\ Blocks(heap') \ heap'.free = (Blocks(heap) \ heap.free) \cup {h}
      /\ heap'.size[h] = k
      /\ \A a \in Blocks(heap) \ {h} : heap'.size[a] = heap.size[a]
  BY <1>1, <1>2, SplitKeeps
<1>6. \A a \in Blocks(heap') : \E j \in Nat : a = j * Align
  <2>1. \A a \in Blocks(heap) : \E j \in Nat : a = j * Align
    BY DEF IInv, Aligned
  <2>2. PICK i \in Nat, j \in Nat : h = i * Align /\ k = j * Align
    BY <1>2, <1>4, <2>1
  <2>3. h + k = (i + j) * Align
    BY <2>2 DEF PoolAssumption
  <2>4. QED BY <1>5, <2>1, <2>3
<1>7. /\ heap'.size[h] >= k
      /\ \A a \in Blocks(heap) \ heap.free : heap'.size[a] = heap.size[a]
  BY <1>2, <1>5
<1>8. QED BY <1>1, <1>3, <1>5, <1>6, <1>7, HandOutKeeps DEF h, k

LEMMA TakeWholeStepKeeps ==
  ASSUME PoolAssumption, IInv, NEW c \in Callers, TakeWhole(c)
  PROVE  IInv'
<1> DEFINE h == pick[c].block
           k == Need(pick[c].request)
<1>1. /\ h # Null /\ heap' = MarkUsed(RemoveFreeList(heap, h), h)
      /\ used' = used + heap.size[h] /\ HandOut(c)
  BY DEF TakeWhole
<1>2. /\ Sizes /\ Sound(heap) /\ Links(heap.list, heap.free) /\ Apart(heap)
      /\ h \in heap.free /\ h \in Blocks(heap) /\ heap.size[h] >= k
      /\ heap.size[h] \in Nat
  BY <1>1, Picked
<1>3. used' \in Int
  BY <1>1, <1>2 DEF IInv, Shapes
<1> HIDE DEF h, k
<1>4. /\ Sound(heap') /\ Links(heap'.list, heap'.free) /\ Apart(heap')
      /\ heap'.free = heap.free \ {h} /\ Blocks(heap') = Blocks(heap)
      /\ SameBlocks(heap', heap)
  BY <1>1, <1>2, TakeKeeps
<1>5. /\ heap'.size = heap.size
      /\ Blocks(heap') \ heap'.free = (Blocks(heap) \ heap.free) \cup {h}
  BY <1>2, <1>4 DEF SameBlocks
<1>6. \A a \in Blocks(heap') : \E j \in Nat : a = j * Align
  BY <1>4 DEF IInv, Aligned
<1>7. QED BY <1>1, <1>2, <1>3, <1>4, <1>5, <1>6, HandOutKeeps DEF h, k

LEMMA FreeStepKeeps ==
  ASSUME PoolAssumption, Exclusive = TRUE, IInv,
         NEW c \in Callers, NEW p \in DOMAIN held, Free(c, p)
  PROVE  IInv'
<1> DEFINE h == p - Header
<1>1. /\ heap' = MergePrev(MergeNext(MarkFree(heap, h), h), h)
      /\ used' = used - heap.size[h]
      /\ held' = [q \in DOMAIN held \ {p} |-> held[q]]
      /\ up' = up /\ cap' = cap /\ pick' = pick
      /\ \A d \in Callers : pick[d] = NoPick
  BY Alone DEF Free
<1>2. Room
  BY DEF IInv, Story, Nothing
<1>3. /\ Sizes /\ Sound(heap) /\ Links(heap.list, heap.free) /\ Apart(heap)
      /\ Blocks(heap) \ heap.free = {q - Header : q \in DOMAIN held}
  BY <1>2, IInvSizes DEF IInv, Story
<1>4. h \in Blocks(heap) \ heap.free
  BY <1>3
<1>5. /\ held \in [DOMAIN held -> Requests \ {0}] /\ DOMAIN held \subseteq Nat
      /\ used \in Int /\ heap.size[h] \in Nat
  BY <1>3, <1>4 DEF IInv, Shapes, Sound, Shape
<1> HIDE DEF h
<1>6. /\ Sound(heap') /\ Links(heap'.list, heap'.free) /\ Apart(heap')
      /\ Blocks(heap') \ heap'.free = (Blocks(heap) \ heap.free) \ {h}
      /\ \A a \in Blocks(heap') \ heap'.free : heap'.size[a] = heap.size[a]
      /\ Blocks(heap') \subseteq Blocks(heap)
  BY <1>1, <1>3, <1>4, FreeKeeps
<1>8. /\ DOMAIN held' = DOMAIN held \ {p}
      /\ \A q \in DOMAIN held' : held'[q] = held[q]
  BY <1>1
<1>9. Shapes'
  BY <1>1, <1>5, <1>8 DEF IInv, Shapes
<1>10. Picks'
  BY <1>1 DEF Picks
<1>11. Blocks(heap') \ heap'.free = {q - Header : q \in DOMAIN held'}
  <2>1. \A q \in DOMAIN held : q - Header = h => q = p
    BY <1>3, <1>5 DEF h, Sizes
  <2>2. QED BY <1>3, <1>6, <1>8, <2>1 DEF h
<1>12. Story'
  <2>1. Room'
    BY <1>1, <1>2 DEF Room
  <2>2. Sound(heap)' /\ Links(heap.list, heap.free)' /\ Apart(heap)'
        /\ Blocks(heap)' = Blocks(heap')
    BY <1>1, <1>6, SameBuffer
  <2>3. QED BY <1>11, <2>1, <2>2 DEF Story
<1>13. Needs'
  <2>1. SUFFICES ASSUME NEW q \in DOMAIN held'
                 PROVE  Need(held'[q]) >= Header /\ heap'.size[q - Header] >= Need(held'[q])
    BY DEF Needs, Need, AlignUp
  <2>2. q - Header \in Blocks(heap') \ heap'.free
    BY <1>11
  <2>3. Need(held[q]) >= Header /\ heap.size[q - Header] >= Need(held[q])
    BY <1>8 DEF IInv, Needs
  <2>4. QED BY <1>6, <1>8, <2>2, <2>3
<1>14. Aligned'
  BY <1>6 DEF IInv, Aligned, Blocks
<1>15. QED BY <1>9, <1>10, <1>12, <1>13, <1>14 DEF IInv

(* Every step of the pool keeps the invariant. *)
LEMMA NextKeeps ==
  ASSUME PoolAssumption, Even, Exclusive = TRUE, IInv, [Next]_vars
  PROVE  IInv'
<1>1. Shapes
  BY DEF IInv
<1>2. ASSUME NEW b \in BOOLEAN, NEW n \in Capacities, PoolInit(b, n) PROVE IInv'
  <2>1. up' = b /\ cap' = n /\ Restarted(b, n)
    BY <1>2 DEF PoolInit
  <2>2. up' \in BOOLEAN /\ cap' \in Capacities \cup {0} /\ Restarted(up', cap')
    BY <2>1
  <2>3. QED BY <1>1, <2>2, RestartKeeps
<1>3. CASE Deinit
  <2>1. up' = FALSE /\ cap' = 0 /\ Restarted(FALSE, 0)
    BY <1>3 DEF Deinit
  <2>2. up' \in BOOLEAN /\ cap' \in Capacities \cup {0} /\ Restarted(up', cap')
    BY <2>1
  <2>3. QED BY <1>1, <2>2, RestartKeeps
<1>4. CASE Reset
  <2>1. up' = up /\ cap' = cap /\ Restarted(up, cap)
    BY <1>4 DEF Reset
  <2>2. up' \in BOOLEAN /\ cap' \in Capacities \cup {0} /\ Restarted(up', cap')
    BY <1>1, <2>1 DEF Shapes
  <2>3. QED BY <1>1, <2>2, RestartKeeps
<1>5. ASSUME NEW c \in Callers, NEW n \in Requests, Search(c, n) PROVE IInv'
  BY <1>5, SearchKeeps
<1>6. ASSUME NEW c \in Callers, Split(c) PROVE IInv'
  BY <1>6, SplitStepKeeps
<1>7. ASSUME NEW c \in Callers, TakeWhole(c) PROVE IInv'
  BY <1>7, TakeWholeStepKeeps
<1>8. ASSUME NEW c \in Callers, NEW p \in DOMAIN held, Free(c, p) PROVE IInv'
  BY <1>8, FreeStepKeeps
<1>9. CASE UNCHANGED vars
  BY <1>9 DEF vars, IInv, Shapes, Story, Picks, Needs, Aligned, Room, Sound, Shape,
              Tiled, BackLinked, Apart, NextBlock, Links, Blocks, Null, Need, AlignUp
<1>10. QED
  BY <1>2, <1>3, <1>4, <1>5, <1>6, <1>7, <1>8, <1>9 DEF Next, FreeIgnored

LEMMA InitHolds ==
  ASSUME PoolAssumption, Init
  PROVE  IInv
<1>1. /\ up = FALSE /\ cap = 0 /\ used = 0 /\ heap = Formatted(FALSE, 0)
      /\ held = Nothing /\ pick = [c \in Callers |-> NoPick]
  BY DEF Init
<1>2. DOMAIN held = {} /\ Blocks(heap) = {}
  BY <1>1 DEF Nothing, Formatted, Blocks
<1>3. Shapes
  <2>1. held \in [DOMAIN held -> Requests \ {0}] /\ DOMAIN held \subseteq Nat
    BY <1>1, <1>2 DEF Nothing
  <2>2. NoPick \in [block : Nat \cup {Null}, request : Requests \cup {0}]
    BY DEF NoPick
  <2>3. pick \in [Callers -> [block : Nat \cup {Null}, request : Requests \cup {0}]]
    BY <1>1, <2>2
  <2>4. up \in BOOLEAN
    BY <1>1, Zenon
  <2>5. cap \in Capacities \cup {0} /\ used \in Int
    <3>1. cap = 0 /\ used = 0
      BY <1>1
    <3>2. QED BY <3>1
  <2>6. QED BY <2>1, <2>3, <2>4, <2>5 DEF Shapes
<1>4. Story
  BY <1>1 DEF Story, Room
<1>5. Picks /\ Needs /\ Aligned
  BY <1>1, <1>2 DEF Picks, Needs, Aligned
<1>6. QED BY <1>3, <1>4, <1>5 DEF IInv

-----------------------------------------------------------------------------
(* Sums.  A sum is defined by recursion on its length, so what holds of     *)
(* every length is proved of the shortest one for which it would fail.      *)

Integral(weight, n) == \A a \in 0 .. n : weight[a] \in Int

(* The partial sums of the first n weights. *)
PartialSums(sum, weight, n) ==
  sum = [k \in 0 .. n |-> IF k = 0 THEN 0 ELSE sum[k - 1] + weight[k - 1]]

LEMMA SumExists ==
  ASSUME NEW n \in Nat, NEW weight, Integral(weight, n)
  PROVE  \E sum \in [0 .. n -> Int] : PartialSums(sum, weight, n)
<1> DEFINE Has(m) == \E sum \in [0 .. m -> Int] : PartialSums(sum, weight, m)
           Done == {m \in 0 .. n : Has(m)}
<1>1. Has(0)
  <2> DEFINE sum == [k \in 0 .. 0 |-> 0]
  <2>1. sum \in [0 .. 0 -> Int] /\ PartialSums(sum, weight, 0)
    BY DEF PartialSums
  <2>2. QED BY <2>1
<1>2. ASSUME NEW m \in 1 .. n, Has(m - 1) PROVE Has(m)
  <2>1. PICK s \in [0 .. m - 1 -> Int] : PartialSums(s, weight, m - 1)
    BY <1>2
  <2> DEFINE sum == [k \in 0 .. m |-> IF k = m THEN s[m - 1] + weight[m - 1] ELSE s[k]]
  <2>2. \A k \in 0 .. m - 1 : s[k] = IF k = 0 THEN 0 ELSE s[k - 1] + weight[k - 1]
    BY <2>1 DEF PartialSums
  <2>3. sum \in [0 .. m -> Int]
    <3>1. s[m - 1] \in Int /\ weight[m - 1] \in Int
      BY DEF Integral
    <3>2. \A k \in 0 .. m : k # m => s[k] \in Int
      OBVIOUS
    <3>3. QED BY <3>1, <3>2
  <2>4. \A k \in 0 .. m : sum[k] = IF k = 0 THEN 0 ELSE sum[k - 1] + weight[k - 1]
    BY <2>2
  <2> HIDE DEF sum
  <2>5. PartialSums(sum, weight, m)
    BY <2>3, <2>4 DEF PartialSums
  <2>6. QED BY <2>3, <2>5
<1> HIDE DEF Has
<1>3. \A m \in 0 .. n : m \in Done
  <2>1. 0 \in Done /\ \A m \in 1 .. n : m - 1 \in Done => m \in Done
    BY <1>1, <1>2
  <2> HIDE DEF Done
  <2>2. QED BY <2>1, Reached
<1>4. QED BY <1>3 DEF Has

(* What SumBelow is: the last of the partial sums. *)
LEMMA SumTable ==
  ASSUME NEW n \in Nat, NEW weight, Integral(weight, n)
  PROVE  \E sum :
           /\ sum[0] = 0 /\ SumBelow(weight, n) = sum[n] /\ Integral(sum, n)
           /\ \A k \in 1 .. n : sum[k] = sum[k - 1] + weight[k - 1]
<1> DEFINE sum == CHOOSE s : PartialSums(s, weight, n)
           Done == {k \in 0 .. n : sum[k] \in Int}
<1>1. PartialSums(sum, weight, n)
  BY SumExists
<1>2. SumBelow(weight, n) = sum[n]
  BY DEF SumBelow, PartialSums
<1> HIDE DEF sum
<1>3. sum = [k \in 0 .. n |-> IF k = 0 THEN 0 ELSE sum[k - 1] + weight[k - 1]]
  BY <1>1 DEF PartialSums
<1>4. \A k \in 0 .. n : sum[k] = IF k = 0 THEN 0 ELSE sum[k - 1] + weight[k - 1]
  BY <1>3
<1>5. \A k \in 0 .. n : k \in Done
  <2>1. 0 \in Done
    BY <1>4
  <2>2. ASSUME NEW m \in 1 .. n, m - 1 \in Done PROVE m \in Done
    <3>1. sum[m] = sum[m - 1] + weight[m - 1] /\ weight[m - 1] \in Int
      BY <1>4 DEF Integral
    <3>2. QED BY <2>2, <3>1
  <2> HIDE DEF Done
  <2>3. QED BY <2>1, <2>2, Reached
<1>6. Integral(sum, n)
  BY <1>5 DEF Integral
<1>7. sum[0] = 0 /\ \A k \in 1 .. n : sum[k] = sum[k - 1] + weight[k - 1]
  BY <1>4
<1>8. QED BY <1>2, <1>6, <1>7

(* Another weight at h changes the sum by as much. *)
LEMMA SumUpdate ==
  ASSUME NEW n \in Nat, NEW v, Integral(v, n), NEW w, Integral(w, n),
         NEW h \in 0 .. n, h < n, \A a \in 0 .. n : a # h => w[a] = v[a]
  PROVE  SumBelow(w, n) = SumBelow(v, n) + (w[h] - v[h])
<1>1. PICK s : /\ s[0] = 0 /\ SumBelow(v, n) = s[n] /\ Integral(s, n)
               /\ \A k \in 1 .. n : s[k] = s[k - 1] + v[k - 1]
  BY SumTable
<1>2. PICK t : /\ t[0] = 0 /\ SumBelow(w, n) = t[n] /\ Integral(t, n)
               /\ \A k \in 1 .. n : t[k] = t[k - 1] + w[k - 1]
  BY SumTable
<1> DEFINE Done == {k \in 0 .. n : t[k] = s[k] + (IF k > h THEN w[h] - v[h] ELSE 0)}
<1>3. 0 \in Done
  BY <1>1, <1>2
<1>4. ASSUME NEW m \in 1 .. n, m - 1 \in Done PROVE m \in Done
  <2>1. /\ t[m] = t[m - 1] + w[m - 1] /\ s[m] = s[m - 1] + v[m - 1]
        /\ t[m - 1] = s[m - 1] + (IF m - 1 > h THEN w[h] - v[h] ELSE 0)
        /\ m - 1 \in 0 .. n
    BY <1>1, <1>2, <1>4
  <2>2. /\ s[m - 1] \in Int /\ s[m] \in Int /\ t[m - 1] \in Int /\ t[m] \in Int
        /\ w[m - 1] \in Int /\ v[m - 1] \in Int /\ w[h] \in Int /\ v[h] \in Int
    BY <1>1, <1>2, <2>1 DEF Integral
  <2>3. CASE m - 1 = h
    BY <2>1, <2>2, <2>3
  <2>4. CASE m - 1 # h
    <3>1. w[m - 1] = v[m - 1]
      BY <2>1, <2>4
    <3>2. QED BY <2>1, <2>2, <2>4, <3>1
  <2>5. QED BY <2>3, <2>4
<1>5. n \in Done
  <2>1. n \in 0 .. n
    OBVIOUS
  <2> HIDE DEF Done
  <2>2. QED BY <1>3, <1>4, <2>1, Reached
<1>6. QED BY <1>1, <1>2, <1>5

LEMMA SumZero ==
  ASSUME NEW n \in Nat, NEW w, \A a \in 0 .. n : w[a] = 0
  PROVE  SumBelow(w, n) = 0
<1>1. PICK s : /\ s[0] = 0 /\ SumBelow(w, n) = s[n] /\ Integral(s, n)
               /\ \A k \in 1 .. n : s[k] = s[k - 1] + w[k - 1]
  BY SumTable DEF Integral
<1> DEFINE Done == {k \in 0 .. n : s[k] = 0}
<1>2. 0 \in Done
  BY <1>1
<1>3. ASSUME NEW m \in 1 .. n, m - 1 \in Done PROVE m \in Done
  <2>1. s[m] = s[m - 1] + w[m - 1] /\ m - 1 \in 0 .. n /\ s[m - 1] = 0
    BY <1>1, <1>3
  <2>2. QED BY <2>1
<1>4. n \in Done
  <2>1. n \in 0 .. n
    OBVIOUS
  <2> HIDE DEF Done
  <2>2. QED BY <1>2, <1>3, <2>1, Reached
<1>5. QED BY <1>1, <1>4

(* Blocks that do not overlap have no more bytes together than there are up
   to the end of the last: up to an address, no more than up to the end of
   the block the address lies in. *)
LEMMA SumFits ==
  ASSUME NEW n \in Nat, NEW w, NEW B, NEW size,
         \A a \in B : a \in Nat /\ size[a] \in Nat /\ a + size[a] <= n,
         \A a, b \in B : a < b => a + size[a] <= b,
         \A a \in 0 .. n : w[a] = 0 \/ (a \in B /\ w[a] = size[a])
  PROVE  SumBelow(w, n) \in 0 .. n
<1>1. Integral(w, n)
  BY DEF Integral
<1>2. PICK s : /\ s[0] = 0 /\ SumBelow(w, n) = s[n] /\ Integral(s, n)
               /\ \A k \in 1 .. n : s[k] = s[k - 1] + w[k - 1]
  BY <1>1, SumTable
<1> DEFINE Fine(k) == /\ s[k] >= 0
                      /\ s[k] <= k \/ (\E a \in B : a < k /\ s[k] <= a + size[a])
           Done == {k \in 0 .. n : Fine(k)}
<1>3. Fine(0)
  BY <1>2
<1>4. ASSUME NEW m \in 1 .. n, Fine(m - 1) PROVE Fine(m)
  <2>1. /\ s[m] = s[m - 1] + w[m - 1] /\ s[m - 1] \in Int /\ m - 1 \in 0 .. n
    BY <1>2 DEF Integral
  <2>2. CASE w[m - 1] = 0
    BY <1>4, <2>1, <2>2
  <2>3. CASE m - 1 \in B /\ w[m - 1] = size[m - 1]
    <3>1. \A a \in B : a < m - 1 => a + size[a] <= m - 1
      BY <2>3
    <3>2. s[m - 1] <= m - 1
      BY <1>4, <2>1, <3>1
    <3>3. s[m] <= (m - 1) + size[m - 1] /\ size[m - 1] \in Nat
      BY <2>1, <2>3, <3>2
    <3>4. s[m] >= 0
      BY <1>4, <2>1, <2>3, <3>3
    <3>5. QED BY <2>3, <3>3, <3>4
  <2>4. QED BY <2>1, <2>2, <2>3
<1>5. Fine(n)
  <2> HIDE DEF Fine
  <2>1. 0 \in Done /\ n \in 0 .. n
    BY <1>3
  <2>2. \A m \in 1 .. n : m - 1 \in Done => m \in Done
    BY <1>4
  <2>3. n \in Done
    <3> HIDE DEF Done
    <3>1. QED BY <2>1, <2>2, Reached
  <2>4. QED BY <2>3
<1>6. s[n] \in Int
  BY <1>2 DEF Integral
<1>7. QED BY <1>2, <1>5, <1>6

-----------------------------------------------------------------------------
(* The account.                                                            *)

LEMMA UsedFits ==
  ASSUME PoolAssumption, IInv
  PROVE  /\ cap \in Nat /\ Integral(UsedAt(heap), cap)
         /\ SumBelow(UsedAt(heap), cap) \in 0 .. cap
         /\ \A a \in Blocks(heap) \ heap.free :
              a \in Nat /\ a < cap /\ heap.size[a] \in Nat
<1>1. PICK n, w, B, size : /\ n = cap /\ w = UsedAt(heap)
                           /\ B = Blocks(heap) /\ size = heap.size
  OBVIOUS
<1>2. Sizes /\ n \in Nat
  BY <1>1, IInvSizes DEF IInv, Sizes
<1>3. /\ \A a \in B : /\ a \in Nat /\ size[a] \in Nat /\ size[a] > 0
                      /\ a + size[a] <= n
      /\ \A a, b \in B : a < b => a + size[a] <= b
  <2>1. CASE Room
    BY <1>1, <1>2, <2>1, SMTT(30) DEF IInv, Story, Sound, Shape, Tiled, Sizes
  <2>2. CASE ~ Room
    BY <1>1, <2>2 DEF IInv, Story, Formatted, Blocks
  <2>3. QED BY <2>1, <2>2
<1>4. \A a \in 0 .. n : w[a] = 0 \/ (a \in B /\ w[a] = size[a])
  BY <1>1 DEF UsedAt
<1>5. Integral(w, n)
  BY <1>3, <1>4 DEF Integral
<1>6. SumBelow(w, n) \in 0 .. n
  BY <1>2, <1>3, <1>4, SumFits
<1>7. QED BY <1>1, <1>2, <1>3, <1>5, <1>6

Account == used = SumBelow(UsedAt(heap), cap)

(* A block h that becomes used, or ceases to be, changes the account by its
   size. *)
LEMMA AccountChanges ==
  ASSUME cap \in Nat, cap' = cap, Account,
         Integral(UsedAt(heap), cap), Integral(UsedAt(heap), cap)',
         NEW h, h \in Nat, h < cap,
         used' = used + (UsedAt(heap)'[h] - UsedAt(heap)[h]),
         \A a \in Nat : a # h =>
           /\ a \in Blocks(heap) \ heap.free <=> a \in Blocks(heap') \ heap'.free
           /\ a \in Blocks(heap) \ heap.free => heap'.size[a] = heap.size[a]
  PROVE  Account'
<1>1. PICK n, v, w : n = cap /\ v = UsedAt(heap) /\ w = UsedAt(heap)'
  OBVIOUS
<1>2. /\ v = [a \in 0 .. n |->
                IF a \in Blocks(heap) \ heap.free THEN heap.size[a] ELSE 0]
      /\ w = [a \in 0 .. n |->
                IF a \in Blocks(heap') \ heap'.free THEN heap'.size[a] ELSE 0]
  BY <1>1 DEF UsedAt, Blocks
<1>3. /\ n \in Nat /\ Integral(v, n) /\ Integral(w, n)
      /\ h \in 0 .. n /\ h < n
  BY <1>1 DEF Integral
<1>4. \A a \in 0 .. n : a # h => w[a] = v[a]
  BY <1>2
<1>5. SumBelow(w, n) = SumBelow(v, n) + (w[h] - v[h])
  BY <1>3, <1>4, SumUpdate
<1>6. SumBelow(UsedAt(heap), cap)' = SumBelow(w, n)
  BY <1>1 DEF SumBelow
<1>7. QED BY <1>1, <1>5, <1>6 DEF Account

(* Init(), Deinit() and Reset() empty the account. *)
LEMMA RestartAccounts ==
  ASSUME PoolAssumption, IInv', Restarted(up', cap')
  PROVE  Account'
<1>1. /\ used' = 0 /\ heap' = Formatted(up', cap') /\ cap' \in Nat
  BY DEF Restarted, IInv, Shapes, PoolAssumption
<1>2. Blocks(heap') \ heap'.free = {}
  BY <1>1 DEF Formatted, Blocks
<1>3. PICK n, w : n = cap' /\ w = UsedAt(heap)'
  OBVIOUS
<1>4. w = [a \in 0 .. n |-> 0]
  BY <1>2, <1>3 DEF UsedAt, Blocks
<1>5. SumBelow(w, n) = 0
  BY <1>1, <1>3, <1>4, SumZero
<1>6. SumBelow(UsedAt(heap), cap)' = SumBelow(w, n)
  BY <1>3 DEF SumBelow
<1>7. QED BY <1>1, <1>5, <1>6 DEF Account

(* The weights after a step that keeps the buffer. *)
LEMMA UsedNext ==
  ASSUME PoolAssumption, IInv, cap' = cap,
         \A a \in Blocks(heap') \ heap'.free : a \in Nat /\ a < cap /\ heap'.size[a] \in Nat
  PROVE  Integral(UsedAt(heap), cap)'
<1>1. PICK n, w : n = cap /\ w = UsedAt(heap)'
  OBVIOUS
<1>2. w = [a \in 0 .. n |->
             IF a \in Blocks(heap') \ heap'.free THEN heap'.size[a] ELSE 0]
  BY <1>1 DEF UsedAt, Blocks
<1>3. \A a \in 0 .. n : w[a] \in Int
  BY <1>1, <1>2
<1>4. QED BY <1>1, <1>3 DEF Integral

(* What Allocate() takes enters the account, ... *)
LEMMA TakenAccounts ==
  ASSUME PoolAssumption, IInv, cap' = cap, Account, NEW h \in heap.free, NEW k \in Nat,
         h \in Nat, h < cap, used' = used + k, heap'.size[h] = k,
         heap.free \subseteq Blocks(heap),
         Blocks(heap') \ heap'.free = (Blocks(heap) \ heap.free) \cup {h},
         \A a \in Blocks(heap) \ heap.free : heap'.size[a] = heap.size[a]
  PROVE  Account'
<1>1. /\ cap \in Nat /\ Integral(UsedAt(heap), cap)
      /\ \A a \in Blocks(heap) \ heap.free : a \in Nat /\ a < cap /\ heap.size[a] \in Nat
  BY UsedFits
<1>2. Integral(UsedAt(heap), cap)'
  BY <1>1, UsedNext
<1>3. UsedAt(heap)[h] = 0 /\ UsedAt(heap)'[h] = k
  <2>1. PICK n, g : n = cap /\ g = heap'
    OBVIOUS
  <2>2. UsedAt(heap)' = [a \in 0 .. n |-> IF a \in Blocks(g) \ g.free THEN g.size[a] ELSE 0]
    BY <2>1 DEF UsedAt, Blocks
  <2>3. QED BY <1>1, <2>1, <2>2 DEF UsedAt, Blocks
<1>4. /\ used' = used + (UsedAt(heap)'[h] - UsedAt(heap)[h])
      /\ \A a \in Nat : a # h =>
           /\ a \in Blocks(heap) \ heap.free <=> a \in Blocks(heap') \ heap'.free
           /\ a \in Blocks(heap) \ heap.free => heap'.size[a] = heap.size[a]
  BY <1>3
<1>5. QED BY <1>1, <1>2, <1>4, AccountChanges

(* ... and what Free() gives back leaves it. *)
LEMMA FreedAccounts ==
  ASSUME PoolAssumption, IInv, cap' = cap, Account, NEW h \in Blocks(heap) \ heap.free,
         used \in Int, used' = used - heap.size[h],
         Blocks(heap') \ heap'.free = (Blocks(heap) \ heap.free) \ {h},
         \A a \in Blocks(heap') \ heap'.free : heap'.size[a] = heap.size[a]
  PROVE  Account'
<1>1. /\ cap \in Nat /\ Integral(UsedAt(heap), cap)
      /\ \A a \in Blocks(heap) \ heap.free : a \in Nat /\ a < cap /\ heap.size[a] \in Nat
  BY UsedFits
<1>2. Integral(UsedAt(heap), cap)'
  BY <1>1, UsedNext
<1>3. UsedAt(heap)[h] = heap.size[h] /\ UsedAt(heap)'[h] = 0
  <2>1. PICK n, g : n = cap /\ g = heap'
    OBVIOUS
  <2>2. UsedAt(heap)' = [a \in 0 .. n |-> IF a \in Blocks(g) \ g.free THEN g.size[a] ELSE 0]
    BY <2>1 DEF UsedAt, Blocks
  <2>3. QED BY <1>1, <2>1, <2>2 DEF UsedAt, Blocks
<1>4. /\ used' = used + (UsedAt(heap)'[h] - UsedAt(heap)[h])
      /\ \A a \in Nat : a # h =>
           /\ a \in Blocks(heap) \ heap.free <=> a \in Blocks(heap') \ heap'.free
           /\ a \in Blocks(heap) \ heap.free => heap'.size[a] = heap.size[a]
  BY <1>1, <1>3
<1>5. QED BY <1>1, <1>2, <1>4, AccountChanges

(* A block starts inside the buffer. *)
LEMMA BlockBelow ==
  ASSUME Sizes, NEW H, Sound(H), NEW a \in Blocks(H)
  PROVE  a < cap /\ H.free \subseteq Blocks(H)
<1>1. a \in Nat /\ H.size[a] \in Nat /\ H.size[a] >= Header
  BY Neighbours
<1>2. a + H.size[a] = cap \/ a + H.size[a] < cap
  BY DEF Sound, Tiled
<1>3. H.free \subseteq Blocks(H)
  BY DEF Sound, Shape
<1>4. a < cap
  BY <1>1, <1>2 DEF Sizes
<1>5. QED BY <1>3, <1>4

LEMMA SplitAccounts ==
  ASSUME PoolAssumption, IInv, Account, NEW c \in Callers, Split(c)
  PROVE  Account'
<1> DEFINE h == pick[c].block
           k == Need(pick[c].request)
<1>1. /\ h # Null /\ heap.size[h] - k >= Header
      /\ heap' = InsertFreeList(Divide(MarkUsed(RemoveFreeList(heap, h), h), h, k), h + k)
      /\ used' = used + k /\ cap' = cap
  BY DEF Split, HandOut
<1>2. /\ Sizes /\ Sound(heap) /\ Links(heap.list, heap.free) /\ Apart(heap)
      /\ h \in heap.free /\ h \in Blocks(heap) /\ h \in Nat
      /\ k \in Nat /\ k >= Header /\ heap.size[h] \in Nat
  BY <1>1, Picked
<1> HIDE DEF h, k
<1>3. /\ Blocks(heap') \ heap'.free = (Blocks(heap) \ heap.free) \cup {h}
      /\ heap'.size[h] = k
      /\ \A a \in Blocks(heap) \ {h} : heap'.size[a] = heap.size[a]
  BY <1>1, <1>2, SplitKeeps
<1>4. h < cap /\ heap.free \subseteq Blocks(heap)
  BY <1>2, BlockBelow
<1>5. \A a \in Blocks(heap) \ heap.free : heap'.size[a] = heap.size[a]
  BY <1>2, <1>3
<1>6. QED BY <1>1, <1>2, <1>3, <1>4, <1>5, TakenAccounts

LEMMA TakeWholeAccounts ==
  ASSUME PoolAssumption, IInv, Account, NEW c \in Callers, TakeWhole(c)
  PROVE  Account'
<1> DEFINE h == pick[c].block
<1>1. /\ h # Null /\ heap' = MarkUsed(RemoveFreeList(heap, h), h)
      /\ used' = used + heap.size[h] /\ cap' = cap
  BY DEF TakeWhole, HandOut
<1>2. /\ Sizes /\ Sound(heap) /\ Links(heap.list, heap.free) /\ Apart(heap)
      /\ h \in heap.free /\ h \in Blocks(heap) /\ h \in Nat /\ heap.size[h] \in Nat
  BY <1>1, Picked
<1> HIDE DEF h
<1>3. /\ heap'.free = heap.free \ {h} /\ Blocks(heap') = Blocks(heap)
      /\ heap'.size = heap.size
  BY <1>1, <1>2, TakeKeeps DEF SameBlocks
<1>4. h < cap /\ heap.free \subseteq Blocks(heap)
  BY <1>2, BlockBelow
<1>5. Blocks(heap') \ heap'.free = (Blocks(heap) \ heap.free) \cup {h}
  BY <1>2, <1>3
<1>6. QED BY <1>1, <1>2, <1>3, <1>4, <1>5, TakenAccounts

LEMMA FreeAccounts ==
  ASSUME PoolAssumption, IInv, Account,
         NEW c \in Callers, NEW p \in DOMAIN held, Free(c, p)
  PROVE  Account'
<1> DEFINE h == p - Header
<1>1. /\ heap' = MergePrev(MergeNext(MarkFree(heap, h), h), h)
      /\ used' = used - heap.size[h] /\ cap' = cap
  BY DEF Free
<1>2. Room
  BY DEF IInv, Story, Nothing
<1>3. /\ Sizes /\ Sound(heap) /\ Links(heap.list, heap.free) /\ Apart(heap)
      /\ h \in Blocks(heap) \ heap.free /\ used \in Int
  BY <1>2, IInvSizes DEF IInv, Story, Shapes
<1> HIDE DEF h
<1>4. /\ Blocks(heap') \ heap'.free = (Blocks(heap) \ heap.free) \ {h}
      /\ \A a \in Blocks(heap') \ heap'.free : heap'.size[a] = heap.size[a]
  BY <1>1, <1>3, FreeKeeps
<1>5. QED BY <1>1, <1>3, <1>4, FreedAccounts

(* Every step of the pool keeps the account. *)
LEMMA AccountKept ==
  ASSUME PoolAssumption, IInv, IInv', Account, [Next]_vars
  PROVE  Account'
<1>1. ASSUME cap' = cap, used' = used, heap' = heap PROVE Account'
  BY <1>1 DEF Account, SumBelow, UsedAt, Blocks
<1>2. ASSUME NEW b \in BOOLEAN, NEW n \in Capacities, PoolInit(b, n) PROVE Account'
  BY <1>2, RestartAccounts DEF PoolInit
<1>3. CASE Deinit
  BY <1>3, RestartAccounts DEF Deinit
<1>4. CASE Reset
  BY <1>4, RestartAccounts DEF Reset
<1>5. ASSUME NEW c \in Callers, NEW n \in Requests, Search(c, n) PROVE Account'
  BY <1>1, <1>5 DEF Search
<1>6. ASSUME NEW c \in Callers, Split(c) PROVE Account'
  BY <1>6, SplitAccounts
<1>7. ASSUME NEW c \in Callers, TakeWhole(c) PROVE Account'
  BY <1>7, TakeWholeAccounts
<1>8. ASSUME NEW c \in Callers, NEW p \in DOMAIN held, Free(c, p) PROVE Account'
  BY <1>8, FreeAccounts
<1>9. CASE UNCHANGED vars
  BY <1>1, <1>9 DEF vars
<1>10. QED
  BY <1>2, <1>3, <1>4, <1>5, <1>6, <1>7, <1>8, <1>9 DEF Next, FreeIgnored

LEMMA InitAccounts ==
  ASSUME Init
  PROVE  Account
<1>1. /\ cap = 0 /\ used = 0 /\ heap = Formatted(FALSE, 0)
  BY DEF Init
<1>2. PICK w : w = UsedAt(heap)
  OBVIOUS
<1>3. w = [a \in 0 .. 0 |-> 0]
  BY <1>1, <1>2 DEF UsedAt, Blocks, Formatted
<1>4. SumBelow(w, 0) = 0
  BY <1>3, SumZero
<1>5. QED BY <1>1, <1>2, <1>4 DEF Account

-----------------------------------------------------------------------------
(* What the invariant says to the callers.                                 *)

(* The sizes asked for do not come near the top of size_t.  The overflow
   guard of Allocate() comes after the sum that wraps, so that it cannot
   see the requests this excludes. *)
NoWrap == \A n \in Requests : n + Align - 1 < Word

LEMMA AlignUpCovers ==
  ASSUME PoolAssumption, NoWrap, NEW n \in Requests
  PROVE  AlignUp(n) >= n /\ AlignUp(n) \in Nat
<1> DEFINE x == n + Align - 1
           q == x \div Align
<1>1. /\ n \in Nat /\ Align \in Nat \ {0} /\ x \in Nat /\ Word \in Nat \ {0}
      /\ x \in 0 .. Word - 1 /\ x = n + Align - 1
  BY DEF PoolAssumption, NoWrap
<1> HIDE DEF x
<1>2. x % Word = x
  BY <1>1
<1>3. q \in Nat /\ x % Align \in 0 .. Align - 1 /\ x = Align * q + (x % Align)
  BY <1>1, DivMod
<1>4. AlignUp(n) = q * Align
  BY <1>2 DEF AlignUp, x
<1> HIDE DEF q
<1>5. q * Align \in Nat /\ q * Align = x - (x % Align)
  BY <1>1, <1>3
<1>6. QED BY <1>1, <1>3, <1>4, <1>5

(* The pointer behind a header. *)
LEMMA PointersAligned ==
  ASSUME PoolAssumption, IInv, NEW a \in Blocks(heap)
  PROVE  (a + Header) % Align = 0
<1>1. Header \in Nat /\ Align \in Nat \ {0}
  BY DEF PoolAssumption
<1>2. PICK k \in Nat : a = k * Align
  BY DEF IInv, Aligned
<1>3. PICK j \in Nat : Header = j * Align
  <2>1. Header % Align = 0 /\ Header = Align * (Header \div Align) + (Header % Align)
        /\ Header \div Align \in Nat
    BY <1>1, DivMod DEF PoolAssumption
  <2>2. Header = (Header \div Align) * Align
    BY <1>1, <2>1
  <2>3. QED BY <2>1, <2>2
<1>4. a + Header = (k + j) * Align
  BY <1>1, <1>2, <1>3
<1>5. k + j \in Nat
  OBVIOUS
<1>6. ((k + j) * Align) % Align = 0
  BY <1>1, <1>5, MultMod
<1>7. QED BY <1>4, <1>6

LEMMA TypesHold ==
  ASSUME PoolAssumption, IInv
  PROVE  TypeOK
<1>1. cap \in Nat /\ Null = -1
  BY DEF PoolAssumption, IInv, Shapes, Null
<1>2. Heap
  <2>1. CASE Room
    <3>1. Shape(heap) /\ Links(heap.list, heap.free)
      BY <2>1 DEF IInv, Story, Sound
    <3>2. heap.list \in Seq(Blocks(heap))
      <4>1. heap.list \in Seq(Nat) /\ \A i \in DOMAIN heap.list : heap.list[i] \in Blocks(heap)
        BY <3>1 DEF Links, Linked, Shape
      <4>2. DOMAIN heap.list = 1 .. Len(heap.list) /\ Len(heap.list) \in Nat
            /\ heap.list = [i \in 1 .. Len(heap.list) |-> heap.list[i]]
        BY <4>1
      <4>3. QED BY <4>1, <4>2
    <3>3. QED BY <3>1, <3>2 DEF Heap, Shape
  <2>2. CASE ~ Room
    <3>1. heap = Formatted(FALSE, 0)
      BY <2>2 DEF IInv, Story
    <3>2. /\ heap.size = [a \in {} |-> WithoutFlag(0)] /\ heap.prev = [a \in {} |-> Null]
          /\ heap.free = {} /\ heap.list = << >>
      BY <3>1 DEF Formatted
    <3>3. Blocks(heap) = {}
      BY <3>2 DEF Blocks
    <3>4. QED BY <3>2, <3>3 DEF Heap
  <2>3. QED BY <2>1, <2>2
<1>3. held \in [DOMAIN held -> Requests]
  <2>1. held \in [DOMAIN held -> Requests \ {0}]
    BY DEF IInv, Shapes
  <2>2. QED BY <2>1
<1>4. QED BY <1>1, <1>2, <1>3 DEF TypeOK, IInv, Shapes

LEMMA TilesHold ==
  ASSUME PoolAssumption, IInv
  PROVE  BlocksTile
BY DEF IInv, Story, Room, BlocksTile, Sound

LEMMA ListsHold ==
  ASSUME PoolAssumption, IInv
  PROVE  FreeListExact
<1>1. CASE Room
  <2>1. Links(heap.list, heap.free) /\ Blocks(heap) \ heap.free = {p - Header : p \in DOMAIN held}
    BY <1>1 DEF IInv, Story
  <2>2. {heap.list[i] : i \in DOMAIN heap.list} = heap.free
    BY <2>1 DEF Links, Linked
  <2>3. QED BY <2>1, <2>2 DEF FreeListExact, Links
<1>2. CASE ~ Room
  <2>1. heap = Formatted(FALSE, 0) /\ held = Nothing
    BY <1>2 DEF IInv, Story
  <2>2. heap.free = {} /\ heap.list = << >> /\ Blocks(heap) = {} /\ DOMAIN held = {}
    BY <2>1 DEF Formatted, Nothing, Blocks
  <2>3. QED BY <2>2 DEF FreeListExact, NoDuplicates
<1>3. QED BY <1>1, <1>2

LEMMA PicksHold ==
  ASSUME PoolAssumption, IInv
  PROVE  PickedStaysFree
<1>1. SUFFICES ASSUME NEW c \in Callers, pick[c].block # Null
               PROVE  pick[c].block \in heap.free
  BY DEF PickedStaysFree
<1>2. QED BY <1>1, Picked

LEMMA PayloadsHold ==
  ASSUME PoolAssumption, NoWrap, IInv
  PROVE  PayloadFits
<1>1. SUFFICES ASSUME NEW p \in DOMAIN held
               PROVE  /\ p % Align = 0 /\ p - Header \in Blocks(heap)
                      /\ held[p] + Header <= heap.size[p - Header]
  BY DEF PayloadFits
<1>2. Room
  BY <1>1 DEF IInv, Story, Nothing
<1>3. /\ p - Header \in Blocks(heap) /\ p \in Nat /\ held[p] \in Requests
      /\ heap.size[p - Header] \in Nat
  BY <1>1, <1>2 DEF IInv, Story, Shapes, Sound, Shape
<1>4. Need(held[p]) >= Header /\ heap.size[p - Header] >= Need(held[p])
  BY <1>1 DEF IInv, Needs
<1>5. Need(held[p]) = Header + AlignUp(held[p])
  BY <1>3, <1>4, AlignUpMultiple
<1>6. AlignUp(held[p]) >= held[p] /\ AlignUp(held[p]) \in Nat /\ held[p] \in Nat
      /\ Header \in Nat /\ Align \in Nat \ {0}
  <2>1. AlignUp(held[p]) >= held[p] /\ AlignUp(held[p]) \in Nat
    BY <1>3, AlignUpCovers
  <2>2. Requests \subseteq Nat /\ Header \in Nat /\ Align \in Nat \ {0}
    BY DEF PoolAssumption
  <2>3. QED BY <1>3, <2>1, <2>2
<1>7. held[p] + Header <= heap.size[p - Header]
  <2> DEFINE u == AlignUp(held[p])
  <2>1. u >= held[p] /\ u \in Nat /\ heap.size[p - Header] >= Header + u
    BY <1>4, <1>5, <1>6
  <2> HIDE DEF u
  <2>2. QED BY <1>3, <1>6, <2>1
<1>8. p % Align = 0
  <2>1. (p - Header) + Header = p
    BY <1>3, <1>6
  <2>2. QED BY <1>3, <2>1, PointersAligned
<1>9. QED BY <1>3, <1>7, <1>8

(* The last block that starts at or before lo holds the byte at lo. *)
LEMMA BlockAt ==
  ASSUME PoolAssumption, IInv, Room, NEW lo \in Nat, lo < cap
  PROVE  \E a \in Blocks(heap) : a <= lo /\ lo < a + heap.size[a]
<1>1. Sizes /\ Sound(heap)
  BY IInvSizes DEF IInv, Story
<1>2. 0 \in Blocks(heap) /\ Blocks(heap) \subseteq Nat
  BY <1>1 DEF Sound, Shape, Tiled
<1> DEFINE S == {n \in 0 .. lo : lo - n \in Blocks(heap)}
<1>3. S \in SUBSET Nat /\ lo \in S
  <2>1. lo - lo = 0 /\ lo \in 0 .. lo
    OBVIOUS
  <2>2. QED BY <1>2, <2>1
<1>4. PICK n \in S : \A m \in S : n <= m
  BY <1>3, SmallestExists
<1> DEFINE a == lo - n
           b == a + heap.size[a]
<1>5. /\ a \in Blocks(heap) /\ a \in Nat /\ a <= lo /\ n \in Nat
      /\ heap.size[a] \in Nat /\ heap.size[a] > 0
      /\ b = cap \/ b \in Blocks(heap)
  <2>1. a \in Blocks(heap) /\ n \in 0 .. lo
    BY <1>4
  <2>2. heap.size[a] \in Nat /\ heap.size[a] >= Header /\ (b = cap \/ b \in Blocks(heap))
    BY <1>1, <2>1 DEF Sound, Shape, Tiled
  <2>3. QED BY <1>1, <1>2, <2>1, <2>2 DEF Sizes
<1>6. ASSUME b <= lo PROVE FALSE
  <2>1. b \in Blocks(heap)
    BY <1>1, <1>5, <1>6 DEF Sizes
  <2>2. lo - b \in 0 .. lo /\ lo - (lo - b) = b /\ lo - b < n
    BY <1>5, <1>6
  <2>3. lo - b \in S
    BY <2>1, <2>2
  <2>4. QED BY <1>4, <1>5, <2>2, <2>3
<1>7. b \in Nat
  BY <1>5
<1>8. QED BY <1>5, <1>6, <1>7

LEMMA RoomIsFound ==
  ASSUME PoolAssumption, IInv
  PROVE  NoFalseExhaustion
<1>1. SUFFICES ASSUME up, NEW lo \in 0 .. cap, NEW k \in Header .. cap, Gap(lo, k)
               PROVE  Fits(k) # {}
  BY DEF NoFalseExhaustion
<1>2. Sizes
  BY IInvSizes DEF IInv
<1>3. k \in Nat /\ k > 0 /\ lo \in Nat /\ lo + k <= cap /\ lo < cap /\ cap >= Header
  BY <1>1, <1>2 DEF Sizes, Gap
<1>4. Room
  BY <1>1, <1>3 DEF Room
<1>5. Sound(heap) /\ Links(heap.list, heap.free) /\ Apart(heap)
  BY <1>4 DEF IInv, Story
<1>6. PICK a \in Blocks(heap) : a <= lo /\ lo < a + heap.size[a]
  BY <1>3, <1>4, BlockAt
<1> DEFINE b == a + heap.size[a]
<1>7. /\ a \in Nat /\ heap.size[a] \in Nat /\ b \in Nat /\ lo < b
      /\ b = cap \/ (b < cap /\ b \in Blocks(heap))
  BY <1>5, <1>6 DEF Sound, Shape, Tiled
<1> HIDE DEF b
<1>8. a \in heap.free
  <2>1. SUFFICES ASSUME a \notin heap.free PROVE FALSE
    OBVIOUS
  <2>2. b <= lo \/ lo + k <= a
    BY <1>1, <2>1 DEF Gap, b
  <2>3. QED BY <1>3, <1>6, <1>7, <2>2
<1>9. lo + k <= b
  <2>1. SUFFICES ASSUME b < lo + k PROVE FALSE
    BY <1>3, <1>7
  <2>2. b < cap /\ b \in Blocks(heap)
    BY <1>2, <1>3, <1>7, <2>1 DEF Sizes
  <2>3. NextBlock(heap, a) = b
    BY <2>2 DEF NextBlock, b
  <2>4. b \notin heap.free
    BY <1>5, <1>8, <2>3 DEF Apart
  <2>5. b + heap.size[b] <= lo \/ lo + k <= b
    BY <1>1, <2>2, <2>4 DEF Gap
  <2>6. heap.size[b] \in Nat
    BY <1>5, <2>2 DEF Sound, Shape
  <2>7. QED BY <1>3, <1>7, <2>1, <2>5, <2>6
<1>10. heap.size[a] >= k
  BY <1>3, <1>6, <1>7, <1>9 DEF b
<1>11. Linked(a, heap.list)
  BY <1>5, <1>8 DEF Links
<1>12. QED BY <1>10, <1>11 DEF Linked, Fits

(* The bytes a block hands out are nobody else's. *)
LEMMA HandedOutVacant ==
  ASSUME PoolAssumption, NoWrap, IInv, NEW c \in Callers, pick[c].block # Null, HandOut(c)
  PROVE  \E p \in 0 .. cap, n \in Requests : Abstract!Allocate(p, n)
<1> DEFINE h == pick[c].block
           n == pick[c].request
           ptr == h + Header
<1>1. /\ Room /\ Sizes /\ Sound(heap) /\ h \in heap.free /\ h \in Blocks(heap)
      /\ h \in Nat /\ n \in Requests \ {0} /\ Need(n) >= Header
      /\ heap.size[h] >= Need(n) /\ heap.size[h] \in Nat
  BY Picked
<1>2. /\ held' = [p \in DOMAIN held \cup {ptr} |-> IF p = ptr THEN n ELSE held[p]]
      /\ cap' = cap
  BY DEF HandOut
<1> HIDE DEF h, n
<1>3. n \in Nat /\ Header \in Nat /\ ptr \in Nat /\ cap \in Nat
  <2>1. Requests \subseteq Nat /\ Header \in Nat
    BY DEF PoolAssumption
  <2>2. QED BY <1>1, <2>1 DEF Sizes
<1>4. ptr + n <= h + heap.size[h]
  <2>1. Need(n) = Header + AlignUp(n)
    BY <1>1, AlignUpMultiple
  <2>2. AlignUp(n) >= n /\ AlignUp(n) \in Nat
    BY <1>1, AlignUpCovers
  <2> DEFINE u == AlignUp(n)
  <2>3. u >= n /\ u \in Nat /\ heap.size[h] >= Header + u
    BY <1>1, <2>1, <2>2
  <2> HIDE DEF u
  <2>4. QED BY <1>1, <1>3, <2>3
<1>5. h + heap.size[h] <= cap
  BY <1>1, <1>3 DEF Sound, Tiled
<1>6. Blocks(heap) \ heap.free = {p - Header : p \in DOMAIN held} /\ DOMAIN held \subseteq Nat
  BY <1>1 DEF IInv, Story, Shapes
<1>7. ptr \notin DOMAIN held
  <2>1. ptr - Header = h
    BY <1>1, <1>3
  <2>2. QED BY <1>1, <1>6, <2>1
<1>8. ptr % Align = 0
  BY <1>1, PointersAligned
<1> HIDE DEF ptr
<1>9. ASSUME NEW q \in DOMAIN held PROVE q + held[q] <= ptr \/ ptr + n <= q
  <2> DEFINE g == q - Header
  <2>1. g \in Blocks(heap) \ heap.free /\ q \in Nat
    BY <1>6
  <2>2. held[q] + Header <= heap.size[g]
    BY PayloadsHold DEF PayloadFits
  <2>3. /\ g \in Nat /\ heap.size[g] \in Nat
        /\ g < h => g + heap.size[g] <= h
        /\ h < g => h + heap.size[h] <= g
    BY <1>1, <2>1 DEF Sound, Shape, Tiled
  <2>4. g # h
    BY <1>1, <2>1
  <2>5. held[q] \in Nat
    <3>1. Requests \subseteq Nat /\ held[q] \in Requests
      BY DEF PoolAssumption, IInv, Shapes
    <3>2. QED BY <3>1
  <2>6. q = g + Header
    BY <1>3, <2>1
  <2> HIDE DEF g
  <2>7. CASE g < h
    BY <1>1, <1>3, <2>2, <2>3, <2>5, <2>6, <2>7 DEF ptr
  <2>8. CASE h < g
    BY <1>1, <1>3, <1>4, <2>3, <2>6, <2>8
  <2>9. QED BY <1>1, <2>3, <2>4, <2>7, <2>8
<1>10. ptr >= 0 /\ ptr + n <= cap /\ ptr \in 0 .. cap
  BY <1>1, <1>3, <1>4, <1>5
<1>11. Abstract!Allocate(ptr, n)
  <2>1. Abstract!Vacant(ptr, n)
    BY <1>9, <1>10 DEF Abstract!Vacant
  <2>2. QED BY <1>1, <1>2, <1>7, <1>8, <2>1 DEF Abstract!Allocate, ptr
<1>12. QED BY <1>1, <1>10, <1>11

(* Every step of the pool is one of the allocator or leaves it alone. *)
LEMMA StepImplements ==
  ASSUME PoolAssumption, NoWrap, IInv, [Next]_vars
  PROVE  [Abstract!Next]_(Abstract!vars)
<1>1. ASSUME NEW b \in BOOLEAN, NEW n \in Capacities, PoolInit(b, n)
      PROVE  Abstract!Next
  <2>1. Abstract!Restart(n)
    BY <1>1 DEF PoolInit, Restarted, Abstract!Restart, Nothing, Abstract!Nothing
  <2>2. QED BY <2>1 DEF Abstract!Next
<1>2. CASE Deinit
  <2>1. Abstract!Restart(0)
    BY <1>2 DEF Deinit, Restarted, Abstract!Restart, Nothing, Abstract!Nothing
  <2>2. QED BY <2>1 DEF Abstract!Next
<1>3. CASE Reset
  <2>1. Abstract!Restart(cap)
    BY <1>3 DEF Reset, Restarted, Abstract!Restart, Nothing, Abstract!Nothing
  <2>2. QED BY <2>1 DEF Abstract!Next
<1>4. ASSUME NEW c \in Callers, NEW n \in Requests, Search(c, n)
      PROVE  UNCHANGED <<cap, held>>
  BY <1>4 DEF Search
<1>5. ASSUME NEW c \in Callers, Split(c) PROVE Abstract!Next
  <2>1. pick[c].block # Null /\ HandOut(c)
    BY <1>5 DEF Split
  <2>2. QED BY <2>1, HandedOutVacant DEF Abstract!Next
<1>6. ASSUME NEW c \in Callers, TakeWhole(c) PROVE Abstract!Next
  <2>1. pick[c].block # Null /\ HandOut(c)
    BY <1>6 DEF TakeWhole
  <2>2. QED BY <2>1, HandedOutVacant DEF Abstract!Next
<1>7. ASSUME NEW c \in Callers, NEW p \in DOMAIN held, Free(c, p) PROVE Abstract!Next
  <2>1. Abstract!Free(p)
    BY <1>7 DEF Free, Abstract!Free
  <2>2. QED BY <2>1 DEF Abstract!Next
<1>8. CASE UNCHANGED vars
  BY <1>8 DEF vars, Abstract!vars
<1>9. QED
  BY <1>1, <1>2, <1>3, <1>4, <1>5, <1>6, <1>7, <1>8 DEF Next, FreeIgnored, Abstract!vars

-----------------------------------------------------------------------------
(* Theorems.  The three conditions are those under which the runs pass:    *)
(* even capacities, callers that exclude each other and, for the last two, *)
(* requests that do not wrap.                                              *)

(* The strengthening of the invariants below is kept by every step of      *)
(* Init(), Deinit(), Reset(), Allocate() and Free().                       *)
THEOREM PoolInvariant ==
  ASSUME Even, Exclusive = TRUE
  PROVE  Spec => []IInv
<1>1. Init => IInv
  BY InitHolds, PoolAssumption
<1>2. IInv /\ [Next]_vars => IInv'
  BY NextKeeps, PoolAssumption
<1>3. QED BY <1>1, <1>2, PTL DEF Spec

(* The pool object and its headers keep their types; in particular every   *)
(* link of a header and of the free list names a block.                    *)
THEOREM PoolTypes ==
  ASSUME Even, Exclusive = TRUE
  PROVE  Spec => []TypeOK
<1>1. IInv => TypeOK
  BY TypesHold, PoolAssumption
<1>2. QED BY <1>1, PoolInvariant, PTL

(* Splitting and merging never leave a hole or an overlap in the buffer,   *)
(* nor a block whose prev is not the block before it.                      *)
THEOREM TilingCorrect ==
  ASSUME Even, Exclusive = TRUE
  PROVE  Spec => []BlocksTile
<1>1. IInv => BlocksTile
  BY TilesHold, PoolAssumption
<1>2. QED BY <1>1, PoolInvariant, PTL

(* Allocate() and Free() lose no block: each is on the free list once or   *)
(* belongs to the one caller that has its pointer.                         *)
THEOREM FreeListCorrect ==
  ASSUME Even, Exclusive = TRUE
  PROVE  Spec => []FreeListExact
<1>1. IInv => FreeListExact
  BY ListsHold, PoolAssumption
<1>2. QED BY <1>1, PoolInvariant, PTL

(* The block Allocate() found is still free when it takes it.              *)
THEOREM PickCorrect ==
  ASSUME Even, Exclusive = TRUE
  PROVE  Spec => []PickedStaysFree
<1>1. IInv => PickedStaysFree
  BY PicksHold, PoolAssumption
<1>2. QED BY <1>1, PoolInvariant, PTL

(* Merging with both neighbours in Free() is enough: Allocate() finds a    *)
(* block whenever as many bytes in a row are free.                         *)
THEOREM ExhaustionCorrect ==
  ASSUME Even, Exclusive = TRUE
  PROVE  Spec => []NoFalseExhaustion
<1>1. IInv => NoFalseExhaustion
  BY RoomIsFound, PoolAssumption
<1>2. QED BY <1>1, PoolInvariant, PTL

(* What Allocate() returned is aligned and long enough until it is freed.  *)
THEOREM PayloadCorrect ==
  ASSUME Even, Exclusive = TRUE, NoWrap
  PROVE  Spec => []PayloadFits
<1>1. IInv => PayloadFits
  BY PayloadsHold, PoolAssumption
<1>2. QED BY <1>1, PoolInvariant, PTL

(* GetUsedBytes() is the size of the blocks in use together, and no more   *)
(* than the buffer has, after any sequence of calls.                       *)
THEOREM AccountingCorrect ==
  ASSUME Even, Exclusive = TRUE
  PROVE  Spec => []Accounting
<1>1. Init => Account
  BY InitAccounts
<1>2. IInv /\ IInv' /\ Account /\ [Next]_vars => Account'
  BY AccountKept, PoolAssumption
<1>3. IInv /\ Account => Accounting
  BY UsedFits, PoolAssumption DEF Accounting, Account
<1>4. QED BY <1>1, <1>2, <1>3, PoolInvariant, PTL DEF Spec

(* The pool implements the allocator: memory in use is never handed out    *)
(* again, whatever the blocks and lists behind it.                         *)
THEOREM PoolImplements ==
  ASSUME Even, Exclusive = TRUE, NoWrap
  PROVE  Spec => PoolIsAllocator
<1>1. Init => Abstract!Init
  BY DEF Init, Abstract!Init, Nothing, Abstract!Nothing
<1>2. IInv /\ [Next]_vars => [Abstract!Next]_(Abstract!vars)
  BY StepImplements, PoolAssumption
<1>3. QED
  BY <1>1, <1>2, PoolInvariant, PTL DEF Spec, PoolIsAllocator, Abstract!Spec
=============================================================================
