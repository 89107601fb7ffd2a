-------------------------- MODULE LinkedListLemmas --------------------------
(***************************************************************************)
(* What adding and removing a node does to the nodes a list links.         *)
(***************************************************************************)
EXTENDS LinkedLists, Integers, Sequences, WellFoundedInduction,
        NaturalsInduction, TLAPS

(* AddLastListNode: the node is linked, every other node stays where it is,
   and a node that was not linked is linked once. *)
LEMMA AppendLinks ==
  ASSUME NEW T, NEW s \in Seq(T), NEW t \in T
  PROVE  /\ Append(s, t) \in Seq(T)
         /\ \A u : Linked(u, Append(s, t)) <=> Linked(u, s) \/ u = t
         /\ NoDuplicates(s) /\ ~ Linked(t, s) => NoDuplicates(Append(s, t))
<1>1. /\ Append(s, t) \in Seq(T)
      /\ Len(Append(s, t)) = Len(s) + 1 /\ Len(s) \in Nat
      /\ \A i \in 1 .. Len(s) : Append(s, t)[i] = s[i]
      /\ Append(s, t)[Len(s) + 1] = t
      /\ DOMAIN s = 1 .. Len(s) /\ DOMAIN Append(s, t) = 1 .. Len(s) + 1
  OBVIOUS
<1>2. ASSUME NEW u PROVE Linked(u, Append(s, t)) <=> Linked(u, s) \/ u = t
  BY <1>1 DEF Linked
<1>3. NoDuplicates(s) /\ ~ Linked(t, s) => NoDuplicates(Append(s, t))
  BY <1>1 DEF Linked, NoDuplicates
<1>4. QED BY <1>1, <1>2, <1>3

(* RemoveListNode of the i-th node: it is no longer linked, every other one
   still is. *)
LEMMA UnlinkRemoves ==
  ASSUME NEW T, NEW s \in Seq(T), NEW i \in 1 .. Len(s), NoDuplicates(s)
  PROVE  /\ Unlink(s, i) \in Seq(T)
         /\ NoDuplicates(Unlink(s, i))
         /\ s[i] \in T
         /\ \A u : Linked(u, Unlink(s, i)) <=> Linked(u, s) /\ u # s[i]
<1> DEFINE r == Unlink(s, i)
<1>1. /\ Len(s) \in Nat \ {0} /\ DOMAIN s = 1 .. Len(s)
      /\ \A j \in 1 .. Len(s) : s[j] \in T
  OBVIOUS
<1>2. /\ r \in Seq(T) /\ Len(r) = Len(s) - 1 /\ DOMAIN r = 1 .. Len(s) - 1
      /\ \A j \in 1 .. Len(s) - 1 : r[j] = IF j < i THEN s[j] ELSE s[j + 1]
  BY <1>1 DEF Unlink
<1> DEFINE at(j) == IF j < i THEN j ELSE j + 1
<1>0. \A j \in DOMAIN r : at(j) \in DOMAIN s /\ r[j] = s[at(j)] /\ j \in Int
  BY <1>1, <1>2
<1> HIDE DEF r
<1>3. NoDuplicates(r)
  <2>1. SUFFICES ASSUME NEW j \in DOMAIN r, NEW k \in DOMAIN r, r[j] = r[k]
                 PROVE  j = k
    BY DEF NoDuplicates
  <2>2. at(j) = at(k)
    <3>1. /\ at(j) \in DOMAIN s /\ at(k) \in DOMAIN s
          /\ s[at(j)] = s[at(k)]
      BY <1>0, <2>1
    <3> HIDE DEF at
    <3>2. QED BY <3>1 DEF NoDuplicates
  <2>3. j \in Int /\ k \in Int /\ i \in Int
    BY <1>0
  <2>4. QED BY <2>2, <2>3
<1>4. ASSUME NEW u PROVE Linked(u, r) => Linked(u, s) /\ u # s[i]
  BY <1>1, <1>2, SMTT(30) DEF Linked, NoDuplicates
<1>5. ASSUME NEW u, Linked(u, s), u # s[i] PROVE Linked(u, r)
  <2>1. PICK j \in 1 .. Len(s) : s[j] = u
    BY <1>1, <1>5 DEF Linked
  <2>2. CASE j < i
    BY <1>1, <1>2, <2>1, <2>2 DEF Linked
  <2>3. CASE j > i
    <3>1. j - 1 \in 1 .. Len(s) - 1 /\ r[j - 1] = u
      BY <1>1, <1>2, <2>1, <2>3
    <3>2. QED BY <1>2, <3>1 DEF Linked
  <2>4. QED BY <1>5, <2>1, <2>2, <2>3
<1>6. QED BY <1>1, <1>2, <1>3, <1>4, <1>5 DEF r

(* PopFrontListNode. *)
LEMMA TailUnlinks ==
  ASSUME NEW T, NEW s \in Seq(T), s # << >>, NoDuplicates(s)
  PROVE  /\ Tail(s) \in Seq(T)
         /\ NoDuplicates(Tail(s))
         /\ Head(s) \in T /\ Linked(Head(s), s)
         /\ \A u : Linked(u, Tail(s)) <=> Linked(u, s) /\ u # Head(s)
<1>1. /\ Len(s) \in Nat \ {0} /\ Tail(s) \in Seq(T) /\ Head(s) = s[1]
      /\ Len(Tail(s)) = Len(s) - 1 /\ DOMAIN s = 1 .. Len(s)
      /\ DOMAIN Tail(s) = 1 .. Len(s) - 1
      /\ \A j \in 1 .. Len(s) - 1 : Tail(s)[j] = s[j + 1]
      /\ \A j \in 1 .. Len(s) : s[j] \in T
  OBVIOUS
<1>2. NoDuplicates(Tail(s))
  BY <1>1 DEF NoDuplicates
<1>3. Head(s) \in T /\ Linked(Head(s), s)
  BY <1>1 DEF Linked
<1>4. ASSUME NEW u PROVE Linked(u, Tail(s)) => Linked(u, s) /\ u # Head(s)
  BY <1>1 DEF Linked, NoDuplicates
<1>5. ASSUME NEW u, Linked(u, s), u # Head(s) PROVE Linked(u, Tail(s))
  <2>1. PICK j \in 1 .. Len(s) : s[j] = u
    BY <1>1, <1>5 DEF Linked
  <2>2. j - 1 \in 1 .. Len(s) - 1 /\ Tail(s)[j - 1] = u
    BY <1>1, <1>5, <2>1
  <2>3. QED BY <1>1, <2>2 DEF Linked
<1>6. QED BY <1>1, <1>2, <1>3, <1>4, <1>5

(* A first or last element is chosen among numbers. *)
LEMMA SmallestExists ==
  ASSUME NEW S \in SUBSET Nat, S # {}
  PROVE  \E n \in S : \A m \in S : n <= m
<1> DEFINE R == OpToRel(<, Nat)
<1>1. IsWellFoundedOn(R, Nat)
  BY NatLessThanWellFounded
<1>2. PICK n \in S : \A m \in S : <<m, n>> \notin R
  BY <1>1, WFMin
<1>3. \A m \in S : ~ (m < n)
  BY <1>2 DEF OpToRel
<1>4. QED BY <1>3

(* Induction up to n, on the set of the numbers that have been reached. *)
LEMMA Reached ==
  ASSUME NEW n \in Nat, NEW S, 0 \in S, \A m \in 1 .. n : m - 1 \in S => m \in S
  PROVE  \A m \in 0 .. n : m \in S
<1> DEFINE Left == {m \in 0 .. n : m \notin S}
<1>1. SUFFICES ASSUME Left # {} PROVE FALSE
  OBVIOUS
<1>2. Left \in SUBSET Nat
  OBVIOUS
<1>3. PICK m \in Left : \A k \in Left : m <= k
  BY <1>1, <1>2, SmallestExists
<1>4. m \in 1 .. n /\ m - 1 \in 0 .. n /\ m - 1 \notin Left
  BY <1>3
<1>5. QED BY <1>3, <1>4
=============================================================================
