---------------------------- MODULE LinkedLists ----------------------------
(***************************************************************************)
(* Doubly linked lists as sequences of the nodes they link, from the front *)
(* to the back: the intrusive lists of wasm_types.hpp, which the scheduler *)
(* keeps its contexts in, and the free list of the memory pool.            *)
(***************************************************************************)
LOCAL INSTANCE Integers
LOCAL INSTANCE Sequences

(* s without its i-th node: RemoveListNode, RemoveFreeList. *)
Unlink(s, i) == [j \in 1 .. Len(s) - 1 |-> IF j < i THEN s[j] ELSE s[j + 1]]

Linked(t, s) == \E i \in DOMAIN s : s[i] = t
NoDuplicates(s) == \A i, j \in DOMAIN s : s[i] = s[j] => i = j
=============================================================================
