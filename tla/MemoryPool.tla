----------------------------- MODULE MemoryPool -----------------------------
(***************************************************************************)
(* The static memory pool (src/wasm_memory_pool.cpp) that everything the   *)
(* engine keeps is allocated from: blocks with a header in front of them   *)
(* tile one buffer, the free ones are linked in a list, Allocate() takes   *)
(* the first that fits and splits it, Free() merges with both neighbours.  *)
(* Several OS threads use one pool.  Addresses are offsets from buffer_.   *)
(***************************************************************************)
EXTENDS Integers, Sequences, LinkedLists

CONSTANTS
  Word,        (* 2^width of size_t                                          *)
  Align,       (* kMemoryPoolAlignment                                       *)
  Header,      (* kBlockHeaderSize                                           *)
  Capacities,  (* sizes of the buffers given to Init()                       *)
  Requests,    (* sizes asked of Allocate()                                  *)
  Callers,     (* OS threads that allocate and free                          *)
  Exclusive    (* whether DisableInterrupts() keeps the other callers out:
                  so on FreeRTOS and uITRON, not on cpp_std_thread           *)

ASSUME PoolAssumption ==
  /\ Word \in Nat \ {0}
  /\ Align \in Nat \ {0} /\ Align % 2 = 0
  /\ Header \in Nat \ {0} /\ Header % Align = 0
  /\ Capacities \subseteq Nat /\ \A n \in Capacities : n < Word
  /\ Requests \subseteq 0 .. Word - 1
  /\ Exclusive \in BOOLEAN

Null == -1    \* nullptr

VARIABLES
  up,      (* buffer_ is not null                                            *)
  cap,     (* capacity_                                                      *)
  used,    (* used_bytes_                                                    *)
  heap,    (* what the headers in the buffer say: see Heap                   *)
  held,    (* pointers returned and not yet freed, with the size asked for   *)
  pick     (* the block each Allocate() under way has found, and its request *)

vars == <<up, cap, used, heap, held, pick>>

(***************************************************************************)
(* A heap is the headers of the blocks, by the address of the block: size  *)
(* is BlockGetSize, the header included, prev the block physically before  *)
(* it, free the blocks with the BlockIsFree bit, and list the free list    *)
(* from free_list_head_ on.                                                *)
(***************************************************************************)
Blocks(H) == DOMAIN H.size

NoPick == [block |-> Null, request |-> 0]
Nothing == [p \in {} |-> 0]

-----------------------------------------------------------------------------
(* Sizes.                                                                  *)

(* What a header keeps of a size: bit 0 is the flag. *)
WithoutFlag(n) == n - (n % 2)

(* Rounded down. *)
AlignUp_Down(n) == (n \div Align) * Align

AlignUp(n) == (((n + Align - 1) % Word) \div Align) * Align

(* The header forgotten. *)
Need_NoHeader(n) == AlignUp(n)

(* total_needed, in size_t arithmetic. *)
Need(n) == (Header + AlignUp(n)) % Word

(* The blocks of the free list that have k bytes, by their position. *)
Fits(k) == {i \in DOMAIN heap.list : heap.size[heap.list[i]] >= k}
FirstFit(k) == heap.list[CHOOSE i \in Fits(k) : \A j \in Fits(k) : i <= j]

-----------------------------------------------------------------------------
(* Operations on a heap.                                                   *)

(* One free block over the n bytes of the buffer; nothing in a buffer that
   is missing or too small for a header. *)
Formatted(buffer, n) ==
  LET whole == IF buffer /\ n >= Header THEN {0} ELSE {}
  IN  [size |-> [a \in whole |-> WithoutFlag(n)], prev |-> [a \in whole |-> Null],
       free |-> whole, list |-> IF whole = {} THEN << >> ELSE <<0>>]

NextBlock(H, a) == IF a + H.size[a] < cap THEN a + H.size[a] ELSE Null

InsertFreeList(H, a) == [H EXCEPT !.list = <<a>> \o @]

RemoveFreeList(H, a) ==
  [H EXCEPT !.list = Unlink(@, CHOOSE i \in DOMAIN @ : @[i] = a)]

MarkUsed(H, a) == [H EXCEPT !.free = @ \ {a}]
MarkFree(H, a) == [H EXCEPT !.free = @ \cup {a}]

(* The block h becomes k bytes long and the rest of it a free block. *)
Divide(H, h, k) ==
  LET new == h + k
  IN  [size |-> [a \in Blocks(H) \cup {new} |->
                   IF a = h THEN k
                   ELSE IF a = new THEN H.size[h] - k ELSE H.size[a]],
       prev |-> [a \in Blocks(H) \cup {new} |->
                   IF a = new THEN h
                   ELSE IF a = NextBlock(H, h) THEN new ELSE H.prev[a]],
       free |-> H.free \cup {new},
       list |-> H.list]

(* The block behind keeps its link to b. *)
Merge_NoBackLink(H, a, b) ==
  [size |-> [x \in Blocks(H) \ {b} |->
               IF x = a THEN H.size[a] + H.size[b] ELSE H.size[x]],
   prev |-> [x \in Blocks(H) \ {b} |-> H.prev[x]],
   free |-> H.free \ {b},
   list |-> H.list]

(* The block a takes in the block that follows it, b. *)
Merge(H, a, b) ==
  [size |-> [x \in Blocks(H) \ {b} |->
               IF x = a THEN H.size[a] + H.size[b] ELSE H.size[x]],
   prev |-> [x \in Blocks(H) \ {b} |->
               IF x = NextBlock(H, b) THEN a ELSE H.prev[x]],
   free |-> H.free \ {b},
   list |-> H.list]

(* The block taken in stays on the free list. *)
MergeNext_StaysListed(H, h) ==
  LET b == NextBlock(H, h)
  IN  IF b \in H.free THEN Merge(H, h, b) ELSE H

(* The free block h takes in the block after it, if that is free. *)
MergeNext(H, h) ==
  LET b == NextBlock(H, h)
  IN  IF b \in H.free THEN Merge(RemoveFreeList(H, b), h, b) ELSE H

(* Never merges backwards. *)
MergePrev_Never(H, h) == InsertFreeList(H, h)

(* The free block h goes to the head of the free list, inside the block
   before it if that is free. *)
MergePrev(H, h) ==
  LET b == H.prev[h]
  IN  IF b \in H.free
      THEN InsertFreeList(Merge(RemoveFreeList(H, b), b, h), b)
      ELSE InsertFreeList(H, h)

-----------------------------------------------------------------------------
Init ==
  /\ up = FALSE /\ cap = 0 /\ used = 0
  /\ heap = Formatted(FALSE, 0) /\ held = Nothing
  /\ pick = [c \in Callers |-> NoPick]

Quiet == \A c \in Callers : pick[c] = NoPick

(* Nobody uses the pool while its owner restarts it, and the pointers of
   before are dead. *)
Restarted(buffer, n) ==
  /\ Quiet
  /\ heap' = Formatted(buffer, n)
  /\ used' = 0 /\ held' = Nothing
  /\ UNCHANGED pick

PoolInit(buffer, n) == up' = buffer /\ cap' = n /\ Restarted(buffer, n)
Deinit == up' = FALSE /\ cap' = 0 /\ Restarted(FALSE, 0)
Reset == UNCHANGED <<up, cap>> /\ Restarted(up, cap)

(***************************************************************************)
(* Allocate(n): the search and what is done to the block found are two     *)
(* steps, which only a DisableInterrupts() that excludes keeps together.   *)
(* The calls that return nullptr (no buffer, n = 0, a sum that wraps below *)
(* Header, no block that fits) change nothing.                             *)
(***************************************************************************)
MayEnter(c) == pick[c] = NoPick /\ (Exclusive => Quiet)

Search(c, n) ==
  /\ MayEnter(c)
  /\ up /\ n # 0
  /\ Need(n) >= Header
  /\ Fits(Need(n)) # {}
  /\ pick' = [pick EXCEPT ![c] = [block |-> FirstFit(Need(n)), request |-> n]]
  /\ UNCHANGED <<up, cap, used, heap, held>>

(* The caller gets the pointer behind the header of its block. *)
HandOut(c) ==
  LET ptr == pick[c].block + Header
  IN  /\ held' = [p \in DOMAIN held \cup {ptr} |->
                    IF p = ptr THEN pick[c].request ELSE held[p]]
      /\ pick' = [pick EXCEPT ![c] = NoPick]
      /\ UNCHANGED <<up, cap>>

(* What is left has room for a header: it becomes a free block behind h. *)
Split(c) ==
  LET h == pick[c].block
      total == Need(pick[c].request)
      rest == Divide(MarkUsed(RemoveFreeList(heap, h), h), h, total)
  IN  /\ h # Null /\ heap.size[h] - total >= Header
      /\ heap' = InsertFreeList(rest, h + total)
      /\ used' = used + total
      /\ HandOut(c)

TakeWhole(c) ==
  LET h == pick[c].block
  IN  /\ h # Null /\ heap.size[h] - Need(pick[c].request) < Header
      /\ heap' = MarkUsed(RemoveFreeList(heap, h), h)
      /\ used' = used + heap.size[h]
      /\ HandOut(c)

(* The size is read after the block has merged with the next one. *)
Free_AfterMerge(c, p) ==
  LET h == p - Header
      merged == MergeNext(MarkFree(heap, h), h)
  IN  /\ MayEnter(c) /\ up
      /\ heap' = MergePrev(merged, h)
      /\ used' = used - merged.size[h]
      /\ held' = [q \in DOMAIN held \ {p} |-> held[q]]
      /\ UNCHANGED <<up, cap, pick>>

(* Free(p) of a pointer in use. *)
Free(c, p) ==
  LET h == p - Header
  IN  /\ MayEnter(c) /\ up
      /\ heap' = MergePrev(MergeNext(MarkFree(heap, h), h), h)
      /\ used' = used - heap.size[h]
      /\ held' = [q \in DOMAIN held \ {p} |-> held[q]]
      /\ UNCHANGED <<up, cap, pick>>

(* Free(p) ignores a null pointer, one whose header is outside the buffer
   and one whose block is free already. *)
FreeIgnored(c, p) ==
  /\ MayEnter(c)
  /\ \/ ~ up \/ p = Null \/ p < Header \/ p > cap
     \/ p - Header \in heap.free
  /\ UNCHANGED vars

Next ==
  \/ \E b \in BOOLEAN, n \in Capacities : PoolInit(b, n)
  \/ Deinit
  \/ Reset
  \/ \E c \in Callers, n \in Requests : Search(c, n)
  \/ \E c \in Callers : Split(c)
  \/ \E c \in Callers : TakeWhole(c)
  \/ \E c \in Callers, p \in DOMAIN held : Free(c, p)
  \/ \E c \in Callers, p \in {Null, 0, cap + 1} \cup {a + Header : a \in heap.free} :
       FreeIgnored(c, p)

Spec == Init /\ [][Next]_vars

-----------------------------------------------------------------------------
(* Properties.                                                             *)

Heap ==
  /\ heap.size \in [Blocks(heap) -> Nat] /\ Blocks(heap) \subseteq Nat
  /\ heap.prev \in [Blocks(heap) -> Blocks(heap) \cup {Null}]
  /\ heap.free \subseteq Blocks(heap)
  /\ heap.list \in Seq(Blocks(heap))

(* Type invariant of the pool object, its headers and its callers. *)
TypeOK ==
  /\ up \in BOOLEAN /\ cap \in Nat /\ used \in Int
  /\ Heap
  /\ held \in [DOMAIN held -> Requests] /\ DOMAIN held \subseteq Nat
  /\ pick \in [Callers -> [block : Nat \cup {Null}, request : Requests \cup {0}]]

(* The buffer is tiled: the first block starts at 0, each one ends where
   the next starts or at the end of the buffer, and none overlap. *)
Tiled(H) ==
  /\ 0 \in Blocks(H)
  /\ \A a \in Blocks(H) :
       /\ H.size[a] >= Header
       /\ a + H.size[a] = cap \/ (a + H.size[a] < cap /\ a + H.size[a] \in Blocks(H))
  /\ \A a, b \in Blocks(H) : a < b => a + H.size[a] <= b

(* BlockHeader::prev names the block that ends where this one starts. *)
BackLinked(H) ==
  \A a \in Blocks(H) :
    IF a = 0 THEN H.prev[a] = Null
    ELSE H.prev[a] \in Blocks(H) /\ H.prev[a] + H.size[H.prev[a]] = a

(* Whatever is split and merged, the blocks of a buffer that has room for a
   header tile it and know their neighbours. *)
BlocksTile == up /\ cap >= Header => Tiled(heap) /\ BackLinked(heap)

(* The free list links every free block once, and the other blocks are
   those whose pointer a caller has: none is lost and none is in both. *)
FreeListExact ==
  /\ NoDuplicates(heap.list)
  /\ {heap.list[i] : i \in DOMAIN heap.list} = heap.free
  /\ Blocks(heap) \ heap.free = {p - Header : p \in DOMAIN held}

(* A pointer in use has the bytes that were asked for before its block
   ends, and is aligned. *)
PayloadFits ==
  \A p \in DOMAIN held :
    /\ p % Align = 0
    /\ p - Header \in Blocks(heap)
    /\ held[p] + Header <= heap.size[p - Header]

(* k bytes from lo on that no used block covers. *)
Gap(lo, k) ==
  /\ lo + k <= cap
  /\ \A a \in Blocks(heap) \ heap.free :
       a + heap.size[a] <= lo \/ lo + k <= a

(* Coalescing leaves no room unused: when k bytes in a row are free, some
   block of the free list has k bytes, so that Allocate() fails only when
   the room is really not there. *)
NoFalseExhaustion ==
  up => \A lo \in 0 .. cap, k \in Header .. cap : Gap(lo, k) => Fits(k) # {}

(* Between its search and the split the block found is still free: two
   callers never take the same one. *)
PickedStaysFree ==
  \A c \in Callers : pick[c].block # Null => pick[c].block \in heap.free

(* The sum of the first n weights. *)
SumBelow(weight, n) ==
  LET sum[k \in 0 .. n] == IF k = 0 THEN 0 ELSE sum[k - 1] + weight[k - 1]
  IN  sum[n]

(* The bytes of the used block that starts at an address. *)
UsedAt(H) ==
  [a \in 0 .. cap |-> IF a \in Blocks(H) \ H.free THEN H.size[a] ELSE 0]

(* used_bytes_ is the size of the used blocks together, so GetUsedBytes()
   and GetFreeBytes() tell the truth after any sequence of calls, and the
   difference the latter returns does not wrap. *)
Accounting == used = SumBelow(UsedAt(heap), cap) /\ used \in 0 .. cap

(* The pool implements the allocator its callers rely on. *)
Abstract == INSTANCE Allocator WITH extent <- cap
PoolIsAllocator == Abstract!Spec
=============================================================================
