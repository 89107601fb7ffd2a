------------------------------ MODULE Allocator ------------------------------
(***************************************************************************)
(* What WasmMemoryPool promises its callers: every pointer Allocate()      *)
(* returned and nobody has freed since names as many bytes as were asked   *)
(* for, inside the buffer, aligned, and shared with no other such pointer. *)
(* Nothing is said of how the pool finds room.                             *)
(***************************************************************************)
EXTENDS Integers

CONSTANTS
  Align,       (* kMemoryPoolAlignment         *)
  Capacities,  (* sizes of the buffers given   *)
  Requests     (* sizes asked of Allocate()    *)

VARIABLES
  extent,      (* bytes of the pool, 0 before Init() and after Deinit()   *)
  held         (* the pointers in use, each with the size asked for       *)

vars == <<extent, held>>

Nothing == [p \in {} |-> 0]

Init == extent = 0 /\ held = Nothing

(* The n bytes at p touch none that is in use. *)
Vacant(p, n) ==
  /\ p >= 0 /\ p + n <= extent
  /\ \A q \in DOMAIN held : q + held[q] <= p \/ p + n <= q

Allocate(p, n) ==
  /\ n \in Requests \ {0} /\ p % Align = 0 /\ p \notin DOMAIN held
  /\ Vacant(p, n)
  /\ held' = [q \in DOMAIN held \cup {p} |-> IF q = p THEN n ELSE held[q]]
  /\ UNCHANGED extent

Free(p) ==
  /\ p \in DOMAIN held
  /\ held' = [q \in DOMAIN held \ {p} |-> held[q]]
  /\ UNCHANGED extent

(* Init(), Deinit() and Reset() end every allocation at once. *)
Restart(n) == extent' = n /\ held' = Nothing

Next ==
  \/ \E p \in 0 .. extent, n \in Requests : Allocate(p, n)
  \/ \E p \in DOMAIN held : Free(p)
  \/ \E n \in Capacities \cup {0, extent} : Restart(n)

Spec == Init /\ [][Next]_vars
=============================================================================
