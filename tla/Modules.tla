------------------------------ MODULE Modules ------------------------------
(***************************************************************************)
(* The module registry of wasm_engine.cpp: loading, aliases, linking,      *)
(* instantiation, and the guest instructions that change what modules      *)
(* share.  Linear memories and tables are shared by copying: an importer   *)
(* keeps its own pointer, size, capacity and maximum, and memory.grow and  *)
(* table.grow look for every other copy of the pointer they replace.       *)
(*                                                                         *)
(* A module has at most one function import, memory, table and global, and *)
(* one function of its own.  Sizes are in pages and table elements.  What  *)
(* memories and tables hold is left out.  A guest function is any sequence *)
(* of the steps below.  The API is called by one thread at a time.         *)
(***************************************************************************)
EXTENDS Integers, Sequences, FiniteSets

CONSTANTS kMaxModules, Names, Aliases, HostModules, Addresses, Null, NoModule,
          Binaries,               \* what the host may load, by name
          kMaxLinearMemory,       \* kMaxLinearMemorySize, in pages
          kMaxTable,              \* largest table explored
          kMaxCalls,              \* calls nested at most
          kMaxImportChain,        \* hops of ResolveWasmImportChain
          kMaxJumpTables,         \* functions with a jump table in the pool
          CarefulHost             \* the host waits for each module it loads

VARIABLES modules, name_aliases, last_loaded_id, heap, jump_tables, call, frames, regs

vars == <<modules, name_aliases, last_loaded_id, heap, jump_tables, call, frames, regs>>

Slots == 1 .. kMaxModules
Kinds == {"func", "table", "memory", "global"}
Unresolved == 0         \* kImport with a null resolved_func
Host == -1              \* kHost
Unlinked == -2          \* as parsed: kLocal without code
HostFunctionType == 1

(* What ParseSections leaves: the declarations of a binary.  A binary that *)
(* is not valid holds a function Validate refuses, which may use a memory  *)
(* the module does not have.                                               *)
BinaryType ==
  [has : SUBSET Kinds, imports : UNION {[K -> Names] : K \in SUBSET Kinds},
   exports : SUBSET Kinds, type : Nat, min : Nat, max : Nat, table_min : Nat,
   table_max : Nat, global : Nat, is_mutable : BOOLEAN, valid : BOOLEAN,
   elems : Nat, data : Nat, offset_global : BOOLEAN, start : BOOLEAN]

Memory == [ptr : Addresses \cup {Null}, size : Nat, capacity : Nat, max : Nat,
           shared : BOOLEAN, from : Slots \cup {0}]
Table == [ptr : Addresses \cup {Null}, size : Nat, max : Nat,
          shared : BOOLEAN, from : Slots \cup {0}]

(* WasmModuleInstance.  from and global_from are history: the slot the     *)
(* copy was taken from.                                                    *)
Instance ==
  [name : Names, binary : BinaryType, func : Slots \cup {Unresolved, Host, Unlinked},
   memory : Memory, table : Table, global : Nat, global_from : Slots \cup {0}, jump_table : BOOLEAN,
   imports_resolved : BOOLEAN, is_instantiated : BOOLEAN,
   elem_dropped : BOOLEAN, data_dropped : BOOLEAN]

(* Blocks are numbered, and the parser refuses a memory whose maximum is   *)
(* below its minimum.                                                      *)
ASSUME ModulesAssumption ==
  /\ {kMaxModules, kMaxLinearMemory, kMaxTable, kMaxCalls, kMaxImportChain,
      kMaxJumpTables} \subseteq Nat
  /\ Addresses \subseteq Int /\ Null \notin Addresses
  /\ CarefulHost \in BOOLEAN
  /\ NoModule \notin Instance
  /\ \A load \in Binaries :
       /\ load.name \in Names /\ load.binary \in BinaryType
       /\ load.binary.max # 0 => load.binary.min <= load.binary.max

Loaded == {s \in Slots : modules[s] # NoModule}
Imports(m, k) == k \in DOMAIN m.binary.imports

NewInstance(name, b) ==
  [name |-> name, binary |-> b, func |-> Unlinked,
   memory |-> [ptr |-> Null, size |-> 0, capacity |-> 0,
               max |-> IF "memory" \in DOMAIN b.imports THEN 0 ELSE b.max,
               shared |-> FALSE, from |-> 0],
   table |-> [ptr |-> Null, size |-> IF "table" \in DOMAIN b.imports THEN 0 ELSE b.table_min,
              max |-> IF "table" \in DOMAIN b.imports THEN kMaxTable ELSE b.table_max,
              shared |-> FALSE, from |-> 0],
   global |-> IF "global" \in DOMAIN b.imports THEN 0 ELSE b.global,
   global_from |-> 0, jump_table |-> FALSE, imports_resolved |-> FALSE, is_instantiated |-> FALSE,
   elem_dropped |-> b.elems = 0, data_dropped |-> b.data = 0]

-----------------------------------------------------------------------------
(* The pool: Allocate answers null or a block that is not in use.  Blocks  *)
(* are only compared, so the lowest one will do: it is reused soonest.     *)
Free == {a \in Addresses \ DOMAIN heap : \A b \in Addresses \ DOMAIN heap : a <= b}
With(a, n) == [b \in DOMAIN heap \cup {a} |-> IF b = a THEN n ELSE heap[b]]
Without(as) == [b \in DOMAIN heap \ as |-> heap[b]]

-----------------------------------------------------------------------------
(* Names.  Aliases come first; among modules of one name the newest wins.  *)
MaxOf(S) == CHOOSE s \in S : \A t \in S : t <= s
MinOf(S) == CHOOSE s \in S : \A t \in S : s <= t

Newest(name) ==
  LET named == {s \in Loaded : modules[s].name = name}
  IN  IF named = {} THEN 0 ELSE MaxOf(named)

GetModuleInstance(name) ==
  IF \E i \in DOMAIN name_aliases : name_aliases[i].alias = name
    THEN (CHOOSE a \in {name_aliases[i] : i \in DOMAIN name_aliases} : a.alias = name).module
    ELSE Newest(name)

-----------------------------------------------------------------------------
(* ResolveImports, one import kind at a time: what it leaves in the        *)
(* instance, and whether the import is resolved.                           *)
Source(m, k) == GetModuleInstance(m.binary.imports[k])
Exported(m, k) == Source(m, k) # 0 /\ k \in modules[Source(m, k)].binary.exports
Peer(m, k) == modules[Source(m, k)]

FromHost(m) == m.binary.imports["func"] \in HostModules
SameType(m) == Peer(m, "func").binary.type = m.binary.type

FuncAfter(m) ==
  IF FromHost(m)
    THEN IF m.binary.type = HostFunctionType THEN Host ELSE m.func
    ELSE IF Exported(m, "func") /\ SameType(m) THEN Source(m, "func")
    ELSE IF m.func = Unlinked THEN Unresolved ELSE m.func

FuncResolved(m) ==
  IF FromHost(m)
    THEN m.binary.type = HostFunctionType
    ELSE FuncAfter(m) # Unresolved /\ (Exported(m, "func") => SameType(m))

(* A required maximum of 0 is none for a memory.  A table without maximum  *)
(* has the largest one, kMaxTable here.                                    *)
Compatible_MinOnly(req_min, req_max, prov_min, prov_max) == prov_min >= req_min

Compatible(req_min, req_max, prov_min, prov_max) ==
  /\ prov_min >= req_min
  /\ req_max # 0 => prov_max # 0 /\ prov_max <= req_max

TableLinks(m) ==
  /\ ~m.table.shared
  /\ Exported(m, "table")
  /\ Peer(m, "table").table.ptr # Null
  /\ Compatible(m.binary.table_min, m.binary.table_max,
                Peer(m, "table").table.size, Peer(m, "table").table.max)

TableAfter(m) ==
  IF TableLinks(m)
    THEN [Peer(m, "table").table EXCEPT !.shared = TRUE, !.from = Source(m, "table")]
    ELSE m.table

MemoryLinks(m) ==
  /\ m.memory.ptr = Null
  /\ Exported(m, "memory")
  /\ Peer(m, "memory").memory.ptr # Null
  /\ Compatible(m.binary.min, m.binary.max,
                Peer(m, "memory").memory.size, Peer(m, "memory").memory.max)

MemoryAfter_NotShared(m) ==
  IF MemoryLinks(m)
    THEN [Peer(m, "memory").memory EXCEPT !.from = Source(m, "memory")]
    ELSE m.memory

MemoryAfter_OwnSize(m) ==
  IF MemoryLinks(m)
    THEN [Peer(m, "memory").memory EXCEPT !.shared = TRUE, !.from = Source(m, "memory"),
                                          !.size = m.binary.min]
    ELSE m.memory

MemoryAfter(m) ==
  IF MemoryLinks(m)
    THEN [Peer(m, "memory").memory EXCEPT !.shared = TRUE, !.from = Source(m, "memory")]
    ELSE m.memory

GlobalLinks(m) ==
  Exported(m, "global") /\ Peer(m, "global").binary.is_mutable = m.binary.is_mutable

ImportsResolve(m) ==
  /\ Imports(m, "func") => FuncResolved(m)
  /\ Imports(m, "table") => TableAfter(m).shared
  /\ Imports(m, "memory") => MemoryAfter(m).ptr # Null
  /\ Imports(m, "global") => GlobalLinks(m)

(* Every import is tried even after one failed, and what was linked stays. *)
ResolveImports(m) ==
  IF m.imports_resolved
    THEN m
    ELSE [m EXCEPT
            !.func = IF Imports(m, "func") THEN FuncAfter(m) ELSE @,
            !.table = IF Imports(m, "table") THEN TableAfter(m) ELSE @,
            !.memory = IF Imports(m, "memory") THEN MemoryAfter(m) ELSE @,
            !.global = IF Imports(m, "global") /\ GlobalLinks(m)
                         THEN Peer(m, "global").global ELSE @,
            !.global_from = IF Imports(m, "global") /\ GlobalLinks(m)
                              THEN Source(m, "global") ELSE @,
            !.imports_resolved = ImportsResolve(m)]

-----------------------------------------------------------------------------
(* The host's calls.  call.op is the step InstantiateModules is at, or     *)
(* what the guest runs for; call.target is the function Execute or         *)
(* ExecuteByIndex will enter, call.error what InstantiateModules found.    *)
Idle == [op |-> "idle", slot |-> 0, target |-> 0, checked |-> FALSE, error |-> FALSE]
Ops == {"idle", "imports", "memory", "tables", "elements", "data", "start",
        "started", "return", "execute"}

NoRegs == [ptr |-> Null, size |-> 0, capacity |-> 0, max |-> 0]
Regs(m) == [ptr |-> m.memory.ptr, size |-> m.memory.size,
            capacity |-> m.memory.capacity, max |-> m.memory.max]

Init ==
  /\ modules = [s \in Slots |-> NoModule]
  /\ name_aliases = << >>
  /\ last_loaded_id = 0
  /\ heap = << >>
  /\ jump_tables = 0
  /\ call = Idle
  /\ frames = << >>
  /\ regs = NoRegs

AllInstantiated == \A s \in Loaded : modules[s].is_instantiated

(* A careful host instantiates each module before it loads the next or     *)
(* calls Execute, and after a failure does nothing but unload.             *)
Admitted == CarefulHost => AllInstantiated /\ ~call.error
Unfailed == CarefulHost => ~call.error

(* A failed allocation or parse frees the instance again: no effect.       *)
LoadModule(name, b) ==
  /\ call.op = "idle" /\ Admitted
  /\ \E s \in Slots :
       /\ modules[s] = NoModule
       /\ \A t \in 1 .. s - 1 : modules[t] # NoModule
       /\ modules' = [modules EXCEPT ![s] = NewInstance(name, b)]
       /\ last_loaded_id' = s
  /\ UNCHANGED <<name_aliases, heap, jump_tables, call, frames, regs>>

(* real_name may be null: the module loaded last.                          *)
RegisterAlias(real_name, alias) ==
  LET mod == IF real_name = Null THEN last_loaded_id ELSE Newest(real_name)
      at == {i \in DOMAIN name_aliases : name_aliases[i].alias = alias}
  IN  /\ call.op = "idle"
      /\ mod # 0
      /\ name_aliases' =
           IF at # {}
             THEN [name_aliases EXCEPT ![MinOf(at)].module = mod]
             ELSE Append(name_aliases, [alias |-> alias, module |-> mod])
      /\ UNCHANGED <<modules, last_loaded_id, heap, jump_tables, call, frames, regs>>

(* The next module InstantiateModules works on, or its end.                *)
Pending(s) == {t \in Loaded : t > s /\ ~modules[t].is_instantiated}
Advance(c) ==
  IF Pending(c.slot) = {} THEN [c EXCEPT !.op = "return"]
  ELSE [c EXCEPT !.op = "imports", !.slot = MinOf(Pending(c.slot))]

InstantiateModules ==
  /\ call.op = "idle" /\ Unfailed
  /\ call' = Advance(Idle)
  /\ UNCHANGED <<modules, name_aliases, last_loaded_id, heap, jump_tables, frames, regs>>

Execute(name) ==
  LET mod == IF name = Null THEN last_loaded_id ELSE GetModuleInstance(name)
  IN  /\ call.op = "idle" /\ Admitted
      /\ mod # 0
      /\ call' = Advance([Idle EXCEPT !.target = mod])
      /\ UNCHANGED <<modules, name_aliases, last_loaded_id, heap, jump_tables, frames, regs>>

ExecuteByIndex(s) ==
  /\ call.op = "idle" /\ Unfailed
  /\ s \in Loaded
  /\ call' = IF modules[s].is_instantiated
               THEN [Idle EXCEPT !.op = "return", !.target = s]
               ELSE Advance([Idle EXCEPT !.target = s, !.checked = TRUE])
  /\ UNCHANGED <<modules, name_aliases, last_loaded_id, heap, jump_tables, frames, regs>>

(* FreeModuleInstance for every slot: own tables, jump table, own memory.  *)
Owned_NoTable(m) == IF m.memory.shared THEN {} ELSE {m.memory.ptr}

Owned(m) ==
  (IF m.table.shared THEN {} ELSE {m.table.ptr})
  \cup (IF m.memory.shared THEN {} ELSE {m.memory.ptr})

UnloadAllModules ==
  /\ call.op = "idle"
  /\ heap' = Without(UNION {Owned(modules[s]) : s \in Loaded})
  /\ jump_tables' = jump_tables - Cardinality({s \in Loaded : modules[s].jump_table})
  /\ modules' = [s \in Slots |-> NoModule]
  /\ name_aliases' = << >>
  /\ last_loaded_id' = 0
  /\ call' = Idle
  /\ UNCHANGED <<frames, regs>>

-----------------------------------------------------------------------------
(* InstantiateModules, one step of its loop body at a time.  Some errors   *)
(* go on with the next module, the others end the loop.                    *)
Mod == modules[call.slot]
At(op) == call.op = op
Go(op) == call' = [call EXCEPT !.op = op]
Skip_NoError == call' = Advance(call)
Skip == call' = Advance([call EXCEPT !.error = TRUE])
GiveUp == call' = [call EXCEPT !.op = "return", !.error = TRUE]
Registry == <<jump_tables, name_aliases, last_loaded_id, frames, regs>>

(* Validate gives each function its jump table, over the one of an earlier *)
(* attempt.  Its own allocation may fail.                                  *)
ImportsOk ==
  LET m == ResolveImports(Mod)
  IN  /\ At("imports")
      /\ m.imports_resolved /\ m.binary.valid
      /\ jump_tables < kMaxJumpTables
      /\ jump_tables' = jump_tables + 1
      /\ modules' = [modules EXCEPT ![call.slot] = [m EXCEPT !.jump_table = TRUE]]
      /\ Go("memory")
      /\ UNCHANGED <<heap, name_aliases, last_loaded_id, frames, regs>>

ImportsFail ==
  /\ At("imports")
  /\ modules' = [modules EXCEPT ![call.slot] = ResolveImports(Mod)]
  /\ Skip
  /\ UNCHANGED <<heap, Registry>>

OwnsMemory(m) == "memory" \in m.binary.has /\ ~Imports(m, "memory")

(* A memory of no page still gets a block of one byte: capacity 0.         *)
MemoryOk ==
  /\ At("memory")
  /\ IF OwnsMemory(Mod) /\ Mod.memory.ptr = Null
       THEN /\ Mod.binary.min <= kMaxLinearMemory
            /\ \E a \in Free :
                 /\ heap' = With(a, Mod.binary.min)
                 /\ modules' = [modules EXCEPT
                      ![call.slot].memory = [@ EXCEPT !.ptr = a, !.size = Mod.binary.min,
                                                      !.capacity = Mod.binary.min]]
       ELSE UNCHANGED <<heap, modules>>
  /\ Go("tables")
  /\ UNCHANGED Registry

MemoryFails ==
  /\ At("memory")
  /\ OwnsMemory(Mod) /\ Mod.memory.ptr = Null
  /\ GiveUp
  /\ UNCHANGED <<modules, heap, Registry>>

OwnsTable(m) == "table" \in m.binary.has /\ ~Imports(m, "table")
NeedsTable(m) == OwnsTable(m) /\ m.table.ptr = Null /\ m.table.size > 0

TablesOk ==
  /\ At("tables")
  /\ IF NeedsTable(Mod)
       THEN \E a \in Free :
              /\ heap' = With(a, Mod.table.size)
              /\ modules' = [modules EXCEPT ![call.slot].table.ptr = a]
       ELSE UNCHANGED <<heap, modules>>
  /\ Go("elements")
  /\ UNCHANGED Registry

TablesFail ==
  /\ At("tables")
  /\ NeedsTable(Mod)
  /\ GiveUp
  /\ UNCHANGED <<modules, heap, Registry>>

(* The active segments, once each: a segment that was applied stays so     *)
(* when a later step fails.                                                *)
ApplyElements ==
  /\ At("elements")
  /\ IF ~Mod.elem_dropped /\ Mod.binary.elems > Mod.table.size
       THEN GiveUp /\ UNCHANGED modules
       ELSE /\ modules' = [modules EXCEPT ![call.slot].elem_dropped = TRUE]
            /\ Go("data")
  /\ UNCHANGED <<heap, Registry>>

DataEnd(m) == m.binary.data + (IF m.binary.offset_global THEN m.global ELSE 0)

ApplyData ==
  /\ At("data")
  /\ IF ~Mod.data_dropped /\ (DataEnd(Mod) > Mod.memory.size \/ Mod.memory.ptr = Null)
       THEN GiveUp /\ UNCHANGED modules
       ELSE /\ modules' = [modules EXCEPT ![call.slot].data_dropped = TRUE]
            /\ Go("start")
  /\ UNCHANGED <<heap, Registry>>

RunStart ==
  /\ At("start")
  /\ Mod.binary.start
  /\ Go("started")
  /\ frames' = <<call.slot>>
  /\ regs' = Regs(Mod)
  /\ UNCHANGED <<modules, heap, jump_tables, name_aliases, last_loaded_id>>

(* The module is instantiated: on to the next.                             *)
Instantiated ==
  /\ \/ At("start") /\ ~Mod.binary.start
     \/ At("started") /\ frames = << >>
  /\ modules' = [modules EXCEPT ![call.slot].is_instantiated = TRUE]
  /\ call' = Advance(call)
  /\ UNCHANGED <<heap, Registry>>

-----------------------------------------------------------------------------
(* Functions.  ResolveWasmImportChain follows imports that export imports, *)
(* a bounded number of hops; 0 when it ends nowhere.                       *)
Reexports(s) == Imports(modules[s], "func") /\ "func" \in modules[s].binary.exports

Callee(s) ==
  LET hop[d \in 0 .. kMaxImportChain] ==
        IF d = 0 THEN modules[s].func
        ELSE IF hop[d - 1] \in Slots /\ Reexports(hop[d - 1])
          THEN modules[hop[d - 1]].func ELSE hop[d - 1]
      end == hop[kMaxImportChain]
  IN  IF end \in Slots /\ Reexports(end) THEN Unresolved ELSE end

(* What entering an exported or, by index, any function of a module runs.  *)
Entry(s, imported) == IF imported THEN Callee(s) ELSE s

(* InstantiateModules is over.  Execute goes on whatever it answered.      *)
(* Only a careful host remembers a failure.                                *)
InstantiateReturns ==
  /\ At("return")
  /\ call.target = 0 \/ (call.checked /\ call.error)
  /\ call' = [Idle EXCEPT !.error = CarefulHost /\ call.error]
  /\ UNCHANGED <<modules, heap, Registry>>

Enter_Unchecked(imported) ==
  LET end == Entry(call.target, imported)
  IN  /\ At("return")
      /\ call.target # 0
      /\ imported => Imports(modules[call.target], "func")
      /\ IF end \in Slots
           THEN Go("execute") /\ frames' = <<end>> /\ regs' = Regs(modules[end])
           ELSE call' = Idle /\ UNCHANGED <<frames, regs>>
      /\ UNCHANGED <<modules, heap, jump_tables, name_aliases, last_loaded_id>>

Enter(imported) ==
  LET end == Entry(call.target, imported)
  IN  /\ At("return")
      /\ call.target # 0 /\ ~(call.checked /\ call.error)
      /\ imported => Imports(modules[call.target], "func")
      /\ IF end \in Slots
           THEN Go("execute") /\ frames' = <<end>> /\ regs' = Regs(modules[end])
           ELSE call' = Idle /\ UNCHANGED <<frames, regs>>
      /\ UNCHANGED <<modules, heap, jump_tables, name_aliases, last_loaded_id>>

Running == frames # << >>
Top == frames[Len(frames)]

(* The frame loop reloads what it caches of the memory at every change of  *)
(* frame.                                                                  *)
Reload(fs) == regs' = IF fs = << >> THEN NoRegs ELSE Regs(modules[fs[Len(fs)]])

Trap ==
  /\ Running
  /\ frames' = << >>
  /\ regs' = NoRegs
  /\ call' = IF At("started") THEN [call EXCEPT !.op = "return", !.error = TRUE]
             ELSE Idle
  /\ UNCHANGED <<modules, name_aliases, last_loaded_id, heap, jump_tables>>

CallImport ==
  /\ Running
  /\ Imports(modules[Top], "func")
  /\ Callee(Top) \in Slots
  /\ Len(frames) < kMaxCalls
  /\ frames' = Append(frames, Callee(Top))
  /\ Reload(frames')
  /\ UNCHANGED <<modules, name_aliases, last_loaded_id, heap, jump_tables, call>>

Return ==
  /\ Running
  /\ frames' = SubSeq(frames, 1, Len(frames) - 1)
  /\ Reload(frames')
  /\ call' = IF Len(frames) = 1 /\ At("execute") THEN Idle ELSE call
  /\ UNCHANGED <<modules, name_aliases, last_loaded_id, heap, jump_tables>>

(* Code that was validated grows a memory only in a module that has one.   *)
HasMemory(m) == m.binary.valid => "memory" \in m.binary.has

Sharing(ptr) == {s \in Loaded : modules[s].memory.ptr = ptr}

(* memory.grow within the block: the new size goes to every copy.          *)
GrowInPlace(delta) ==
  LET size == regs.size + delta
  IN  /\ Running /\ HasMemory(modules[Top])
      /\ regs.max # 0 => size <= regs.max
      /\ size <= kMaxLinearMemory
      /\ size <= regs.capacity
      /\ regs' = [regs EXCEPT !.size = size]
      /\ modules' = [s \in Slots |->
           IF s \in Sharing(regs.ptr) THEN [modules[s] EXCEPT !.memory.size = size]
           ELSE modules[s]]
      /\ UNCHANGED <<name_aliases, last_loaded_id, heap, jump_tables, call, frames>>

(* memory.grow into a new block: the block replaces the old one wherever   *)
(* a module holds it, even where the old one is null.                      *)
NewCapacity(size) ==
  LET doubled == IF regs.capacity > 0 THEN regs.capacity * 2 ELSE size
      enough == IF doubled < size THEN size ELSE doubled
  IN  IF enough > kMaxLinearMemory THEN kMaxLinearMemory ELSE enough

Replace(m, ptr, size, capacity) ==
  [m EXCEPT !.memory = [@ EXCEPT !.ptr = ptr, !.size = size, !.capacity = capacity]]

GrowMoves_OwnCopy(delta) ==
  LET size == regs.size + delta
      capacity == NewCapacity(size)
  IN  /\ Running /\ HasMemory(modules[Top])
      /\ regs.max # 0 => size <= regs.max
      /\ size <= kMaxLinearMemory
      /\ size > regs.capacity
      /\ \E a \in Free :
           /\ heap' = [b \in (DOMAIN heap \ {regs.ptr}) \cup {a} |->
                         IF b = a THEN capacity ELSE heap[b]]
           /\ regs' = [regs EXCEPT !.ptr = a, !.size = size, !.capacity = capacity]
           /\ modules' = [s \in Slots |->
                IF s = Top THEN Replace(modules[s], a, size, capacity)
                ELSE modules[s]]
      /\ UNCHANGED <<name_aliases, last_loaded_id, jump_tables, call, frames>>

GrowMoves(delta) ==
  LET size == regs.size + delta
      capacity == NewCapacity(size)
  IN  /\ Running /\ HasMemory(modules[Top])
      /\ regs.max # 0 => size <= regs.max
      /\ size <= kMaxLinearMemory
      /\ size > regs.capacity
      /\ \E a \in Free :
           /\ heap' = [b \in (DOMAIN heap \ {regs.ptr}) \cup {a} |->
                         IF b = a THEN capacity ELSE heap[b]]
           /\ regs' = [regs EXCEPT !.ptr = a, !.size = size, !.capacity = capacity]
           /\ modules' = [s \in Slots |->
                IF s \in Sharing(regs.ptr) THEN Replace(modules[s], a, size, capacity)
                ELSE modules[s]]
      /\ UNCHANGED <<name_aliases, last_loaded_id, jump_tables, call, frames>>

(* table.grow always moves.  It writes the running module's copy, then     *)
(* every copy of the old block, unless there was none.                     *)
TableGrow ==
  LET t == modules[Top].table
      held == IF t.ptr = Null THEN {Top}
              ELSE {s \in Loaded : modules[s].table.ptr = t.ptr}
  IN  /\ Running /\ "table" \in modules[Top].binary.has
      /\ t.size + 1 <= t.max
      /\ \E a \in Free :
           /\ heap' = [b \in (DOMAIN heap \ {t.ptr}) \cup {a} |->
                         IF b = a THEN t.size + 1 ELSE heap[b]]
           /\ modules' = [s \in Slots |->
                IF s \in held
                  THEN [modules[s] EXCEPT !.table = [@ EXCEPT !.ptr = a, !.size = t.size + 1]]
                  ELSE modules[s]]
      /\ UNCHANGED <<name_aliases, last_loaded_id, jump_tables, call, frames, regs>>

(* global.set writes the module's own copy, imported or not.               *)
GlobalSet(v) ==
  /\ Running
  /\ "global" \in modules[Top].binary.has /\ modules[Top].binary.is_mutable
  /\ modules' = [modules EXCEPT ![Top].global = v]
  /\ UNCHANGED <<name_aliases, last_loaded_id, heap, jump_tables, call, frames, regs>>

-----------------------------------------------------------------------------
HostStep ==
  \/ \E load \in Binaries : LoadModule(load.name, load.binary)
  \/ \E n \in Names \cup {Null}, a \in Aliases : RegisterAlias(n, a)
  \/ InstantiateModules
  \/ \E n \in Names \cup {Null} : Execute(n)
  \/ \E s \in Slots : ExecuteByIndex(s)
  \/ UnloadAllModules

InstantiateStep ==
  \/ ImportsOk \/ ImportsFail \/ MemoryOk \/ MemoryFails \/ TablesOk \/ TablesFail
  \/ ApplyElements \/ ApplyData \/ RunStart \/ Instantiated \/ InstantiateReturns
  \/ \E imported \in BOOLEAN : Enter(imported)

GuestStep ==
  \/ Trap \/ CallImport \/ Return \/ TableGrow
  \/ \E delta \in 1 .. kMaxLinearMemory : GrowInPlace(delta) \/ GrowMoves(delta)
  \/ \E v \in 0 .. 1 : GlobalSet(v)

Next == HostStep \/ InstantiateStep \/ GuestStep

Spec == Init /\ [][Next]_vars

-----------------------------------------------------------------------------
TypeOK ==
  /\ modules \in [Slots -> Instance \cup {NoModule}]
  /\ \A i \in DOMAIN name_aliases : /\ name_aliases[i].alias \in Aliases
                                   /\ name_aliases[i].module \in Loaded
  /\ last_loaded_id \in Loaded \cup {0}
  /\ DOMAIN heap \subseteq Addresses /\ \A a \in DOMAIN heap : heap[a] \in Nat
  /\ jump_tables \in 0 .. kMaxJumpTables
  /\ call \in [op : Ops, slot : Slots \cup {0}, target : Loaded \cup {0},
               checked : BOOLEAN, error : BOOLEAN]
  /\ frames \in Seq(Loaded)
  /\ regs \in [ptr : Addresses \cup {Null}, size : Nat, capacity : Nat, max : Nat]

(* A memory or table a module points at is a block in use of the size the  *)
(* module believes it has, and modules with the same memory agree on it,   *)
(* whoever grew or moved it, instantiated or not.                          *)
MemoryViews ==
  \A s \in Loaded :
    LET m == modules[s].memory IN
    m.ptr # Null =>
      /\ m.ptr \in DOMAIN heap /\ heap[m.ptr] = m.capacity /\ m.size <= m.capacity
      /\ \A t \in Sharing(m.ptr) : modules[t].memory.size = m.size

TableViews ==
  \A s \in Loaded :
    LET t == modules[s].table IN
    t.ptr # Null => t.ptr \in DOMAIN heap /\ heap[t.ptr] = t.size

(* A memory a module imported stays the one its exporter has: linking      *)
(* copies a pointer, and no grow by any module in any call may tear the    *)
(* copies apart.                                                           *)
MemoryLinked ==
  \A s \in Loaded :
    LET m == modules[s] IN
    m.memory.shared =>
      /\ m.memory.ptr # Null /\ m.memory.from \in Loaded
      /\ Regs(m) = Regs(modules[m.memory.from])

(* The same of tables, whose linking does not ask whether there is a       *)
(* pointer already.                                                        *)
TableLinked ==
  \A s \in Loaded :
    LET t == modules[s].table IN
    t.shared =>
      /\ t.from \in Loaded
      /\ t.ptr = modules[t.from].table.ptr /\ t.size = modules[t.from].table.size

(* The registers of the frame loop are those of the running module: a      *)
(* memory moved by a callee is not used through the old pointer after the  *)
(* return.                                                                 *)
CacheFresh == Running => regs = Regs(modules[Top])

(* No copy of a pointer into memory or a table diverges from the others or *)
(* dangles: those of importers, of siblings, and of the frame loop.        *)
PointersFresh == MemoryViews /\ TableViews /\ MemoryLinked /\ CacheFresh

(* InstantiateModules answers kOk only when every loaded module is         *)
(* instantiated, though it goes on past a module that failed.              *)
OkMeansInstantiated == At("return") /\ ~call.error /\ ~call.checked /\ call.target = 0 => AllInstantiated

(* Each block is freed by one module: FreeModuleInstance frees the blocks  *)
(* a module does not share, so two owners would free one twice.            *)
OneOwner ==
  \A s, t \in Loaded :
    s # t => (Owned(modules[s]) \ {Null}) \cap (Owned(modules[t]) \ {Null}) = {}

(* UnloadAllModules gives back every block, and so do the grows.           *)
UnloadFrees == Loaded = {} => DOMAIN heap = {} /\ jump_tables = 0

(* Only the code of instantiated modules runs, but for the start function  *)
(* of the module being instantiated.                                       *)
RunsInstantiated ==
  \A i \in DOMAIN frames :
    \/ modules[frames[i]].is_instantiated
    \/ At("started") /\ frames[i] = call.slot

(* An imported global that nobody may set has the exporter's value: it was *)
(* copied after the exporter had it.                                       *)
ConstantsLinked ==
  \A s \in Loaded :
    LET m == modules[s] IN
    m.is_instantiated /\ Imports(m, "global") /\ ~m.binary.is_mutable =>
      m.global_from \in Loaded /\ modules[m.global_from].global = m.global

(* A memory keeps within the limits its module declared or required.       *)
LimitsKept ==
  \A s \in Loaded :
    LET m == modules[s] IN
    m.is_instantiated /\ "memory" \in m.binary.has =>
      /\ m.memory.size >= m.binary.min
      /\ m.binary.max # 0 => m.memory.size <= m.binary.max

(* What a module imported is the exporter's, and of the type it asked for. *)
LinkedAsDeclared == TableLinked /\ ConstantsLinked /\ LimitsKept

-----------------------------------------------------------------------------
(* The modules implement the abstract store: an object is the slot that    *)
(* owns the block, wherever memory.grow and table.grow moved it.           *)
Owners(s, k) ==
  {t \in Loaded : IF k = "memory"
                     THEN /\ ~modules[t].memory.shared
                          /\ modules[t].memory.ptr = modules[s].memory.ptr
                     ELSE /\ ~modules[t].table.shared
                          /\ modules[t].table.ptr = modules[s].table.ptr}

Object(s) ==
  IF s \notin Loaded THEN [k \in {"memory", "table"} |-> 0]
  ELSE [memory |-> IF modules[s].memory.ptr = Null THEN 0 ELSE MinOf(Owners(s, "memory")),
        table |-> IF modules[s].table.ptr = Null THEN 0 ELSE MinOf(Owners(s, "table"))]

Size(s) ==
  IF s \notin Loaded THEN [k \in {"memory", "table"} |-> 0]
  ELSE [memory |-> modules[s].memory.size,
        table |-> IF modules[s].table.ptr = Null THEN 0 ELSE modules[s].table.size]

Status(s) ==
  IF s \notin Loaded THEN "none"
  ELSE IF modules[s].is_instantiated THEN "instantiated" ELSE "loaded"

Abstract == INSTANCE Store WITH
       status <- [s \in Slots |-> Status(s)],
       object <- [s \in Slots |-> Object(s)],
       size <- [s \in Slots |-> Size(s)]

(* Every step of the registry and of the guest is a step of the store: a   *)
(* memory or table is one object however many copies of it there are.      *)
StoreRefined == Abstract!Spec

=============================================================================
