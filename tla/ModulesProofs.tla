--------------------------- MODULE ModulesProofs ---------------------------
(***************************************************************************)
(* Proofs about Modules, for any number of slots, any binaries and any     *)
(* pool: first what holds whatever the host does (types, the copies of     *)
(* pointers, the answer of InstantiateModules), then what a careful host   *)
(* gets (what runs is instantiated, blocks have one owner, links stay what *)
(* was declared), and last that the modules then implement the store:      *)
(* every step of the registry and of the guest is a step of Store or       *)
(* changes nothing there.                                                  *)
(***************************************************************************)
EXTENDS Modules, LinkedListLemmas, FiniteSetTheorems, SequenceTheorems, TLAPS

-----------------------------------------------------------------------------
(* The steps of the loop, those with the imports resolved, and those with  *)
(* the memory in place.                                                    *)
LoopOps == {"imports", "memory", "tables", "elements", "data", "start", "started"}
AfterImports == {"memory", "tables", "elements", "data", "start", "started"}
AfterMemory == {"tables", "elements", "data", "start", "started"}

(* Types, part by part.  Names, calls and frames lead to loaded modules,   *)
(* and so do resolved imports.                                             *)
ModulesTyped ==
  /\ modules \in [Slots -> Instance \cup {NoModule}]
  /\ \A s \in Loaded : modules[s].func \in Slots => modules[s].func \in Loaded

NamesTyped ==
  /\ name_aliases \in Seq([alias : Aliases, module : Loaded])
  /\ last_loaded_id \in Loaded \cup {0}

HeapTyped ==
  /\ heap = [a \in DOMAIN heap |-> heap[a]]
  /\ DOMAIN heap \subseteq Addresses /\ \A a \in DOMAIN heap : heap[a] \in Nat

CallTyped ==
  /\ call \in [op : Ops, slot : Slots \cup {0}, target : Loaded \cup {0},
               checked : BOOLEAN, error : BOOLEAN]
  /\ call.op \in LoopOps => call.slot \in Loaded /\ ~modules[call.slot].is_instantiated
  /\ Running => call.op \in {"started", "execute"}

FramesTyped ==
  /\ frames \in Seq(Loaded)
  /\ regs \in [ptr : Addresses \cup {Null}, size : Nat, capacity : Nat, max : Nat]

Typed == ModulesTyped /\ NamesTyped /\ HeapTyped /\ CallTyped /\ FramesTyped

(* The copies of pointers: a memory is a block of its capacity, and who    *)
(* has the pointer has the size; a table is a block of its size; no block  *)
(* is both.                                                                *)
MemoryInv ==
  \A s \in Loaded :
    LET m == modules[s].memory IN
    /\ m.ptr = Null => m.size = 0 /\ m.capacity = 0 /\ ~m.shared
    /\ m.ptr # Null => m.ptr \in DOMAIN heap /\ heap[m.ptr] = m.capacity /\ m.size <= m.capacity
    /\ m.shared => m.from \in Loaded /\ Regs(modules[s]) = Regs(modules[m.from])
    /\ \A t \in Loaded : modules[t].memory.ptr = m.ptr => modules[t].memory.size = m.size

TableInv ==
  \A s \in Loaded :
    LET t == modules[s].table IN
    /\ t.ptr # Null => t.ptr \in DOMAIN heap /\ heap[t.ptr] = t.size
    /\ t.shared => t.ptr # Null

Apart ==
  \A s, t \in Loaded :
    modules[s].memory.ptr = modules[t].table.ptr => modules[s].memory.ptr = Null

(* An answer of kOk, and where the loop is. *)
OkInv ==
  /\ call.op \in LoopOps /\ ~ call.error =>
       \A t \in Loaded : t < call.slot => modules[t].is_instantiated
  /\ At("return") /\ ~ call.error /\ (call.target = 0 \/ call.checked) => AllInstantiated

(* What a careful host keeps: one module at a time that is not             *)
(* instantiated, and no failure behind what runs.                          *)
HostInv ==
  /\ \A s, t \in Loaded : ~ modules[s].is_instantiated /\ ~ modules[t].is_instantiated => s = t
  /\ call.op \in LoopOps \cup {"execute"} => ~ call.error
  /\ call.op \in LoopOps => call.target = 0 \/ call.checked
  /\ At("return") /\ call.error => call.target = 0 \/ call.checked
  /\ At("return") /\ call.target # 0 /\ ~ call.error => modules[call.target].is_instantiated

(* A module that instantiation has not touched holds nothing. *)
IsNew(m) == /\ m.memory.ptr = Null /\ m.table.ptr = Null
            /\ ~ m.table.shared /\ ~ m.jump_table /\ ~ m.imports_resolved

Untouched == (call.op \in {"idle", "return"} /\ ~ call.error) \/ call.op \in {"imports", "execute"}

NewInv ==
  Untouched => \A s \in Loaded : ~ modules[s].is_instantiated => IsNew(modules[s])

(* Its imports are resolved, its memory is there. *)
Resolved(s) == modules[s].is_instantiated \/ (call.op \in AfterImports /\ call.slot = s)
Whole(s) == modules[s].is_instantiated \/ (call.op \in AfterMemory /\ call.slot = s)

(* What a module links to is instantiated, or the module itself.           *)
SourcesInv ==
  \A s \in Loaded :
    LET m == modules[s] IN
    /\ m.func \in Slots => m.func = s \/ modules[m.func].is_instantiated
    /\ m.global_from # 0 =>
         m.global_from \in Loaded /\ (m.global_from = s \/ modules[m.global_from].is_instantiated)

(* A module with its imports resolved has them all.                        *)
LinkInv ==
  \A s \in Loaded :
    LET m == modules[s] IN
    /\ Resolved(s) => /\ m.binary.valid /\ m.imports_resolved
                      /\ Imports(m, "memory") => m.memory.ptr # Null
                      /\ Imports(m, "table") => m.table.shared
                      /\ Imports(m, "global") => m.global_from # 0
    /\ Whole(s) /\ "memory" \in m.binary.has => m.memory.ptr # Null

Careful == HostInv /\ NewInv /\ SourcesInv /\ LinkInv /\ RunsInstantiated

-----------------------------------------------------------------------------
LEMMA Sizes ==
  /\ kMaxModules \in Nat /\ kMaxLinearMemory \in Nat /\ kMaxTable \in Nat
  /\ kMaxCalls \in Nat /\ kMaxImportChain \in Nat /\ kMaxJumpTables \in Nat
  /\ Slots \subseteq Nat \ {0} /\ Slots \subseteq Int
  /\ 0 \notin Slots /\ Unresolved \notin Slots /\ Host \notin Slots /\ Unlinked \notin Slots
BY ModulesAssumption DEF Slots, Unresolved, Host, Unlinked

LEMMA LeastOf ==
  ASSUME NEW S \in SUBSET Nat, S # {}
  PROVE  MinOf(S) \in S /\ \A t \in S : MinOf(S) <= t
<1>1. \E n \in S : \A k \in S : n <= k BY SmallestExists
<1>2. QED BY <1>1 DEF MinOf

LEMMA GreatestOf ==
  ASSUME NEW S \in SUBSET Slots, S # {}
  PROVE  MaxOf(S) \in S
<1> DEFINE T == {k \in 0 .. kMaxModules : kMaxModules - k \in S}
<1>1. \A s \in S : s \in Nat /\ s <= kMaxModules /\ kMaxModules - s \in T
  BY Sizes DEF Slots
<1>2. T \in SUBSET Nat /\ T # {}
  BY <1>1
<1>3. PICK k \in T : \A j \in T : k <= j
  BY <1>2, SmallestExists
<1>4. kMaxModules - k \in S /\ k \in Nat /\ \A t \in S : t <= kMaxModules - k
  BY <1>1, <1>3, Sizes
<1>5. QED BY <1>4 DEF MaxOf

LEMMA NewestLoaded == ASSUME NEW name PROVE Newest(name) \in Loaded \cup {0}
<1> DEFINE named == {s \in Loaded : modules[s].name = name}
<1>1. named \in SUBSET Slots BY DEF Loaded
<1>2. CASE named = {} BY <1>2 DEF Newest
<1>3. CASE named # {}
  <2>1. MaxOf(named) \in named BY <1>1, <1>3, GreatestOf
  <2>2. QED BY <2>1, <1>3 DEF Newest
<1>4. QED BY <1>2, <1>3

LEMMA AliasesLoaded ==
  ASSUME Typed, NEW i \in DOMAIN name_aliases
  PROVE  name_aliases[i].module \in Loaded /\ name_aliases[i].alias \in Aliases
<1> DEFINE R == [alias : Aliases, module : Loaded]
<1>1. name_aliases \in Seq(R) BY DEF Typed, NamesTyped
<1>2. name_aliases[i] \in R
  <2> HIDE DEF R
  <2>1. QED BY <1>1
<1>3. QED BY <1>2

LEMMA InstanceLoaded ==
  ASSUME Typed, NEW name
  PROVE  GetModuleInstance(name) \in Loaded \cup {0}
<1>1. CASE \E i \in DOMAIN name_aliases : name_aliases[i].alias = name
  <2> DEFINE A == {name_aliases[i] : i \in DOMAIN name_aliases}
  <2>0. PICK i \in DOMAIN name_aliases : name_aliases[i].alias = name BY <1>1
  <2>1. name_aliases[i] \in A OBVIOUS
  <2>2. \A a \in A : a.module \in Loaded
    <3>1. \A j \in DOMAIN name_aliases : name_aliases[j].module \in Loaded BY AliasesLoaded
    <3>2. QED BY <3>1
  <2>3. (CHOOSE a \in A : a.alias = name).module \in Loaded BY <2>0, <2>1, <2>2
  <2>4. QED BY <1>1, <2>3 DEF GetModuleInstance
<1>2. CASE ~ \E i \in DOMAIN name_aliases : name_aliases[i].alias = name
  BY <1>2, NewestLoaded DEF GetModuleInstance
<1>3. QED BY <1>1, <1>2

(* ResolveWasmImportChain stays in every set that the links stay in. *)
LEMMA CalleeStays ==
  ASSUME NEW s, NEW G, modules[s].func \in G, Unresolved \in G,
         \A t \in G : t \in Slots /\ Reexports(t) => modules[t].func \in G
  PROVE  Callee(s) \in G
<1> DEFINE After(t) == IF t \in Slots /\ Reexports(t) THEN modules[t].func ELSE t
           Walk(n, h) == h = [d \in 0 .. n |-> IF d = 0 THEN modules[s].func ELSE After(h[d - 1])]
           Bad == {n \in Nat : ~ \E h : Walk(n, h)}
           hop == CHOOSE h : Walk(kMaxImportChain, h)
           Out == {d \in 0 .. kMaxImportChain : hop[d] \notin G}
<1>1. Bad = {}
  <2> SUFFICES ASSUME Bad # {} PROVE FALSE OBVIOUS
  <2>1. PICK n \in Bad : \A k \in Bad : n <= k
    <3>1. Bad \in SUBSET Nat OBVIOUS
    <3>2. QED BY <3>1, SmallestExists
  <2>2. n # 0
    <3>1. Walk(0, [d \in 0 .. 0 |-> modules[s].func]) OBVIOUS
    <3>2. QED BY <3>1
  <2>3. PICK h : Walk(n - 1, h) BY <2>1, <2>2
  <2> DEFINE g == [d \in 0 .. n |-> IF d = n THEN After(h[n - 1]) ELSE h[d]]
  <2>4. Walk(n, g)
    <3>1. \A d \in 0 .. n - 1 : h[d] = IF d = 0 THEN modules[s].func ELSE After(h[d - 1])
      BY <2>3
    <3> HIDE DEF After
    <3>2. \A d \in 0 .. n : g[d] = IF d = 0 THEN modules[s].func ELSE After(g[d - 1])
      BY <2>2, <3>1
    <3>3. QED BY <3>2
  <2>5. QED BY <2>4
<1>2. Walk(kMaxImportChain, hop)
  BY <1>1, Sizes
<1>3. Out = {}
  <2> SUFFICES ASSUME Out # {} PROVE FALSE OBVIOUS
  <2>1. PICK d \in Out : \A k \in Out : d <= k
    <3>1. Out \in SUBSET Nat BY Sizes
    <3>2. QED BY <3>1, SmallestExists
  <2>2. hop[d] = IF d = 0 THEN modules[s].func ELSE After(hop[d - 1])
    BY <1>2
  <2>3. d # 0 => d - 1 \in 0 .. kMaxImportChain /\ hop[d - 1] \in G
    BY <2>1, Sizes
  <2>4. hop[d] \in G
    BY <2>2, <2>3
  <2>5. QED BY <2>4
<1>4. hop[kMaxImportChain] \in G
  BY <1>3, Sizes
<1>5. Callee(s) = IF hop[kMaxImportChain] \in Slots /\ Reexports(hop[kMaxImportChain])
                    THEN Unresolved ELSE hop[kMaxImportChain]
  BY DEF Callee
<1>6. QED BY <1>4, <1>5

-----------------------------------------------------------------------------
LEMMA BinaryFields ==
  ASSUME NEW b \in BinaryType
  PROVE  /\ b.min \in Nat /\ b.max \in Nat /\ b.table_min \in Nat /\ b.table_max \in Nat
         /\ b.global \in Nat /\ b.valid \in BOOLEAN /\ b.is_mutable \in BOOLEAN
BY DEF BinaryType

LEMMA InstanceFields ==
  ASSUME NEW m \in Instance
  PROVE  /\ m.binary \in BinaryType /\ m.memory \in Memory /\ m.table \in Table
         /\ m.func \in Slots \cup {Unresolved, Host, Unlinked} /\ m.global \in Nat
         /\ m.global_from \in Slots \cup {0} /\ m.name \in Names
         /\ m.jump_table \in BOOLEAN /\ m.imports_resolved \in BOOLEAN
         /\ m.is_instantiated \in BOOLEAN
         /\ m.elem_dropped \in BOOLEAN /\ m.data_dropped \in BOOLEAN
BY DEF Instance

LEMMA MemoryFields ==
  ASSUME NEW x \in Memory
  PROVE  /\ x.ptr \in Addresses \cup {Null} /\ x.size \in Nat /\ x.capacity \in Nat
         /\ x.max \in Nat /\ x.shared \in BOOLEAN /\ x.from \in Slots \cup {0}
BY DEF Memory

LEMMA TableFields ==
  ASSUME NEW x \in Table
  PROVE  /\ x.ptr \in Addresses \cup {Null} /\ x.size \in Nat /\ x.max \in Nat
         /\ x.shared \in BOOLEAN /\ x.from \in Slots \cup {0}
BY DEF Table

LEMMA LoadedInstance ==
  ASSUME Typed, NEW s \in Loaded
  PROVE  s \in Slots /\ modules[s] \in Instance
BY DEF Typed, ModulesTyped, Loaded

LEMMA NewInstanceType ==
  ASSUME NEW name \in Names, NEW b \in BinaryType
  PROVE  /\ NewInstance(name, b) \in Instance
         /\ NewInstance(name, b).memory =
              [ptr |-> Null, size |-> 0, capacity |-> 0,
               max |-> IF "memory" \in DOMAIN b.imports THEN 0 ELSE b.max,
               shared |-> FALSE, from |-> 0]
         /\ NewInstance(name, b).table.ptr = Null /\ ~ NewInstance(name, b).table.shared
         /\ NewInstance(name, b).binary = b /\ NewInstance(name, b).func = Unlinked
         /\ NewInstance(name, b).global_from = 0 /\ ~ NewInstance(name, b).jump_table
         /\ ~ NewInstance(name, b).imports_resolved /\ ~ NewInstance(name, b).is_instantiated
<1> DEFINE mem == [ptr |-> Null, size |-> 0, capacity |-> 0,
                   max |-> IF "memory" \in DOMAIN b.imports THEN 0 ELSE b.max,
                   shared |-> FALSE, from |-> 0]
           tab == [ptr |-> Null,
                   size |-> IF "table" \in DOMAIN b.imports THEN 0 ELSE b.table_min,
                   max |-> IF "table" \in DOMAIN b.imports THEN kMaxTable ELSE b.table_max,
                   shared |-> FALSE, from |-> 0]
           g == IF "global" \in DOMAIN b.imports THEN 0 ELSE b.global
<1>1. mem \in Memory BY BinaryFields DEF Memory
<1>2. tab \in Table /\ tab.ptr = Null /\ tab.shared = FALSE BY BinaryFields, Sizes DEF Table
<1>3. g \in Nat BY BinaryFields
<1>4. NewInstance(name, b) =
        [name |-> name, binary |-> b, func |-> Unlinked, memory |-> mem, table |-> tab,
         global |-> g, global_from |-> 0, jump_table |-> FALSE, imports_resolved |-> FALSE,
         is_instantiated |-> FALSE, elem_dropped |-> b.elems = 0, data_dropped |-> b.data = 0]
  BY DEF NewInstance
<1> HIDE DEF mem, tab, g
<1>5. NewInstance(name, b) \in Instance
  BY <1>1, <1>2, <1>3, <1>4 DEF Instance
<1>6. /\ NewInstance(name, b).memory = mem /\ NewInstance(name, b).table = tab
      /\ NewInstance(name, b).binary = b /\ NewInstance(name, b).func = Unlinked
      /\ NewInstance(name, b).global_from = 0 /\ ~ NewInstance(name, b).jump_table
      /\ ~ NewInstance(name, b).imports_resolved /\ ~ NewInstance(name, b).is_instantiated
  BY <1>4
<1>7. QED BY <1>2, <1>5, <1>6 DEF mem

(* What ResolveImports links comes from a loaded module, and it leaves the *)
(* rest of the instance alone.                                             *)
LinksMemory(m, r) ==
  \/ r.memory = m.memory
  \/ /\ Imports(m, "memory") /\ m.memory.ptr = Null
     /\ \E t \in Loaded :
          /\ modules[t].memory.ptr # Null
          /\ Compatible(m.binary.min, m.binary.max, modules[t].memory.size, modules[t].memory.max)
          /\ r.memory = [modules[t].memory EXCEPT !.shared = TRUE, !.from = t]

LinksTable(m, r) ==
  \/ r.table = m.table
  \/ /\ Imports(m, "table") /\ ~ m.table.shared
     /\ \E t \in Loaded :
          /\ modules[t].table.ptr # Null
          /\ r.table = [modules[t].table EXCEPT !.shared = TRUE, !.from = t]

LinksGlobal(m, r) ==
  \/ r.global = m.global /\ r.global_from = m.global_from
  \/ /\ Imports(m, "global")
     /\ \E t \in Loaded :
          /\ modules[t].binary.is_mutable = m.binary.is_mutable
          /\ r.global = modules[t].global /\ r.global_from = t

LEMMA ResolveLinks ==
  ASSUME Typed, NEW m \in Instance
  PROVE  LET r == ResolveImports(m) IN
         /\ LinksMemory(m, r) /\ LinksTable(m, r) /\ LinksGlobal(m, r)
         /\ r.func = m.func \/ r.func \in Loaded \cup {Unresolved, Host}
         /\ r.binary = m.binary /\ r.name = m.name /\ r.jump_table = m.jump_table
         /\ r.is_instantiated = m.is_instantiated
         /\ r.elem_dropped = m.elem_dropped /\ r.data_dropped = m.data_dropped
         /\ r.imports_resolved \in BOOLEAN
         /\ ~ m.imports_resolved /\ r.imports_resolved =>
              /\ Imports(m, "memory") => r.memory.ptr # Null
              /\ Imports(m, "table") => r.table.shared
              /\ Imports(m, "global") => r.global_from # 0
         /\ DOMAIN r = DOMAIN m
<1> DEFINE r == ResolveImports(m)
           res == [m EXCEPT
            !.func = IF Imports(m, "func") THEN FuncAfter(m) ELSE @,
            !.table = IF Imports(m, "table") THEN TableAfter(m) ELSE @,
            !.memory = IF Imports(m, "memory") THEN MemoryAfter(m) ELSE @,
            !.global = IF Imports(m, "global") /\ GlobalLinks(m)
                         THEN Peer(m, "global").global ELSE @,
            !.global_from = IF Imports(m, "global") /\ GlobalLinks(m)
                              THEN Source(m, "global") ELSE @,
            !.imports_resolved = ImportsResolve(m)]
<1>1. /\ m.imports_resolved => r = m
      /\ ~ m.imports_resolved => r = res
  BY InstanceFields DEF ResolveImports
<1>2. /\ res.func = IF Imports(m, "func") THEN FuncAfter(m) ELSE m.func
      /\ res.table = IF Imports(m, "table") THEN TableAfter(m) ELSE m.table
      /\ res.memory = IF Imports(m, "memory") THEN MemoryAfter(m) ELSE m.memory
      /\ res.global = IF Imports(m, "global") /\ GlobalLinks(m) THEN Peer(m, "global").global
                      ELSE m.global
      /\ res.global_from = IF Imports(m, "global") /\ GlobalLinks(m) THEN Source(m, "global")
                           ELSE m.global_from
      /\ res.imports_resolved = ImportsResolve(m)
      /\ res.binary = m.binary /\ res.name = m.name /\ res.jump_table = m.jump_table
      /\ res.is_instantiated = m.is_instantiated
      /\ res.elem_dropped = m.elem_dropped /\ res.data_dropped = m.data_dropped
      /\ DOMAIN res = DOMAIN m
  BY DEF Instance
<1> HIDE DEF r, res
<1>3. \A k \in Kinds : Exported(m, k) => Source(m, k) \in Loaded
  BY InstanceLoaded DEF Exported, Source
<1>4. LinksMemory(m, r)
  BY <1>1, <1>2, <1>3 DEF LinksMemory, MemoryAfter, MemoryLinks, Peer, Kinds
<1>5. LinksTable(m, r)
  BY <1>1, <1>2, <1>3 DEF LinksTable, TableAfter, TableLinks, Peer, Kinds
<1>6. LinksGlobal(m, r)
  BY <1>1, <1>2, <1>3 DEF LinksGlobal, GlobalLinks, Peer, Kinds
<1>7. r.func = m.func \/ r.func \in Loaded \cup {Unresolved, Host}
  BY <1>1, <1>2, <1>3 DEF FuncAfter, Kinds
<1>8. ImportsResolve(m) \in BOOLEAN
  BY DEF ImportsResolve
<1>9. ~ m.imports_resolved /\ r.imports_resolved =>
        /\ Imports(m, "memory") => r.memory.ptr # Null
        /\ Imports(m, "table") => r.table.shared
        /\ Imports(m, "global") => r.global_from # 0
  <2> SUFFICES ASSUME ~ m.imports_resolved, r.imports_resolved
      PROVE  /\ Imports(m, "memory") => r.memory.ptr # Null
             /\ Imports(m, "table") => r.table.shared
             /\ Imports(m, "global") => r.global_from # 0
    OBVIOUS
  <2>1. ImportsResolve(m) /\ r = res BY <1>1, <1>2
  <2>2. Imports(m, "memory") => r.memory.ptr # Null
    BY <2>1, <1>2 DEF ImportsResolve
  <2>3. Imports(m, "table") => r.table.shared
    BY <2>1, <1>2 DEF ImportsResolve
  <2>4. Imports(m, "global") => r.global_from # 0
    BY <2>1, <1>2 DEF ImportsResolve, GlobalLinks, Exported
  <2>5. QED BY <2>2, <2>3, <2>4
<1>10. /\ r.binary = m.binary /\ r.name = m.name /\ r.jump_table = m.jump_table
       /\ r.is_instantiated = m.is_instantiated
       /\ r.elem_dropped = m.elem_dropped /\ r.data_dropped = m.data_dropped
       /\ r.imports_resolved \in BOOLEAN /\ DOMAIN r = DOMAIN m
  BY <1>1, <1>2, <1>8, InstanceFields
<1>11. QED BY <1>4, <1>5, <1>6, <1>7, <1>9, <1>10 DEF r

LEMMA ResolveType ==
  ASSUME Typed, NEW m \in Instance
  PROVE  ResolveImports(m) \in Instance
<1> DEFINE f == IF Imports(m, "func") THEN FuncAfter(m) ELSE m.func
           tb == IF Imports(m, "table") THEN TableAfter(m) ELSE m.table
           mem == IF Imports(m, "memory") THEN MemoryAfter(m) ELSE m.memory
           g == IF Imports(m, "global") /\ GlobalLinks(m) THEN Peer(m, "global").global
                ELSE m.global
           gf == IF Imports(m, "global") /\ GlobalLinks(m) THEN Source(m, "global")
                 ELSE m.global_from
           ir == ImportsResolve(m)
<1>1. \A k \in Kinds : Exported(m, k) => Source(m, k) \in Slots /\ Peer(m, k) \in Instance
  BY InstanceLoaded, LoadedInstance DEF Exported, Source, Peer
<1>2. f \in Slots \cup {Unresolved, Host, Unlinked}
  BY <1>1, InstanceFields DEF FuncAfter, Kinds
<1>3. tb \in Table
  BY <1>1, InstanceFields DEF TableAfter, TableLinks, Kinds, Table
<1>4. mem \in Memory
  BY <1>1, InstanceFields DEF MemoryAfter, MemoryLinks, Kinds, Memory
<1>5. g \in Nat /\ gf \in Slots \cup {0}
  BY <1>1, InstanceFields DEF GlobalLinks, Kinds
<1>6. ir \in BOOLEAN BY DEF ImportsResolve
<1>7. ~ m.imports_resolved =>
        ResolveImports(m) =
          [m EXCEPT !.func = f, !.table = tb, !.memory = mem, !.global = g,
                    !.global_from = gf, !.imports_resolved = ir]
  BY DEF ResolveImports
<1>8. m.imports_resolved => ResolveImports(m) = m
  BY DEF ResolveImports
<1> HIDE DEF f, tb, mem, g, gf, ir
<1>9. [m EXCEPT !.func = f, !.table = tb, !.memory = mem, !.global = g,
                !.global_from = gf, !.imports_resolved = ir] \in Instance
  BY <1>2, <1>3, <1>4, <1>5, <1>6 DEF Instance
<1>10. QED BY <1>7, <1>8, <1>9, InstanceFields

(* One slot gets another instance. *)
LEMMA UpdateSlot ==
  ASSUME Typed, NEW s \in Loaded, NEW r \in Instance,
         modules' = [modules EXCEPT ![s] = r],
         r.func \in Slots => r.func \in Loaded
  PROVE  /\ Loaded' = Loaded /\ ModulesTyped'
         /\ modules'[s] = r /\ \A t \in Slots : t # s => modules'[t] = modules[t]
<1>1. s \in Slots /\ modules[s] # NoModule /\ r # NoModule
  BY ModulesAssumption DEF Loaded
<1>2. modules \in [Slots -> Instance \cup {NoModule}] BY DEF Typed, ModulesTyped
<1>3. modules'[s] = r /\ \A t \in Slots : t # s => modules'[t] = modules[t]
  BY <1>1, <1>2
<1>4. modules' \in [Slots -> Instance \cup {NoModule}] BY <1>1, <1>2
<1>5. Loaded' = Loaded BY <1>1, <1>3 DEF Loaded
<1>6. QED BY <1>3, <1>4, <1>5 DEF Typed, ModulesTyped

(* Every loaded instance may change. *)
LEMMA UpdateAll ==
  ASSUME Typed, DOMAIN modules' = Slots, modules' = [s \in Slots |-> modules'[s]],
         \A s \in Loaded : modules'[s] \in Instance /\ modules'[s].func = modules[s].func,
         \A s \in Slots \ Loaded : modules'[s] = NoModule
  PROVE  Loaded' = Loaded /\ ModulesTyped'
<1>1. \A s \in Loaded : modules'[s] # NoModule BY ModulesAssumption
<1>2. Loaded' = Loaded BY <1>1 DEF Loaded
<1>3. \A s \in Slots : modules'[s] \in Instance \cup {NoModule} OBVIOUS
<1>4. modules' \in [Slots -> Instance \cup {NoModule}]
  <2> HIDE DEF Instance
  <2>1. QED BY <1>3
<1>5. QED BY <1>2, <1>4 DEF Typed, ModulesTyped

LEMMA CallFields ==
  ASSUME Typed
  PROVE  /\ call.op \in Ops /\ call.slot \in Slots \cup {0} /\ call.target \in Loaded \cup {0}
         /\ call.checked \in BOOLEAN /\ call.error \in BOOLEAN
         /\ call = [op |-> call.op, slot |-> call.slot, target |-> call.target,
                    checked |-> call.checked, error |-> call.error]
BY DEF Typed, CallTyped

(* The next module of the loop is the first that is not instantiated. *)
LEMMA AdvanceFacts ==
  ASSUME Typed,
         NEW c \in [op : Ops, slot : Slots \cup {0}, target : Loaded \cup {0},
                    checked : BOOLEAN, error : BOOLEAN]
  PROVE  /\ Advance(c) \in [op : Ops, slot : Slots \cup {0}, target : Loaded \cup {0},
                            checked : BOOLEAN, error : BOOLEAN]
         /\ Advance(c).target = c.target /\ Advance(c).checked = c.checked
         /\ Advance(c).error = c.error
         /\ \/ /\ Advance(c).op = "return"
               /\ \A t \in Loaded : t > c.slot => modules[t].is_instantiated
            \/ /\ Advance(c).op = "imports" /\ Advance(c).slot \in Loaded
               /\ Advance(c).slot > c.slot /\ ~ modules[Advance(c).slot].is_instantiated
               /\ \A t \in Loaded : t > c.slot /\ t < Advance(c).slot => modules[t].is_instantiated
<1>1. CASE Pending(c.slot) = {}
  <2>1. Advance(c) = [c EXCEPT !.op = "return"] BY <1>1 DEF Advance
  <2>2. \A t \in Loaded : t > c.slot => modules[t].is_instantiated BY <1>1 DEF Pending
  <2>3. QED BY <2>1, <2>2 DEF Ops
<1>2. CASE Pending(c.slot) # {}
  <2> DEFINE n == MinOf(Pending(c.slot))
  <2>1. Pending(c.slot) \in SUBSET Nat BY Sizes DEF Pending, Loaded
  <2>2. n \in Pending(c.slot) /\ \A t \in Pending(c.slot) : n <= t BY <1>2, <2>1, LeastOf
  <2>3. n \in Loaded /\ n > c.slot /\ ~ modules[n].is_instantiated BY <2>2 DEF Pending
  <2>4. n \in Slots BY <2>3 DEF Loaded
  <2>5. \A t \in Loaded : t > c.slot /\ t < n => modules[t].is_instantiated
    <3> HIDE DEF n
    <3>1. SUFFICES ASSUME NEW t \in Loaded, t > c.slot, t < n, ~ modules[t].is_instantiated
          PROVE FALSE OBVIOUS
    <3>2. t \in Pending(c.slot) BY <3>1 DEF Pending
    <3>3. n <= t /\ n \in Nat /\ t \in Nat BY <2>1, <2>2, <3>2
    <3>4. QED BY <3>1, <3>3
  <2>6. Advance(c) = [c EXCEPT !.op = "imports", !.slot = n] BY <1>2 DEF Advance
  <2> HIDE DEF n
  <2>7. QED BY <2>3, <2>4, <2>5, <2>6 DEF Ops
<1>3. QED BY <1>1, <1>2

-----------------------------------------------------------------------------
(* What the steps leave alone, part by part. *)
KeepsShape == Loaded' = Loaded /\ \A s \in Loaded : modules'[s].binary = modules[s].binary
KeepsMemory == \A s \in Loaded : modules'[s].memory = modules[s].memory
KeepsTable == \A s \in Loaded : modules'[s].table = modules[s].table
KeepsFunc == \A s \in Loaded : modules'[s].func = modules[s].func
KeepsGlobal == \A s \in Loaded : /\ modules'[s].global = modules[s].global
                                 /\ modules'[s].global_from = modules[s].global_from
KeepsLinks == \A s \in Loaded : modules'[s].imports_resolved = modules[s].imports_resolved
KeepsJump == \A s \in Loaded : modules'[s].jump_table = modules[s].jump_table
KeepsState == \A s \in Loaded : modules'[s].is_instantiated = modules[s].is_instantiated

LEMMA KeptAll ==
  ASSUME Typed, modules' = modules
  PROVE  /\ ModulesTyped' /\ KeepsShape /\ KeepsMemory /\ KeepsTable /\ KeepsFunc
         /\ KeepsGlobal /\ KeepsLinks /\ KeepsJump /\ KeepsState
BY DEF Typed, ModulesTyped, KeepsShape, KeepsMemory, KeepsTable, KeepsFunc, KeepsGlobal,
       KeepsLinks, KeepsJump, KeepsState, Loaded

LEMMA LoopSlot ==
  ASSUME Typed, call.op \in LoopOps
  PROVE  /\ call.slot \in Loaded /\ call.slot \in Slots /\ Mod \in Instance
         /\ Mod = modules[call.slot] /\ ~ Mod.is_instantiated
BY LoadedInstance DEF Typed, CallTyped, Mod

LEMMA FreshBlock ==
  ASSUME Typed, NEW a \in Free
  PROVE  /\ a \in Addresses /\ a \notin DOMAIN heap /\ a # Null
BY ModulesAssumption DEF Free

LEMMA ImportsEffect ==
  ASSUME Typed, ImportsOk \/ ImportsFail
  PROVE  /\ call.slot \in Loaded /\ Mod \in Instance /\ Mod = modules[call.slot]
         /\ Loaded' = Loaded /\ ModulesTyped' /\ KeepsShape /\ KeepsState
         /\ \A t \in Slots : t # call.slot => modules'[t] = modules[t]
         /\ LET r == modules'[call.slot] IN
            /\ LinksMemory(Mod, r) /\ LinksTable(Mod, r) /\ LinksGlobal(Mod, r)
            /\ r.func = Mod.func \/ r.func \in Loaded \cup {Unresolved, Host}
            /\ ~ Mod.imports_resolved /\ r.imports_resolved =>
              /\ Imports(Mod, "memory") => r.memory.ptr # Null
              /\ Imports(Mod, "table") => r.table.shared
              /\ Imports(Mod, "global") => r.global_from # 0
            /\ ImportsOk => r.jump_table /\ r.imports_resolved /\ Mod.binary.valid
            /\ ImportsFail => r.jump_table = Mod.jump_table
<1> DEFINE m == ResolveImports(Mod)
           n == [m EXCEPT !.jump_table = TRUE]
<1>1. call.slot \in Loaded /\ call.slot \in Slots /\ Mod \in Instance /\ Mod = modules[call.slot]
  BY LoopSlot DEF ImportsOk, ImportsFail, At, LoopOps
<1>2. m \in Instance BY <1>1, ResolveType
<1>3. /\ LinksMemory(Mod, m) /\ LinksTable(Mod, m) /\ LinksGlobal(Mod, m)
      /\ m.func = Mod.func \/ m.func \in Loaded \cup {Unresolved, Host}
      /\ m.binary = Mod.binary /\ m.jump_table = Mod.jump_table
      /\ m.is_instantiated = Mod.is_instantiated
      /\ ~ Mod.imports_resolved /\ m.imports_resolved =>
           /\ Imports(Mod, "memory") => m.memory.ptr # Null
           /\ Imports(Mod, "table") => m.table.shared
           /\ Imports(Mod, "global") => m.global_from # 0
  BY <1>1, ResolveLinks
<1>4. /\ n \in Instance /\ n.memory = m.memory /\ n.table = m.table /\ n.func = m.func
      /\ n.global = m.global /\ n.global_from = m.global_from /\ n.binary = m.binary
      /\ n.imports_resolved = m.imports_resolved /\ n.is_instantiated = m.is_instantiated
      /\ n.jump_table = TRUE
  <2> HIDE DEF m
  <2>1. QED BY <1>2 DEF Instance
<1>5. /\ ImportsOk => modules' = [modules EXCEPT ![call.slot] = n]
      /\ ImportsFail => modules' = [modules EXCEPT ![call.slot] = m]
      /\ ImportsOk => m.imports_resolved /\ m.binary.valid
  BY DEF ImportsOk, ImportsFail
<1> HIDE DEF m, n
<1>6. Mod.func \in Slots => Mod.func \in Loaded BY <1>1 DEF Typed, ModulesTyped
<1>7. /\ m.func \in Slots => m.func \in Loaded
      /\ n.func \in Slots => n.func \in Loaded
  BY <1>3, <1>4, <1>6, Sizes
<1>8. /\ Loaded' = Loaded /\ ModulesTyped'
      /\ \A t \in Slots : t # call.slot => modules'[t] = modules[t]
      /\ ImportsOk => modules'[call.slot] = n
      /\ ImportsFail => modules'[call.slot] = m
  BY <1>1, <1>2, <1>4, <1>5, <1>7, UpdateSlot
<1>9. \A s \in Loaded : s \in Slots BY DEF Loaded
<1>10. KeepsShape /\ KeepsState
  BY <1>1, <1>3, <1>4, <1>8, <1>9 DEF KeepsShape, KeepsState
<1>11. LET r == modules'[call.slot] IN
            /\ LinksMemory(Mod, r) /\ LinksTable(Mod, r) /\ LinksGlobal(Mod, r)
  <2>1. CASE ImportsOk
    <3>1. LinksMemory(Mod, n) BY <1>3, <1>4 DEF LinksMemory
    <3>2. LinksTable(Mod, n) BY <1>3, <1>4 DEF LinksTable
    <3>3. LinksGlobal(Mod, n) BY <1>3, <1>4 DEF LinksGlobal
    <3>4. QED BY <1>8, <2>1, <3>1, <3>2, <3>3
  <2>2. CASE ImportsFail
    BY <1>3, <1>8, <2>2
  <2>3. QED BY <2>1, <2>2
<1>12. QED BY <1>1, <1>3, <1>4, <1>5, <1>8, <1>10, <1>11

LEMMA MemoryEffect ==
  ASSUME Typed, MemoryOk
  PROVE  /\ call.slot \in Loaded /\ Mod \in Instance /\ Mod = modules[call.slot]
         /\ ModulesTyped' /\ KeepsShape /\ KeepsTable /\ KeepsFunc
         /\ KeepsGlobal /\ KeepsLinks /\ KeepsJump /\ KeepsState
         /\ \A t \in Slots : t # call.slot => modules'[t] = modules[t]
         /\ \/ modules' = modules /\ heap' = heap /\ ~ (OwnsMemory(Mod) /\ Mod.memory.ptr = Null)
            \/ /\ OwnsMemory(Mod) /\ Mod.memory.ptr = Null
               /\ \E a \in Free :
                    /\ heap' = With(a, Mod.binary.min)
                    /\ modules'[call.slot].memory =
                         [Mod.memory EXCEPT !.ptr = a, !.size = Mod.binary.min,
                                            !.capacity = Mod.binary.min]
<1>1. call.slot \in Loaded /\ call.slot \in Slots /\ Mod \in Instance /\ Mod = modules[call.slot]
  BY LoopSlot DEF MemoryOk, At, LoopOps
<1>2. CASE OwnsMemory(Mod) /\ Mod.memory.ptr = Null
  <2>1. PICK a \in Free :
                 /\ heap' = With(a, Mod.binary.min)
                 /\ modules' = [modules EXCEPT
                      ![call.slot].memory = [@ EXCEPT !.ptr = a, !.size = Mod.binary.min,
                                                      !.capacity = Mod.binary.min]]
    BY <1>2 DEF MemoryOk
  <2> DEFINE mem == [Mod.memory EXCEPT !.ptr = a, !.size = Mod.binary.min,
                                       !.capacity = Mod.binary.min]
             n == [Mod EXCEPT !.memory = mem]
  <2>2. mem \in Memory
    <3>1. Mod.memory \in Memory /\ Mod.binary.min \in Nat /\ a \in Addresses
      BY <1>1, InstanceFields, BinaryFields, FreshBlock
    <3>2. QED BY <3>1 DEF Memory
  <2>3. modules' = [modules EXCEPT ![call.slot] = n]
    BY <2>1, <1>1 DEF Mod
  <2> HIDE DEF mem
  <2>4. /\ n \in Instance /\ n.memory = mem /\ n.table = Mod.table /\ n.func = Mod.func
        /\ n.global = Mod.global /\ n.global_from = Mod.global_from /\ n.binary = Mod.binary
        /\ n.imports_resolved = Mod.imports_resolved /\ n.is_instantiated = Mod.is_instantiated
        /\ n.jump_table = Mod.jump_table
    BY <1>1, <2>2 DEF Instance
  <2> HIDE DEF n
  <2>5. n.func \in Slots => n.func \in Loaded BY <1>1, <2>4 DEF Typed, ModulesTyped
  <2>6. /\ Loaded' = Loaded /\ ModulesTyped' /\ modules'[call.slot] = n
        /\ \A t \in Slots : t # call.slot => modules'[t] = modules[t]
    BY <1>1, <2>3, <2>4, <2>5, UpdateSlot
  <2>7. \A s \in Loaded : s \in Slots BY DEF Loaded
  <2>8. /\ KeepsShape /\ KeepsTable /\ KeepsFunc
        /\ KeepsGlobal /\ KeepsLinks /\ KeepsJump /\ KeepsState
    BY <1>1, <2>4, <2>6, <2>7 DEF KeepsShape, KeepsTable, KeepsFunc, KeepsGlobal,
       KeepsLinks, KeepsJump, KeepsState
  <2>9. modules'[call.slot].memory = mem BY <2>4, <2>6
  <2>10. QED BY <1>1, <1>2, <2>1, <2>6, <2>8, <2>9 DEF mem
<1>3. CASE ~ (OwnsMemory(Mod) /\ Mod.memory.ptr = Null)
  <2>1. modules' = modules /\ heap' = heap BY <1>3 DEF MemoryOk
  <2>2. QED BY <1>1, <1>3, <2>1, KeptAll
<1>4. QED BY <1>2, <1>3

LEMMA TableEffect ==
  ASSUME Typed, TablesOk
  PROVE  /\ call.slot \in Loaded /\ Mod \in Instance /\ Mod = modules[call.slot]
         /\ ModulesTyped' /\ KeepsShape /\ KeepsMemory /\ KeepsFunc
         /\ KeepsGlobal /\ KeepsLinks /\ KeepsJump /\ KeepsState
         /\ \A t \in Slots : t # call.slot => modules'[t] = modules[t]
         /\ \/ modules' = modules /\ heap' = heap
            \/ /\ NeedsTable(Mod)
               /\ \E a \in Free :
                    /\ heap' = With(a, Mod.table.size)
                    /\ modules'[call.slot].table = [Mod.table EXCEPT !.ptr = a]
<1>1. call.slot \in Loaded /\ call.slot \in Slots /\ Mod \in Instance /\ Mod = modules[call.slot]
  BY LoopSlot DEF TablesOk, At, LoopOps
<1>2. CASE NeedsTable(Mod)
  <2>1. PICK a \in Free : /\ heap' = With(a, Mod.table.size)
                          /\ modules' = [modules EXCEPT ![call.slot].table.ptr = a]
    BY <1>2 DEF TablesOk
  <2> DEFINE tab == [Mod.table EXCEPT !.ptr = a]
             n == [Mod EXCEPT !.table = tab]
  <2>2. tab \in Table
    BY <1>1, InstanceFields, FreshBlock DEF Table
  <2>3. modules' = [modules EXCEPT ![call.slot] = n]
    BY <2>1, <1>1 DEF Mod
  <2> HIDE DEF tab
  <2>4. /\ n \in Instance /\ n.table = tab /\ n.memory = Mod.memory /\ n.func = Mod.func
        /\ n.global = Mod.global /\ n.global_from = Mod.global_from /\ n.binary = Mod.binary
        /\ n.imports_resolved = Mod.imports_resolved /\ n.is_instantiated = Mod.is_instantiated
        /\ n.jump_table = Mod.jump_table
    BY <1>1, <2>2 DEF Instance
  <2> HIDE DEF n
  <2>5. n.func \in Slots => n.func \in Loaded BY <1>1, <2>4 DEF Typed, ModulesTyped
  <2>6. /\ Loaded' = Loaded /\ ModulesTyped' /\ modules'[call.slot] = n
        /\ \A t \in Slots : t # call.slot => modules'[t] = modules[t]
    BY <1>1, <2>3, <2>4, <2>5, UpdateSlot
  <2>7. \A s \in Loaded : s \in Slots BY DEF Loaded
  <2>8. /\ KeepsShape /\ KeepsMemory /\ KeepsFunc
        /\ KeepsGlobal /\ KeepsLinks /\ KeepsJump /\ KeepsState
    BY <1>1, <2>4, <2>6, <2>7 DEF KeepsShape, KeepsMemory, KeepsFunc, KeepsGlobal,
       KeepsLinks, KeepsJump, KeepsState
  <2>9. modules'[call.slot].table = tab BY <2>4, <2>6
  <2>10. QED BY <1>1, <1>2, <2>1, <2>6, <2>8, <2>9 DEF tab
<1>3. CASE ~ NeedsTable(Mod)
  <2>1. modules' = modules /\ heap' = heap BY <1>3 DEF TablesOk
  <2>2. QED BY <1>1, <2>1, KeptAll
<1>4. QED BY <1>2, <1>3

LEMMA FlagEffect ==
  ASSUME Typed, ApplyElements \/ ApplyData
  PROVE  /\ call.slot \in Loaded /\ Mod \in Instance /\ Mod = modules[call.slot]
         /\ ModulesTyped' /\ KeepsShape /\ KeepsMemory /\ KeepsTable /\ KeepsFunc
         /\ KeepsGlobal /\ KeepsLinks /\ KeepsJump /\ KeepsState
<1>1. call.slot \in Loaded /\ call.slot \in Slots /\ Mod \in Instance /\ Mod = modules[call.slot]
  BY LoopSlot DEF ApplyElements, ApplyData, At, LoopOps
<1> DEFINE e == [Mod EXCEPT !.elem_dropped = TRUE]
           d == [Mod EXCEPT !.data_dropped = TRUE]
<1>2. modules' = modules \/ modules' = [modules EXCEPT ![call.slot] = e]
      \/ modules' = [modules EXCEPT ![call.slot] = d]
  BY <1>1 DEF ApplyElements, ApplyData, Mod
<1>3. \A n \in {e, d} :
        /\ n \in Instance /\ n.table = Mod.table /\ n.memory = Mod.memory /\ n.func = Mod.func
        /\ n.global = Mod.global /\ n.global_from = Mod.global_from /\ n.binary = Mod.binary
        /\ n.imports_resolved = Mod.imports_resolved /\ n.is_instantiated = Mod.is_instantiated
        /\ n.jump_table = Mod.jump_table
  BY <1>1 DEF Instance
<1> HIDE DEF e, d
<1>4. Mod.func \in Slots => Mod.func \in Loaded BY <1>1 DEF Typed, ModulesTyped
<1>5. \A s \in Loaded : s \in Slots BY DEF Loaded
<1>6. ASSUME NEW n \in {e, d}, modules' = [modules EXCEPT ![call.slot] = n]
      PROVE  /\ ModulesTyped' /\ KeepsShape /\ KeepsMemory /\ KeepsTable /\ KeepsFunc
             /\ KeepsGlobal /\ KeepsLinks /\ KeepsJump /\ KeepsState
  <2>1. n.func \in Slots => n.func \in Loaded BY <1>3, <1>4
  <2>2. /\ Loaded' = Loaded /\ ModulesTyped' /\ modules'[call.slot] = n
        /\ \A t \in Slots : t # call.slot => modules'[t] = modules[t]
    BY <1>1, <1>3, <1>6, <2>1, UpdateSlot
  <2>3. QED
    BY <1>1, <1>3, <1>5, <2>2 DEF KeepsShape, KeepsMemory, KeepsTable, KeepsFunc,
       KeepsGlobal, KeepsLinks, KeepsJump, KeepsState
<1>7. QED BY <1>1, <1>2, <1>6, KeptAll

LEMMA InstantiatedEffect ==
  ASSUME Typed, Instantiated
  PROVE  /\ call.slot \in Loaded /\ Mod \in Instance /\ Mod = modules[call.slot]
         /\ ModulesTyped' /\ KeepsShape /\ KeepsMemory /\ KeepsTable /\ KeepsFunc
         /\ KeepsGlobal /\ KeepsLinks /\ KeepsJump
         /\ modules'[call.slot].is_instantiated
         /\ \A t \in Slots : t # call.slot => modules'[t] = modules[t]
<1>1. call.slot \in Loaded /\ call.slot \in Slots /\ Mod \in Instance /\ Mod = modules[call.slot]
  BY LoopSlot DEF Instantiated, At, LoopOps
<1> DEFINE n == [Mod EXCEPT !.is_instantiated = TRUE]
<1>2. modules' = [modules EXCEPT ![call.slot] = n]
  BY <1>1 DEF Instantiated, Mod
<1>3. /\ n \in Instance /\ n.table = Mod.table /\ n.memory = Mod.memory /\ n.func = Mod.func
      /\ n.global = Mod.global /\ n.global_from = Mod.global_from /\ n.binary = Mod.binary
      /\ n.imports_resolved = Mod.imports_resolved /\ n.is_instantiated = TRUE
      /\ n.jump_table = Mod.jump_table
  BY <1>1 DEF Instance
<1> HIDE DEF n
<1>4. n.func \in Slots => n.func \in Loaded BY <1>1, <1>3 DEF Typed, ModulesTyped
<1>5. \A s \in Loaded : s \in Slots BY DEF Loaded
<1>6. /\ Loaded' = Loaded /\ ModulesTyped' /\ modules'[call.slot] = n
      /\ \A t \in Slots : t # call.slot => modules'[t] = modules[t]
  BY <1>1, <1>2, <1>3, <1>4, UpdateSlot
<1>7. /\ KeepsShape /\ KeepsMemory /\ KeepsTable /\ KeepsFunc
      /\ KeepsGlobal /\ KeepsLinks /\ KeepsJump
  BY <1>1, <1>3, <1>5, <1>6 DEF KeepsShape, KeepsMemory, KeepsTable, KeepsFunc,
     KeepsGlobal, KeepsLinks, KeepsJump
<1>8. QED BY <1>1, <1>3, <1>6, <1>7

LEMMA RunningTop ==
  ASSUME Typed, Running
  PROVE  /\ Len(frames) \in Nat \ {0} /\ Top \in Loaded /\ Top \in Slots
         /\ modules[Top] \in Instance
<1>1. frames \in Seq(Loaded) /\ frames # << >> BY DEF Typed, FramesTyped, Running
<1>2. Len(frames) \in Nat \ {0} BY <1>1, EmptySeq
<1>3. Top \in Loaded BY <1>1, <1>2, ElementOfSeq DEF Top
<1>4. QED BY <1>2, <1>3, LoadedInstance

LEMMA GlobalEffect ==
  ASSUME Typed, NEW v \in 0 .. 1, GlobalSet(v)
  PROVE  /\ Top \in Loaded /\ modules[Top].binary.is_mutable
         /\ ModulesTyped' /\ KeepsShape /\ KeepsMemory /\ KeepsTable /\ KeepsFunc
         /\ KeepsLinks /\ KeepsJump /\ KeepsState
         /\ \A t \in Slots : t # Top => modules'[t] = modules[t]
         /\ \A s \in Loaded : modules'[s].global_from = modules[s].global_from
<1>1. Top \in Loaded /\ Top \in Slots /\ modules[Top] \in Instance
  BY RunningTop DEF GlobalSet
<1> DEFINE m == modules[Top]
           n == [m EXCEPT !.global = v]
<1>2. modules' = [modules EXCEPT ![Top] = n] /\ m.binary.is_mutable
  BY <1>1 DEF GlobalSet
<1>3. /\ n \in Instance /\ n.table = m.table /\ n.memory = m.memory /\ n.func = m.func
      /\ n.global_from = m.global_from /\ n.binary = m.binary
      /\ n.imports_resolved = m.imports_resolved /\ n.is_instantiated = m.is_instantiated
      /\ n.jump_table = m.jump_table
  BY <1>1 DEF Instance
<1> HIDE DEF n
<1>4. n.func \in Slots => n.func \in Loaded BY <1>1, <1>3 DEF Typed, ModulesTyped
<1>5. \A s \in Loaded : s \in Slots BY DEF Loaded
<1>6. /\ Loaded' = Loaded /\ ModulesTyped' /\ modules'[Top] = n
      /\ \A t \in Slots : t # Top => modules'[t] = modules[t]
  BY <1>1, <1>2, <1>3, <1>4, UpdateSlot
<1>7. /\ KeepsShape /\ KeepsMemory /\ KeepsTable /\ KeepsFunc
      /\ KeepsLinks /\ KeepsJump /\ KeepsState
      /\ \A s \in Loaded : modules'[s].global_from = modules[s].global_from
  BY <1>1, <1>3, <1>5, <1>6 DEF KeepsShape, KeepsMemory, KeepsTable, KeepsFunc,
     KeepsLinks, KeepsJump, KeepsState
<1>8. QED BY <1>1, <1>2, <1>6, <1>7

(* memory.grow writes the memories of every module that has the running    *)
(* module's, table.grow the tables.                                        *)
LEMMA MemoriesChange ==
  ASSUME Typed, NEW mem \in [Loaded -> Memory], NEW T \in SUBSET Loaded,
         modules' = [s \in Slots |-> IF s \in T THEN [modules[s] EXCEPT !.memory = mem[s]]
                                     ELSE modules[s]]
  PROVE  /\ \A s \in Loaded :
              modules'[s].memory = IF s \in T THEN mem[s] ELSE modules[s].memory
         /\ ModulesTyped' /\ KeepsShape /\ KeepsTable /\ KeepsFunc
         /\ KeepsGlobal /\ KeepsLinks /\ KeepsJump /\ KeepsState
<1> DEFINE n(s) == [modules[s] EXCEPT !.memory = mem[s]]
<1>1. \A s \in Loaded : s \in Slots /\ modules[s] \in Instance BY LoadedInstance
<1>2. \A s \in Loaded : mem[s] \in Memory OBVIOUS
<1>3. \A s \in Slots : modules'[s] = IF s \in T THEN n(s) ELSE modules[s]
  OBVIOUS
<1>4. \A s \in Loaded :
        /\ n(s) \in Instance /\ n(s).table = modules[s].table /\ n(s).memory = mem[s]
        /\ n(s).func = modules[s].func
        /\ n(s).global = modules[s].global /\ n(s).global_from = modules[s].global_from
        /\ n(s).binary = modules[s].binary
        /\ n(s).imports_resolved = modules[s].imports_resolved
        /\ n(s).is_instantiated = modules[s].is_instantiated
        /\ n(s).jump_table = modules[s].jump_table
  <2>1. TAKE s \in Loaded
  <2>2. QED BY <1>1, <1>2 DEF Instance
<1> HIDE DEF n
<1>6. \A s \in Loaded : modules'[s] \in Instance /\ modules'[s].func = modules[s].func
  BY <1>1, <1>3, <1>4
<1>7. \A s \in Slots \ Loaded : modules'[s] = NoModule
  BY <1>3 DEF Loaded
<1>8. DOMAIN modules' = Slots /\ modules' = [s \in Slots |-> modules'[s]]
  OBVIOUS
<1>9. Loaded' = Loaded /\ ModulesTyped'
  BY <1>6, <1>7, <1>8, UpdateAll
<1>10. /\ KeepsShape /\ KeepsTable /\ KeepsFunc
       /\ KeepsGlobal /\ KeepsLinks /\ KeepsJump /\ KeepsState
  BY <1>1, <1>3, <1>4, <1>9 DEF KeepsShape, KeepsTable, KeepsFunc,
     KeepsGlobal, KeepsLinks, KeepsJump, KeepsState
<1>11. QED BY <1>1, <1>3, <1>4, <1>9, <1>10

LEMMA TablesChange ==
  ASSUME Typed, NEW tab \in [Loaded -> Table], NEW T \in SUBSET Loaded,
         modules' = [s \in Slots |-> IF s \in T THEN [modules[s] EXCEPT !.table = tab[s]]
                                     ELSE modules[s]]
  PROVE  /\ \A s \in Loaded :
              modules'[s].table = IF s \in T THEN tab[s] ELSE modules[s].table
         /\ ModulesTyped' /\ KeepsShape /\ KeepsMemory /\ KeepsFunc
         /\ KeepsGlobal /\ KeepsLinks /\ KeepsJump /\ KeepsState
<1> DEFINE n(s) == [modules[s] EXCEPT !.table = tab[s]]
<1>1. \A s \in Loaded : s \in Slots /\ modules[s] \in Instance BY LoadedInstance
<1>2. \A s \in Loaded : tab[s] \in Table OBVIOUS
<1>3. \A s \in Slots : modules'[s] = IF s \in T THEN n(s) ELSE modules[s]
  OBVIOUS
<1>4. \A s \in Loaded :
        /\ n(s) \in Instance /\ n(s).memory = modules[s].memory /\ n(s).table = tab[s]
        /\ n(s).func = modules[s].func
        /\ n(s).global = modules[s].global /\ n(s).global_from = modules[s].global_from
        /\ n(s).binary = modules[s].binary
        /\ n(s).imports_resolved = modules[s].imports_resolved
        /\ n(s).is_instantiated = modules[s].is_instantiated
        /\ n(s).jump_table = modules[s].jump_table
  <2>1. TAKE s \in Loaded
  <2>2. QED BY <1>1, <1>2 DEF Instance
<1> HIDE DEF n
<1>6. \A s \in Loaded : modules'[s] \in Instance /\ modules'[s].func = modules[s].func
  BY <1>1, <1>3, <1>4
<1>7. \A s \in Slots \ Loaded : modules'[s] = NoModule
  BY <1>3 DEF Loaded
<1>8. DOMAIN modules' = Slots /\ modules' = [s \in Slots |-> modules'[s]]
  OBVIOUS
<1>9. Loaded' = Loaded /\ ModulesTyped'
  BY <1>6, <1>7, <1>8, UpdateAll
<1>10. /\ KeepsShape /\ KeepsMemory /\ KeepsFunc
       /\ KeepsGlobal /\ KeepsLinks /\ KeepsJump /\ KeepsState
  BY <1>1, <1>3, <1>4, <1>9 DEF KeepsShape, KeepsMemory, KeepsFunc,
     KeepsGlobal, KeepsLinks, KeepsJump, KeepsState
<1>11. QED BY <1>1, <1>3, <1>4, <1>9, <1>10

LEMMA RegsFields ==
  ASSUME Typed
  PROVE  /\ regs.ptr \in Addresses \cup {Null} /\ regs.size \in Nat
         /\ regs.capacity \in Nat /\ regs.max \in Nat
         /\ regs = [ptr |-> regs.ptr, size |-> regs.size, capacity |-> regs.capacity,
                    max |-> regs.max]
BY DEF Typed, FramesTyped

LEMMA GrowInPlaceEffect ==
  ASSUME Typed, NEW delta \in 1 .. kMaxLinearMemory, GrowInPlace(delta)
  PROVE  LET size == regs.size + delta IN
         /\ size \in Nat /\ (regs.max # 0 => size <= regs.max)
         /\ size <= regs.capacity /\ size > regs.size /\ size > 0
         /\ regs' = [regs EXCEPT !.size = size]
         /\ \A s \in Loaded :
              modules'[s].memory = IF s \in Sharing(regs.ptr)
                                     THEN [modules[s].memory EXCEPT !.size = size]
                                     ELSE modules[s].memory
         /\ ModulesTyped' /\ KeepsShape /\ KeepsTable /\ KeepsFunc
         /\ KeepsGlobal /\ KeepsLinks /\ KeepsJump /\ KeepsState
<1> DEFINE size == regs.size + delta
           mem == [s \in Loaded |-> [modules[s].memory EXCEPT !.size = size]]
           T == Sharing(regs.ptr)
<1>1. /\ size \in Nat /\ size > regs.size /\ size > 0
  BY RegsFields, Sizes
<1>2. /\ regs.max # 0 => size <= regs.max
      /\ size <= regs.capacity /\ regs' = [regs EXCEPT !.size = size]
      /\ modules' = [s \in Slots |->
           IF s \in T THEN [modules[s] EXCEPT !.memory.size = size] ELSE modules[s]]
  BY DEF GrowInPlace
<1> HIDE DEF size
<1>3. T \in SUBSET Loaded BY DEF Sharing
<1>4. mem \in [Loaded -> Memory]
  <2>1. \A s \in Loaded : modules[s].memory \in Memory BY LoadedInstance, InstanceFields
  <2>2. \A s \in Loaded : [modules[s].memory EXCEPT !.size = size] \in Memory
    BY <1>1, <2>1 DEF Memory
  <2>3. QED BY <2>2
<1>5. modules' = [s \in Slots |-> IF s \in T THEN [modules[s] EXCEPT !.memory = mem[s]]
                                  ELSE modules[s]]
  <2>1. \A s \in T : [modules[s] EXCEPT !.memory.size = size]
                       = [modules[s] EXCEPT !.memory = mem[s]]
    BY <1>3
  <2>2. QED BY <1>2, <2>1
<1>6. \A s \in Loaded : mem[s] = [modules[s].memory EXCEPT !.size = size] OBVIOUS
<1> HIDE DEF mem, T
<1>7. /\ \A s \in Loaded :
              modules'[s].memory = IF s \in T THEN mem[s] ELSE modules[s].memory
      /\ ModulesTyped' /\ KeepsShape /\ KeepsTable /\ KeepsFunc
      /\ KeepsGlobal /\ KeepsLinks /\ KeepsJump /\ KeepsState
  BY <1>3, <1>4, <1>5, MemoriesChange
<1>8. \A s \in Loaded :
              modules'[s].memory = IF s \in Sharing(regs.ptr)
                                     THEN [modules[s].memory EXCEPT !.size = size]
                                     ELSE modules[s].memory
  BY <1>6, <1>7 DEF T
<1>9. QED BY <1>1, <1>2, <1>7, <1>8 DEF size

LEMMA GrowMovesEffect ==
  ASSUME Typed, NEW delta \in 1 .. kMaxLinearMemory, GrowMoves(delta)
  PROVE  LET size == regs.size + delta
             capacity == NewCapacity(size)
         IN
         /\ size \in Nat /\ (regs.max # 0 => size <= regs.max)
         /\ size > regs.capacity /\ size > regs.size /\ size > 0
         /\ capacity \in Nat /\ size <= capacity
         /\ \E a \in Free :
              /\ heap' = [b \in (DOMAIN heap \ {regs.ptr}) \cup {a} |->
                            IF b = a THEN capacity ELSE heap[b]]
              /\ regs' = [regs EXCEPT !.ptr = a, !.size = size, !.capacity = capacity]
              /\ \A s \in Loaded :
                   modules'[s].memory =
                     IF s \in Sharing(regs.ptr)
                       THEN [modules[s].memory EXCEPT !.ptr = a, !.size = size,
                                                      !.capacity = capacity]
                       ELSE modules[s].memory
         /\ ModulesTyped' /\ KeepsShape /\ KeepsTable /\ KeepsFunc
         /\ KeepsGlobal /\ KeepsLinks /\ KeepsJump /\ KeepsState
<1> DEFINE size == regs.size + delta
           capacity == NewCapacity(size)
           T == Sharing(regs.ptr)
<1>1. /\ size \in Nat /\ size > regs.size /\ size > 0
  BY RegsFields, Sizes
<1>2. PICK a \in Free :
           /\ heap' = [b \in (DOMAIN heap \ {regs.ptr}) \cup {a} |->
                         IF b = a THEN capacity ELSE heap[b]]
           /\ regs' = [regs EXCEPT !.ptr = a, !.size = size, !.capacity = capacity]
           /\ modules' = [s \in Slots |->
                IF s \in T THEN Replace(modules[s], a, size, capacity)
                ELSE modules[s]]
  BY DEF GrowMoves
<1>3. /\ regs.max # 0 => size <= regs.max
      /\ size > regs.capacity /\ size <= kMaxLinearMemory
  BY DEF GrowMoves
<1> HIDE DEF size
<1>4. capacity \in Nat /\ size <= capacity
  BY <1>1, <1>3, RegsFields, Sizes DEF NewCapacity
<1> HIDE DEF capacity
<1> DEFINE mem == [s \in Loaded |-> [modules[s].memory EXCEPT !.ptr = a, !.size = size,
                                                      !.capacity = capacity]]
<1>5. T \in SUBSET Loaded BY DEF Sharing
<1>6. mem \in [Loaded -> Memory]
  <2>1. \A s \in Loaded : modules[s].memory \in Memory BY LoadedInstance, InstanceFields
  <2>2. a \in Addresses BY FreshBlock
  <2>3. \A s \in Loaded : [modules[s].memory EXCEPT !.ptr = a, !.size = size,
                                                    !.capacity = capacity] \in Memory
    BY <1>1, <1>4, <2>1, <2>2 DEF Memory
  <2>4. QED BY <2>3
<1>7. modules' = [s \in Slots |-> IF s \in T THEN [modules[s] EXCEPT !.memory = mem[s]]
                                  ELSE modules[s]]
  <2>1. \A s \in T : Replace(modules[s], a, size, capacity)
                       = [modules[s] EXCEPT !.memory = mem[s]]
    BY <1>5 DEF Replace
  <2>2. QED BY <1>2, <2>1
<1>8. \A s \in Loaded : mem[s] = [modules[s].memory EXCEPT !.ptr = a, !.size = size,
                                                      !.capacity = capacity] OBVIOUS
<1> HIDE DEF mem, T
<1>9. /\ \A s \in Loaded :
              modules'[s].memory = IF s \in T THEN mem[s] ELSE modules[s].memory
      /\ ModulesTyped' /\ KeepsShape /\ KeepsTable /\ KeepsFunc
      /\ KeepsGlobal /\ KeepsLinks /\ KeepsJump /\ KeepsState
  BY <1>5, <1>6, <1>7, MemoriesChange
<1>10. \A s \in Loaded :
              modules'[s].memory = IF s \in Sharing(regs.ptr)
                       THEN [modules[s].memory EXCEPT !.ptr = a, !.size = size,
                                                      !.capacity = capacity]
                       ELSE modules[s].memory
  BY <1>8, <1>9 DEF T
<1>11. QED BY <1>1, <1>2, <1>3, <1>4, <1>9, <1>10 DEF size, capacity

LEMMA TableGrowEffect ==
  ASSUME Typed, TableGrow
  PROVE  LET t == modules[Top].table
             held == IF t.ptr = Null THEN {Top}
                     ELSE {s \in Loaded : modules[s].table.ptr = t.ptr}
         IN
         /\ Top \in Loaded /\ "table" \in modules[Top].binary.has
         /\ \E a \in Free :
              /\ heap' = [b \in (DOMAIN heap \ {t.ptr}) \cup {a} |->
                            IF b = a THEN t.size + 1 ELSE heap[b]]
              /\ \A s \in Loaded :
                   modules'[s].table =
                     IF s \in held THEN [modules[s].table EXCEPT !.ptr = a, !.size = t.size + 1]
                     ELSE modules[s].table
         /\ ModulesTyped' /\ KeepsShape /\ KeepsMemory /\ KeepsFunc
         /\ KeepsGlobal /\ KeepsLinks /\ KeepsJump /\ KeepsState
<1>1. Top \in Loaded /\ modules[Top] \in Instance BY RunningTop DEF TableGrow
<1> DEFINE t == modules[Top].table
           T == IF t.ptr = Null THEN {Top} ELSE {s \in Loaded : modules[s].table.ptr = t.ptr}
<1>2. PICK a \in Free :
           /\ heap' = [b \in (DOMAIN heap \ {t.ptr}) \cup {a} |->
                         IF b = a THEN t.size + 1 ELSE heap[b]]
           /\ modules' = [s \in Slots |->
                IF s \in T
                  THEN [modules[s] EXCEPT !.table = [@ EXCEPT !.ptr = a, !.size = t.size + 1]]
                  ELSE modules[s]]
  BY DEF TableGrow
<1> DEFINE size == t.size + 1
<1>3. size \in Nat BY <1>1, InstanceFields, TableFields
<1> DEFINE tab == [s \in Loaded |-> [modules[s].table EXCEPT !.ptr = a, !.size = size]]
<1>5. T \in SUBSET Loaded BY <1>1
<1>6. tab \in [Loaded -> Table]
  <2> HIDE DEF size
  <2>1. \A s \in Loaded : modules[s].table \in Table BY LoadedInstance, InstanceFields
  <2>2. a \in Addresses BY FreshBlock
  <2>3. \A s \in Loaded : [modules[s].table EXCEPT !.ptr = a, !.size = size] \in Table
    BY <1>3, <2>1, <2>2 DEF Table
  <2>4. QED BY <2>3
<1>7. modules' = [s \in Slots |-> IF s \in T THEN [modules[s] EXCEPT !.table = tab[s]]
                                  ELSE modules[s]]
  <2>1. \A s \in T : [modules[s] EXCEPT !.table = [@ EXCEPT !.ptr = a, !.size = t.size + 1]]
                       = [modules[s] EXCEPT !.table = tab[s]]
    BY <1>5
  <2>2. QED BY <1>2, <2>1
<1>8. \A s \in Loaded : tab[s] = [modules[s].table EXCEPT !.ptr = a, !.size = size] OBVIOUS
<1> HIDE DEF tab, T
<1>9. /\ \A s \in Loaded :
              modules'[s].table = IF s \in T THEN tab[s] ELSE modules[s].table
      /\ ModulesTyped' /\ KeepsShape /\ KeepsMemory /\ KeepsFunc
      /\ KeepsGlobal /\ KeepsLinks /\ KeepsJump /\ KeepsState
  BY <1>5, <1>6, <1>7, TablesChange
<1>10. \A s \in Loaded :
              modules'[s].table = IF s \in T THEN [modules[s].table EXCEPT !.ptr = a, !.size = size]
                       ELSE modules[s].table
  BY <1>8, <1>9
<1>11. "table" \in modules[Top].binary.has BY DEF TableGrow
<1>12. QED BY <1>1, <1>2, <1>9, <1>10, <1>11 DEF T

LEMMA LoadEffect ==
  ASSUME Typed, NEW load \in Binaries, LoadModule(load.name, load.binary)
  PROVE  \E s \in Slots :
           /\ s \notin Loaded /\ Loaded' = Loaded \cup {s} /\ ModulesTyped'
           /\ last_loaded_id' = s
           /\ modules'[s] = NewInstance(load.name, load.binary)
           /\ \A t \in Slots : t # s => modules'[t] = modules[t]
<1>1. PICK s \in Slots :
       /\ modules[s] = NoModule
       /\ modules' = [modules EXCEPT ![s] = NewInstance(load.name, load.binary)]
       /\ last_loaded_id' = s
  BY DEF LoadModule
<1> DEFINE n == NewInstance(load.name, load.binary)
<1>2. n \in Instance /\ n # NoModule /\ n.func \notin Slots
  <2>1. load.name \in Names /\ load.binary \in BinaryType BY ModulesAssumption
  <2>2. n \in Instance /\ n.func = Unlinked BY <2>1, NewInstanceType
  <2> HIDE DEF n
  <2>3. QED BY <2>2, ModulesAssumption, Sizes
<1> HIDE DEF n
<1>3. modules'[s] = n /\ \A t \in Slots : t # s => modules'[t] = modules[t]
  BY <1>1 DEF Typed, ModulesTyped, n
<1>4. modules' \in [Slots -> Instance \cup {NoModule}]
  <2>1. modules \in [Slots -> Instance \cup {NoModule}] BY DEF Typed, ModulesTyped
  <2>2. modules' = [modules EXCEPT ![s] = n] BY <1>1 DEF n
  <2>3. QED BY <1>2, <2>1, <2>2
<1>5. s \notin Loaded /\ Loaded' = Loaded \cup {s}
  BY <1>1, <1>2, <1>3 DEF Loaded
<1>6. ModulesTyped'
  BY <1>2, <1>3, <1>4, <1>5 DEF Typed, ModulesTyped, Loaded
<1>7. QED BY <1>1, <1>3, <1>5, <1>6 DEF n

-----------------------------------------------------------------------------
LEMMA HeapExtended ==
  ASSUME Typed, NEW a \in Free, NEW n \in Nat, heap' = With(a, n)
  PROVE  /\ HeapTyped' /\ DOMAIN heap' = DOMAIN heap \cup {a} /\ heap'[a] = n
         /\ \A b \in DOMAIN heap : heap'[b] = heap[b]
<1>1. a \in Addresses /\ a \notin DOMAIN heap BY FreshBlock
<1>2. QED BY <1>1 DEF Typed, HeapTyped, With

LEMMA HeapMoved ==
  ASSUME Typed, NEW a \in Free, NEW n \in Nat, NEW old,
         heap' = [b \in (DOMAIN heap \ {old}) \cup {a} |-> IF b = a THEN n ELSE heap[b]]
  PROVE  /\ HeapTyped' /\ DOMAIN heap' = (DOMAIN heap \ {old}) \cup {a} /\ heap'[a] = n
         /\ \A b \in DOMAIN heap \ {old} : heap'[b] = heap[b]
<1>1. a \in Addresses /\ a \notin DOMAIN heap BY FreshBlock
<1>2. QED BY <1>1 DEF Typed, HeapTyped

LEMMA NamesKept ==
  ASSUME Typed, Loaded' = Loaded, UNCHANGED <<name_aliases, last_loaded_id>>
  PROVE  NamesTyped'
BY DEF Typed, NamesTyped

LEMMA FramesKept ==
  ASSUME Typed, Loaded' = Loaded, UNCHANGED <<frames, regs>>
  PROVE  FramesTyped'
BY DEF Typed, FramesTyped

LEMMA HeapKept ==
  ASSUME Typed, heap' = heap PROVE HeapTyped'
BY DEF Typed, HeapTyped

(* The loop goes on, and nothing runs. *)
LEMMA CallGoes ==
  ASSUME Typed, Loaded' = Loaded, KeepsState, UNCHANGED frames, call.op \in LoopOps,
         call.op # "started", NEW op \in Ops,
         call' = [call EXCEPT !.op = op]
  PROVE  CallTyped'
<1>1. /\ call' \in [op : Ops, slot : Slots \cup {0}, target : Loaded \cup {0},
                    checked : BOOLEAN, error : BOOLEAN]
      /\ call'.slot = call.slot
  BY DEF Typed, CallTyped
<1>2. ~ Running BY DEF Typed, CallTyped, LoopOps
<1>3. call.slot \in Loaded /\ ~ modules'[call.slot].is_instantiated
  BY DEF Typed, CallTyped, KeepsState
<1>4. QED BY <1>1, <1>2, <1>3 DEF CallTyped, Running

LEMMA CallGivesUp ==
  ASSUME Typed, Loaded' = Loaded, UNCHANGED frames, call.op \in LoopOps,
         call.op # "started", GiveUp
  PROVE  CallTyped'
<1>1. /\ call' \in [op : Ops, slot : Slots \cup {0}, target : Loaded \cup {0},
                    checked : BOOLEAN, error : BOOLEAN]
      /\ call'.op = "return"
  BY DEF Typed, CallTyped, GiveUp, Ops
<1>2. ~ Running BY DEF Typed, CallTyped, LoopOps
<1>3. QED BY <1>1, <1>2 DEF CallTyped, Running, LoopOps

(* Advance goes to a module that is not instantiated. *)
LEMMA CallAdvances ==
  ASSUME Typed, Loaded' = Loaded, ~ Running, UNCHANGED frames,
         NEW c \in [op : Ops, slot : Slots \cup {0}, target : Loaded \cup {0},
                    checked : BOOLEAN, error : BOOLEAN],
         call' = Advance(c),
         \A s \in Loaded : s > c.slot => modules'[s].is_instantiated = modules[s].is_instantiated
  PROVE  CallTyped'
<1>1. /\ call' \in [op : Ops, slot : Slots \cup {0}, target : Loaded \cup {0},
                    checked : BOOLEAN, error : BOOLEAN]
      /\ \/ call'.op = "return"
         \/ /\ call'.op = "imports" /\ call'.slot \in Loaded
            /\ ~ modules'[call'.slot].is_instantiated
  BY AdvanceFacts
<1>2. QED BY <1>1 DEF CallTyped, Running, LoopOps

LEMMA IdleFits ==
  Idle \in [op : Ops, slot : Slots \cup {0}, target : Loaded \cup {0},
            checked : BOOLEAN, error : BOOLEAN] /\ Idle.op = "idle" /\ Idle.slot = 0
BY DEF Idle, Ops

LEMMA InitTyped == ASSUME Init PROVE Typed
<1>1. Loaded = {} BY DEF Init, Loaded
<1>2. ModulesTyped BY <1>1 DEF Init, ModulesTyped
<1>3. NamesTyped BY DEF Init, NamesTyped
<1>4. HeapTyped BY DEF Init, HeapTyped
<1>5. CallTyped BY IdleFits DEF Init, CallTyped, Running, Idle, LoopOps
<1>6. FramesTyped BY DEF Init, FramesTyped, NoRegs
<1>7. QED BY <1>2, <1>3, <1>4, <1>5, <1>6 DEF Typed

(* The registers hold the memory of a loaded module. *)
LEMMA RegsFit ==
  ASSUME Typed, NEW s \in Loaded
  PROVE  Regs(modules[s]) \in [ptr : Addresses \cup {Null}, size : Nat, capacity : Nat, max : Nat]
<1>1. modules[s].memory \in Memory BY LoadedInstance, InstanceFields
<1>2. QED BY <1>1, MemoryFields DEF Regs

LEMMA CalleeLoaded ==
  ASSUME Typed, NEW s \in Loaded, Callee(s) \in Slots
  PROVE  Callee(s) \in Loaded
<1> DEFINE G == Loaded \cup {Unresolved, Host, Unlinked}
<1>1. \A t \in Loaded : modules[t].func \in G
  <2>1. TAKE t \in Loaded
  <2>2. modules[t].func \in Slots \cup {Unresolved, Host, Unlinked}
    BY LoadedInstance, InstanceFields
  <2>3. QED BY <2>2 DEF Typed, ModulesTyped
<1>2. \A t \in G : t \in Slots /\ Reexports(t) => modules[t].func \in G
  <2> HIDE DEF G
  <2>1. \A t \in G : t \in Slots => t \in Loaded BY Sizes DEF G
  <2>2. QED BY <1>1, <2>1
<1>3. modules[s].func \in G /\ Unresolved \in G BY <1>1
<1> HIDE DEF G
<1>4. Callee(s) \in G BY <1>2, <1>3, CalleeStays
<1>5. QED BY <1>4, Sizes DEF G

LEMMA HostTyped ==
  ASSUME Typed, HostStep
  PROVE  Typed'
<1> USE DEF Typed
<1>1. ASSUME NEW load \in Binaries, LoadModule(load.name, load.binary) PROVE Typed'
  <2>1. PICK s \in Slots :
           /\ s \notin Loaded /\ Loaded' = Loaded \cup {s} /\ ModulesTyped'
           /\ last_loaded_id' = s
           /\ \A t \in Slots : t # s => modules'[t] = modules[t]
    BY <1>1, LoadEffect
  <2>2. call.op = "idle" /\ UNCHANGED <<name_aliases, heap, call, frames, regs>>
    BY <1>1 DEF LoadModule
  <2>3. NamesTyped'
    <3>1. [alias : Aliases, module : Loaded] \subseteq [alias : Aliases, module : Loaded']
      BY <2>1
    <3>2. name_aliases \in Seq([alias : Aliases, module : Loaded]) BY DEF NamesTyped
    <3>3. name_aliases \in Seq([alias : Aliases, module : Loaded'])
      BY <3>1, <3>2, SeqMonotonic
    <3>4. QED BY <2>1, <2>2, <3>3 DEF NamesTyped
  <2>4. CallTyped'
    BY <2>1, <2>2 DEF CallTyped, Running, LoopOps
  <2>5. FramesTyped'
    BY <2>1, <2>2, SeqMonotonic DEF FramesTyped
  <2>6. QED BY <2>1, <2>2, <2>3, <2>4, <2>5, HeapKept
<1>2. ASSUME NEW n \in Names \cup {Null}, NEW a \in Aliases, RegisterAlias(n, a) PROVE Typed'
  <2> DEFINE mod == IF n = Null THEN last_loaded_id ELSE Newest(n)
             at == {i \in DOMAIN name_aliases : name_aliases[i].alias = a}
             R == [alias : Aliases, module : Loaded]
  <2>1. /\ mod # 0 /\ UNCHANGED <<modules, last_loaded_id, heap, call, frames, regs>>
        /\ name_aliases' = IF at # {} THEN [name_aliases EXCEPT ![MinOf(at)].module = mod]
                           ELSE Append(name_aliases, [alias |-> a, module |-> mod])
    BY <1>2 DEF RegisterAlias
  <2>2. mod \in Loaded BY <2>1, NewestLoaded DEF NamesTyped
  <2>3. Loaded' = Loaded BY <2>1 DEF Loaded
  <2> HIDE DEF mod
  <2>4. name_aliases' \in Seq(R)
    <3>1. CASE at # {}
      <4>1. at \in SUBSET Nat BY DEF NamesTyped
      <4> DEFINE i == MinOf(at)
      <4>2. i \in at BY <3>1, <4>1, LeastOf
      <4>3. name_aliases \in Seq(R) /\ i \in 1 .. Len(name_aliases) BY <4>2 DEF NamesTyped
      <4>4. name_aliases' = [name_aliases EXCEPT ![i].module = mod] BY <2>1, <3>1
      <4> HIDE DEF i
      <4>5. name_aliases[i] \in R
        <5> HIDE DEF R
        <5>1. QED BY <4>3, ElementOfSeq
      <4> DEFINE e == [name_aliases[i] EXCEPT !.module = mod]
      <4>6. e \in R BY <2>2, <4>5
      <4>7. name_aliases' = [name_aliases EXCEPT ![i] = e] BY <4>3, <4>4
      <4> HIDE DEF e, R
      <4>8. QED BY <4>3, <4>6, <4>7, ExceptSeq
    <3>2. CASE at = {}
      <4>1. [alias |-> a, module |-> mod] \in R BY <2>2
      <4>2. name_aliases \in Seq(R) BY DEF NamesTyped
      <4> HIDE DEF R
      <4>3. QED BY <2>1, <3>2, <4>1, <4>2, AppendProperties
    <3>3. QED BY <3>1, <3>2
  <2>5. NamesTyped' BY <2>1, <2>3, <2>4 DEF NamesTyped
  <2>6. CallTyped' BY <2>1, <2>3 DEF CallTyped, Running
  <2>7. QED BY <2>1, <2>3, <2>5, <2>6, KeptAll, HeapKept, FramesKept
<1>3. ASSUME modules' = modules, UNCHANGED <<name_aliases, last_loaded_id, heap, frames, regs>>,
             CallTyped'
      PROVE Typed'
  <2>1. Loaded' = Loaded BY <1>3 DEF Loaded
  <2>2. QED BY <1>3, <2>1, KeptAll, NamesKept, HeapKept, FramesKept
<1>4. ASSUME InstantiateModules PROVE Typed'
  <2>1. /\ call.op = "idle" /\ call' = Advance(Idle)
        /\ UNCHANGED <<modules, name_aliases, last_loaded_id, heap, frames, regs>>
    BY <1>4 DEF InstantiateModules
  <2>2. Loaded' = Loaded BY <2>1 DEF Loaded
  <2>3. ~ Running BY <2>1 DEF CallTyped
  <2>4. CallTyped' BY <2>1, <2>2, <2>3, IdleFits, CallAdvances
  <2>5. QED BY <1>3, <2>1, <2>4
<1>5. ASSUME NEW n \in Names \cup {Null}, Execute(n) PROVE Typed'
  <2>1. PICK mod \in Loaded :
          /\ call.op = "idle" /\ call' = Advance([Idle EXCEPT !.target = mod])
          /\ UNCHANGED <<modules, name_aliases, last_loaded_id, heap, frames, regs>>
    BY <1>5, InstanceLoaded DEF Execute, NamesTyped
  <2> DEFINE c == [Idle EXCEPT !.target = mod]
  <2>2. c \in [op : Ops, slot : Slots \cup {0}, target : Loaded \cup {0},
               checked : BOOLEAN, error : BOOLEAN]
    BY DEF Idle, Ops
  <2> HIDE DEF c
  <2>3. Loaded' = Loaded BY <2>1 DEF Loaded
  <2>4. ~ Running BY <2>1 DEF CallTyped
  <2>5. call' = Advance(c) BY <2>1 DEF c
  <2>6. CallTyped' BY <2>1, <2>2, <2>3, <2>4, <2>5, CallAdvances
  <2>7. QED BY <1>3, <2>1, <2>6
<1>6. ASSUME NEW s \in Slots, ExecuteByIndex(s) PROVE Typed'
  <2>1. /\ call.op = "idle" /\ s \in Loaded
        /\ call' = IF modules[s].is_instantiated
               THEN [Idle EXCEPT !.op = "return", !.target = s]
               ELSE Advance([Idle EXCEPT !.target = s, !.checked = TRUE])
        /\ UNCHANGED <<modules, name_aliases, last_loaded_id, heap, frames, regs>>
    BY <1>6 DEF ExecuteByIndex
  <2> DEFINE c == [Idle EXCEPT !.target = s, !.checked = TRUE]
             e == [Idle EXCEPT !.op = "return", !.target = s]
  <2>2. /\ c \in [op : Ops, slot : Slots \cup {0}, target : Loaded \cup {0},
                  checked : BOOLEAN, error : BOOLEAN]
        /\ e \in [op : Ops, slot : Slots \cup {0}, target : Loaded \cup {0},
                  checked : BOOLEAN, error : BOOLEAN]
        /\ e.op = "return"
    BY <2>1 DEF Idle, Ops
  <2> HIDE DEF c, e
  <2>3. Loaded' = Loaded BY <2>1 DEF Loaded
  <2>4. ~ Running BY <2>1 DEF CallTyped
  <2>5. call' = e \/ call' = Advance(c) BY <2>1 DEF c, e
  <2>6. CASE call' = e
    <3>1. CallTyped' BY <2>1, <2>2, <2>3, <2>4, <2>6 DEF CallTyped, LoopOps, Running
    <3>2. QED BY <1>3, <2>1, <3>1
  <2>7. CASE call' = Advance(c)
    <3>1. CallTyped' BY <2>1, <2>2, <2>3, <2>4, <2>7, CallAdvances
    <3>2. QED BY <1>3, <2>1, <3>1
  <2>8. QED BY <2>5, <2>6, <2>7
<1>7. ASSUME UnloadAllModules PROVE Typed'
  <2>1. /\ call.op = "idle"
        /\ heap' = Without(UNION {Owned(modules[s]) : s \in Loaded})
        /\ modules' = [s \in Slots |-> NoModule]
        /\ name_aliases' = << >> /\ last_loaded_id' = 0 /\ call' = Idle
        /\ UNCHANGED <<frames, regs>>
    BY <1>7 DEF UnloadAllModules
  <2>2. frames = << >> BY <2>1 DEF CallTyped, Running
  <2>3. Loaded' = {} BY <2>1 DEF Loaded
  <2>4. ModulesTyped' BY <2>1, <2>3 DEF ModulesTyped
  <2>5. NamesTyped' BY <2>1, <2>3 DEF NamesTyped
  <2>6. HeapTyped'
    <3> DEFINE U == UNION {Owned(modules[s]) : s \in Loaded}
    <3>1. heap' = Without(U) BY <2>1
    <3> HIDE DEF U
    <3>2. QED BY <3>1 DEF HeapTyped, Without
  <2>7. CallTyped' BY <2>1, <2>2, IdleFits DEF CallTyped, Running, LoopOps, Idle
  <2>8. FramesTyped' BY <2>1, <2>2, <2>3 DEF FramesTyped
  <2>9. QED BY <2>4, <2>5, <2>6, <2>7, <2>8
<1>8. QED BY <1>1, <1>2, <1>4, <1>5, <1>6, <1>7 DEF HostStep

LEMMA InstantiateTyped ==
  ASSUME Typed, InstantiateStep
  PROVE  Typed'
<1> USE DEF Typed
<1>1. ASSUME Loaded' = Loaded, ModulesTyped', HeapTyped', CallTyped',
             UNCHANGED <<name_aliases, last_loaded_id, frames, regs>>
      PROVE Typed'
  BY <1>1, NamesKept, FramesKept
<1>2. ASSUME modules' = modules, HeapTyped', CallTyped',
             UNCHANGED <<name_aliases, last_loaded_id, frames, regs>>
      PROVE Typed'
  <2>1. Loaded' = Loaded BY <1>2 DEF Loaded
  <2>2. QED BY <1>1, <1>2, <2>1, KeptAll
<1>3. ASSUME call.op \in LoopOps, call.op # "started" PROVE ~ Running
  BY <1>3 DEF CallTyped, LoopOps
<1>4. ASSUME Skip, Loaded' = Loaded, KeepsState, UNCHANGED frames,
             call.op \in LoopOps, call.op # "started"
      PROVE  CallTyped'
  <2> DEFINE c == [call EXCEPT !.error = TRUE]
  <2>1. c \in [op : Ops, slot : Slots \cup {0}, target : Loaded \cup {0},
               checked : BOOLEAN, error : BOOLEAN]
    BY DEF CallTyped
  <2>2. call' = Advance(c) BY <1>4 DEF Skip
  <2> HIDE DEF c
  <2>3. QED BY <1>3, <1>4, <2>1, <2>2, CallAdvances DEF KeepsState
<1>5. CASE ImportsOk \/ ImportsFail
  <2>1. Loaded' = Loaded /\ ModulesTyped' /\ KeepsState BY <1>5, ImportsEffect
  <2>2. /\ UNCHANGED <<name_aliases, last_loaded_id, frames, regs, heap>>
        /\ call.op = "imports"
        /\ Go("memory") \/ Skip
    BY <1>5 DEF ImportsOk, ImportsFail, Registry, At
  <2>3. call.op \in LoopOps /\ call.op # "started" /\ "memory" \in Ops
    BY <2>2 DEF LoopOps, Ops
  <2>4. CallTyped'
    <3>1. CASE Go("memory") BY <2>1, <2>2, <2>3, <3>1, CallGoes DEF Go
    <3>2. CASE Skip BY <1>4, <2>1, <2>2, <2>3, <3>2
    <3>3. QED BY <2>2, <3>1, <3>2
  <2>5. QED BY <1>1, <2>1, <2>2, <2>4, HeapKept
<1>6. CASE MemoryOk
  <2>1. Loaded' = Loaded /\ ModulesTyped' /\ KeepsState BY <1>6, MemoryEffect DEF KeepsShape
  <2>2. /\ UNCHANGED <<name_aliases, last_loaded_id, frames, regs>>
        /\ call.op = "memory" /\ Go("tables")
    BY <1>6 DEF MemoryOk, Registry, At
  <2>3. HeapTyped'
    <3>1. Mod.binary.min \in Nat BY <1>6, MemoryEffect, InstanceFields, BinaryFields
    <3>2. QED BY <1>6, <3>1, MemoryEffect, HeapExtended, HeapKept
  <2>4. CallTyped' BY <2>1, <2>2, CallGoes DEF LoopOps, Ops, Go
  <2>5. QED BY <1>1, <2>1, <2>2, <2>3, <2>4
<1>7. CASE TablesOk
  <2>1. Loaded' = Loaded /\ ModulesTyped' /\ KeepsState BY <1>7, TableEffect DEF KeepsShape
  <2>2. /\ UNCHANGED <<name_aliases, last_loaded_id, frames, regs>>
        /\ call.op = "tables" /\ Go("elements")
    BY <1>7 DEF TablesOk, Registry, At
  <2>3. HeapTyped'
    <3>1. Mod.table.size \in Nat BY <1>7, TableEffect, InstanceFields, TableFields
    <3>2. QED BY <1>7, <3>1, TableEffect, HeapExtended, HeapKept
  <2>4. CallTyped' BY <2>1, <2>2, CallGoes DEF LoopOps, Ops, Go
  <2>5. QED BY <1>1, <2>1, <2>2, <2>3, <2>4
<1>8. CASE MemoryFails \/ TablesFail
  <2>1. /\ UNCHANGED <<modules, heap, name_aliases, last_loaded_id, frames, regs>>
        /\ call.op \in LoopOps /\ call.op # "started" /\ GiveUp
    BY <1>8 DEF MemoryFails, TablesFail, Registry, At, LoopOps
  <2>2. Loaded' = Loaded BY <2>1 DEF Loaded
  <2>3. CallTyped' BY <2>1, <2>2, CallGivesUp
  <2>4. QED BY <1>2, <2>1, <2>3, HeapKept
<1>9. CASE ApplyElements \/ ApplyData
  <2>1. Loaded' = Loaded /\ ModulesTyped' /\ KeepsState BY <1>9, FlagEffect DEF KeepsShape
  <2>2. /\ UNCHANGED <<name_aliases, last_loaded_id, frames, regs, heap>>
        /\ call.op \in LoopOps /\ call.op # "started"
        /\ GiveUp \/ \E op \in Ops : Go(op)
    BY <1>9 DEF ApplyElements, ApplyData, Registry, At, LoopOps, Ops
  <2>3. CallTyped'
    BY <2>1, <2>2, CallGoes, CallGivesUp DEF Go
  <2>4. QED BY <1>1, <2>1, <2>2, <2>3, HeapKept
<1>10. CASE RunStart
  <2>1. /\ call.op = "start" /\ call' = [call EXCEPT !.op = "started"]
        /\ frames' = <<call.slot>> /\ regs' = Regs(Mod)
        /\ UNCHANGED <<modules, heap, name_aliases, last_loaded_id>>
    BY <1>10 DEF RunStart, Go, At
  <2>2. call.slot \in Loaded /\ Mod = modules[call.slot] /\ ~ Mod.is_instantiated
    BY <2>1, LoopSlot DEF LoopOps
  <2>3. Loaded' = Loaded BY <2>1 DEF Loaded
  <2>4. CallTyped' BY <2>1, <2>2, <2>3 DEF CallTyped, Ops, Running
  <2>5. FramesTyped'
    <3>1. regs' \in [ptr : Addresses \cup {Null}, size : Nat, capacity : Nat, max : Nat]
      BY <2>1, <2>2, RegsFit
    <3>2. QED BY <2>1, <2>2, <2>3, <3>1 DEF FramesTyped
  <2>6. QED BY <2>1, <2>3, <2>4, <2>5, KeptAll, NamesKept, HeapKept
<1>11. CASE Instantiated
  <2>1. /\ call.slot \in Loaded /\ Loaded' = Loaded /\ ModulesTyped'
        /\ \A t \in Slots : t # call.slot => modules'[t] = modules[t]
    BY <1>11, InstantiatedEffect DEF KeepsShape
  <2>2. /\ UNCHANGED <<name_aliases, last_loaded_id, frames, regs, heap>>
        /\ call' = Advance(call) /\ ~ Running
    BY <1>11, <1>3 DEF Instantiated, Registry, At, Running, LoopOps
  <2>3. \A s \in Loaded : s > call.slot => modules'[s].is_instantiated = modules[s].is_instantiated
    <3>1. \A s \in Loaded : s \in Slots /\ s \in Nat BY Sizes DEF Loaded
    <3>2. call.slot \in Nat BY <2>1, <3>1
    <3>3. QED BY <2>1, <3>1, <3>2
  <2>4. CallTyped'
    <3>1. call \in [op : Ops, slot : Slots \cup {0}, target : Loaded \cup {0},
                    checked : BOOLEAN, error : BOOLEAN] BY DEF CallTyped
    <3>2. QED BY <2>1, <2>2, <2>3, <3>1, CallAdvances
  <2>5. QED BY <1>1, <2>1, <2>2, <2>4, HeapKept
<1>12. CASE InstantiateReturns
  <2>1. /\ UNCHANGED <<modules, heap, name_aliases, last_loaded_id, frames, regs>>
        /\ call.op = "return"
        /\ call' = [Idle EXCEPT !.error = CarefulHost /\ call.error]
    BY <1>12 DEF InstantiateReturns, Registry, At
  <2>2. Loaded' = Loaded BY <2>1 DEF Loaded
  <2>3. CallTyped' BY <2>1, <2>2 DEF CallTyped, Running, Idle, Ops, LoopOps
  <2>4. QED BY <1>2, <2>1, <2>3, HeapKept
<1>13. ASSUME NEW imported \in BOOLEAN, Enter(imported) PROVE Typed'
  <2> DEFINE end == Entry(call.target, imported)
  <2>1. /\ call.op = "return" /\ call.target # 0
        /\ IF end \in Slots
             THEN Go("execute") /\ frames' = <<end>> /\ regs' = Regs(modules[end])
             ELSE call' = Idle /\ UNCHANGED <<frames, regs>>
        /\ UNCHANGED <<modules, heap, name_aliases, last_loaded_id>>
    BY <1>13 DEF Enter, At
  <2>2. call.target \in Loaded BY <2>1, CallFields
  <2>3. end \in Slots => end \in Loaded BY <2>2, CalleeLoaded DEF Entry
  <2> HIDE DEF end
  <2>4. Loaded' = Loaded BY <2>1 DEF Loaded
  <2>5. CallTyped'
    <3>1. CASE end \in Slots BY <2>1, <2>4, <3>1 DEF CallTyped, Ops, LoopOps, Go
    <3>2. CASE end \notin Slots
      BY <2>1, <2>4, <3>2, IdleFits DEF CallTyped, LoopOps, Running
    <3>3. QED BY <3>1, <3>2
  <2>6. FramesTyped'
    <3>1. CASE end \in Slots
      <4>1. regs' \in [ptr : Addresses \cup {Null}, size : Nat, capacity : Nat, max : Nat]
        BY <2>1, <2>3, <3>1, RegsFit
      <4>2. frames' = <<end>> /\ end \in Loaded BY <2>1, <2>3, <3>1
      <4>3. frames' \in Seq(Loaded) BY <4>2
      <4>4. QED BY <2>4, <4>1, <4>3 DEF FramesTyped
    <3>2. CASE end \notin Slots BY <2>1, <2>4, <3>2, FramesKept
    <3>3. QED BY <3>1, <3>2
  <2>7. QED BY <2>1, <2>4, <2>5, <2>6, KeptAll, NamesKept, HeapKept
<1>14. QED
  BY <1>5, <1>6, <1>7, <1>8, <1>9, <1>10, <1>11, <1>12, <1>13 DEF InstantiateStep

LEMMA GuestTyped ==
  ASSUME Typed, GuestStep
  PROVE  Typed'
<1> USE DEF Typed
<1>1. ASSUME Loaded' = Loaded, ModulesTyped', HeapTyped', KeepsState,
             UNCHANGED <<name_aliases, last_loaded_id, call, frames>>,
             regs' \in [ptr : Addresses \cup {Null}, size : Nat, capacity : Nat, max : Nat]
      PROVE Typed'
  <2>1. CallTyped' BY <1>1 DEF CallTyped, KeepsState, Running
  <2>2. FramesTyped' BY <1>1 DEF FramesTyped
  <2>3. QED BY <1>1, <2>1, <2>2, NamesKept
<1>2. ASSUME UNCHANGED <<modules, name_aliases, last_loaded_id, heap>>, CallTyped', FramesTyped'
      PROVE Typed'
  <2>1. Loaded' = Loaded BY <1>2 DEF Loaded
  <2>2. QED BY <1>2, <2>1, KeptAll, NamesKept, HeapKept
<1>3. CASE Trap
  <2>1. /\ UNCHANGED <<modules, name_aliases, last_loaded_id, heap>>
        /\ frames' = << >> /\ regs' = NoRegs
        /\ call' = [call EXCEPT !.op = "return", !.error = TRUE] \/ call' = Idle
    BY <1>3 DEF Trap
  <2>2. Loaded' = Loaded BY <2>1 DEF Loaded
  <2>3. FramesTyped' BY <2>1 DEF FramesTyped, NoRegs
  <2>4. CallTyped' BY <2>1, <2>2, IdleFits DEF CallTyped, Running, Ops, LoopOps
  <2>5. QED BY <1>2, <2>1, <2>3, <2>4
<1>4. ASSUME NEW f \in Seq(Loaded), Reload(f)
      PROVE  regs' \in [ptr : Addresses \cup {Null}, size : Nat, capacity : Nat, max : Nat]
  <2>1. CASE f = << >> BY <1>4, <2>1 DEF Reload, NoRegs
  <2>2. CASE f # << >>
    <3>1. f[Len(f)] \in Loaded BY <2>2, EmptySeq, ElementOfSeq
    <3>2. regs' = Regs(modules[f[Len(f)]]) BY <1>4, <2>2 DEF Reload
    <3>3. QED BY <3>1, <3>2, RegsFit
  <2>3. QED BY <2>1, <2>2
<1>5. CASE CallImport
  <2>1. /\ UNCHANGED <<modules, name_aliases, last_loaded_id, heap, call>>
        /\ frames' = Append(frames, Callee(Top)) /\ Reload(frames') /\ Running
        /\ Callee(Top) \in Slots
    BY <1>5 DEF CallImport
  <2>2. Loaded' = Loaded BY <2>1 DEF Loaded
  <2>3. Callee(Top) \in Loaded BY <2>1, RunningTop, CalleeLoaded
  <2>4. frames' \in Seq(Loaded) /\ frames' # << >>
    BY <2>1, <2>3, AppendProperties DEF FramesTyped
  <2>5. regs' \in [ptr : Addresses \cup {Null}, size : Nat, capacity : Nat, max : Nat]
    BY <1>4, <2>1, <2>4
  <2>6. FramesTyped' BY <2>2, <2>4, <2>5 DEF FramesTyped
  <2>7. CallTyped' BY <2>1, <2>2 DEF CallTyped, Running
  <2>8. QED BY <1>2, <2>1, <2>6, <2>7
<1>6. CASE Return
  <2>1. /\ UNCHANGED <<modules, name_aliases, last_loaded_id, heap>>
        /\ frames' = SubSeq(frames, 1, Len(frames) - 1) /\ Reload(frames') /\ Running
        /\ call' = IF Len(frames) = 1 /\ At("execute") THEN Idle ELSE call
    BY <1>6 DEF Return
  <2>2. Loaded' = Loaded BY <2>1 DEF Loaded
  <2>3. frames \in Seq(Loaded) /\ Len(frames) \in Nat \ {0} BY <2>1, RunningTop DEF FramesTyped
  <2>4. frames' \in Seq(Loaded) /\ Len(frames') = Len(frames) - 1
    <3> DEFINE n == Len(frames) - 1
    <3>1. n \in Nat /\ n + 1 = Len(frames) BY <2>3
    <3>2. \A i \in 1 .. n : i \in 1 .. Len(frames) BY <2>3
    <3>3. \A i \in 1 .. n : frames[i] \in Loaded BY <2>3, <3>2, ElementOfSeq
    <3>4. frames' = SubSeq(frames, 1, n) BY <2>1
    <3> HIDE DEF n
    <3>5. /\ SubSeq(frames, 1, n) \in Seq(Loaded)
          /\ Len(SubSeq(frames, 1, n)) = IF 1 <= n THEN n - 1 + 1 ELSE 0
      BY <3>1, <3>3, SubSeqProperties
    <3>6. n = Len(frames) - 1 BY DEF n
    <3>7. QED BY <3>1, <3>4, <3>5, <3>6
  <2>5. regs' \in [ptr : Addresses \cup {Null}, size : Nat, capacity : Nat, max : Nat]
    BY <1>4, <2>1, <2>4
  <2>6. FramesTyped' BY <2>2, <2>4, <2>5 DEF FramesTyped
  <2>7. CallTyped'
    <3>1. CASE Len(frames) = 1 /\ At("execute")
      <4>1. call' = Idle BY <2>1, <3>1
      <4>2. frames' = << >> BY <2>4, <3>1, EmptySeq
      <4>3. QED BY <2>2, <4>1, <4>2, IdleFits DEF CallTyped, Running, LoopOps
    <3>2. CASE ~ (Len(frames) = 1 /\ At("execute"))
      <4>1. call' = call BY <2>1, <3>2
      <4>2. call.op \in {"started", "execute"} BY <2>1 DEF CallTyped
      <4>3. QED BY <2>1, <2>2, <4>1, <4>2 DEF CallTyped
    <3>3. QED BY <3>1, <3>2
  <2>8. QED BY <1>2, <2>1, <2>6, <2>7
<1>7. CASE TableGrow
  <2>1. Loaded' = Loaded /\ ModulesTyped' /\ KeepsState BY <1>7, TableGrowEffect DEF KeepsShape
  <2>2. UNCHANGED <<name_aliases, last_loaded_id, call, frames, regs>> BY <1>7 DEF TableGrow
  <2>3. HeapTyped'
    <3> DEFINE t == modules[Top].table
               n == t.size + 1
    <3>1. PICK a \in Free :
            heap' = [b \in (DOMAIN heap \ {t.ptr}) \cup {a} |->
                            IF b = a THEN n ELSE heap[b]]
      BY <1>7, TableGrowEffect
    <3>2. n \in Nat
      <4>1. Top \in Loaded BY <1>7, TableGrowEffect
      <4>2. t \in Table BY <4>1, LoadedInstance, InstanceFields
      <4>3. QED BY <4>2, TableFields
    <3> HIDE DEF n
    <3>3. QED BY <3>1, <3>2, HeapMoved
  <2>4. QED BY <1>1, <2>1, <2>2, <2>3 DEF FramesTyped
<1>8. ASSUME NEW delta \in 1 .. kMaxLinearMemory, GrowInPlace(delta) PROVE Typed'
  <2> DEFINE n == regs.size + delta
  <2>0. /\ KeepsShape /\ ModulesTyped' /\ KeepsState
        /\ n \in Nat /\ regs' = [regs EXCEPT !.size = n]
    BY <1>8, GrowInPlaceEffect
  <2>1. /\ Loaded' = Loaded /\ ModulesTyped' /\ KeepsState
        /\ n \in Nat /\ regs' = [regs EXCEPT !.size = n]
    BY <2>0 DEF KeepsShape
  <2> HIDE DEF n
  <2>2. UNCHANGED <<name_aliases, last_loaded_id, call, frames, heap>>
    BY <1>8 DEF GrowInPlace
  <2>3. regs' \in [ptr : Addresses \cup {Null}, size : Nat, capacity : Nat, max : Nat]
    BY <2>1 DEF FramesTyped
  <2>4. QED BY <1>1, <2>1, <2>2, <2>3, HeapKept
<1>9. ASSUME NEW delta \in 1 .. kMaxLinearMemory, GrowMoves(delta) PROVE Typed'
  <2> DEFINE n == regs.size + delta
             c == NewCapacity(n)
  <2>0. KeepsShape /\ ModulesTyped' /\ KeepsState /\ n \in Nat /\ c \in Nat
    BY <1>9, GrowMovesEffect
  <2>1. /\ Loaded' = Loaded /\ ModulesTyped' /\ KeepsState
        /\ n \in Nat /\ c \in Nat
    BY <2>0 DEF KeepsShape
  <2>2. PICK a \in Free :
          /\ heap' = [b \in (DOMAIN heap \ {regs.ptr}) \cup {a} |->
                            IF b = a THEN c ELSE heap[b]]
          /\ regs' = [regs EXCEPT !.ptr = a, !.size = n, !.capacity = c]
    BY <1>9, GrowMovesEffect
  <2> HIDE DEF n, c
  <2>3. UNCHANGED <<name_aliases, last_loaded_id, call, frames>>
    BY <1>9 DEF GrowMoves
  <2>4. regs' \in [ptr : Addresses \cup {Null}, size : Nat, capacity : Nat, max : Nat]
    BY <2>1, <2>2, FreshBlock DEF FramesTyped
  <2>5. HeapTyped' BY <2>1, <2>2, HeapMoved
  <2>6. QED BY <1>1, <2>1, <2>3, <2>4, <2>5
<1>10. ASSUME NEW v \in 0 .. 1, GlobalSet(v) PROVE Typed'
  <2>1. Loaded' = Loaded /\ ModulesTyped' /\ KeepsState BY <1>10, GlobalEffect DEF KeepsShape
  <2>2. UNCHANGED <<name_aliases, last_loaded_id, call, frames, regs, heap>>
    BY <1>10 DEF GlobalSet
  <2>3. QED BY <1>1, <2>1, <2>2, HeapKept DEF FramesTyped
<1>11. QED
  BY <1>3, <1>5, <1>6, <1>7, <1>8, <1>9, <1>10 DEF GuestStep

LEMMA StutterTyped == ASSUME Typed, UNCHANGED vars PROVE Typed'
BY DEF Typed, ModulesTyped, NamesTyped, HeapTyped, CallTyped, FramesTyped, vars, Loaded, Running

(* The types of the registry and of the call stack; every function, alias, *)
(* target and frame names a loaded module, so that no loop or call ever    *)
(* enters a slot that was freed.                                           *)
THEOREM TypeCorrect == Spec => []Typed
<1>1. Typed /\ [Next]_vars => Typed'
  BY HostTyped, InstantiateTyped, GuestTyped, StutterTyped DEF Next
<1>2. QED BY InitTyped, <1>1, PTL DEF Spec

-----------------------------------------------------------------------------
(* The copies of memories and tables, for any host. *)
Views == MemoryInv /\ TableInv /\ Apart

LEMMA MemoryOf ==
  ASSUME Typed, NEW s \in Loaded
  PROVE  /\ modules[s].memory \in Memory /\ modules[s].table \in Table
         /\ s \in Slots /\ modules[s] \in Instance
BY LoadedInstance, InstanceFields

LEMMA RegsOf ==
  ASSUME NEW x, NEW y, x.memory.ptr = y.memory.ptr, x.memory.size = y.memory.size,
         x.memory.capacity = y.memory.capacity, x.memory.max = y.memory.max
  PROVE  Regs(x) = Regs(y)
BY DEF Regs

LEMMA RegsSame ==
  ASSUME NEW x, NEW y, Regs(x) = Regs(y)
  PROVE  /\ x.memory.ptr = y.memory.ptr /\ x.memory.size = y.memory.size
         /\ x.memory.capacity = y.memory.capacity /\ x.memory.max = y.memory.max
BY DEF Regs

LEMMA ViewsKept ==
  ASSUME Typed, Views, KeepsShape, KeepsMemory, KeepsTable,
         DOMAIN heap \subseteq DOMAIN heap', \A b \in DOMAIN heap : heap'[b] = heap[b]
  PROVE  Views'
<1>1. Loaded' = Loaded BY DEF KeepsShape
<1>2. \A s \in Loaded : modules'[s].memory = modules[s].memory
  BY DEF KeepsMemory
<1>3. \A s \in Loaded : modules'[s].table = modules[s].table
  BY DEF KeepsTable
<1>4. \A s \in Loaded : Regs(modules'[s]) = Regs(modules[s])
  BY <1>2, RegsOf
<1>5. MemoryInv'
  BY <1>1, <1>2, <1>4 DEF Views, MemoryInv
<1>6. TableInv' BY <1>1, <1>3 DEF Views, TableInv
<1>7. Apart' BY <1>1, <1>2, <1>3 DEF Views, Apart
<1>8. QED BY <1>5, <1>6, <1>7 DEF Views

LEMMA ViewsLoad ==
  ASSUME Typed, Views, NEW load \in Binaries, LoadModule(load.name, load.binary)
  PROVE  Views'
<1>1. PICK s \in Slots :
           /\ s \notin Loaded /\ Loaded' = Loaded \cup {s}
           /\ modules'[s] = NewInstance(load.name, load.binary)
           /\ \A t \in Slots : t # s => modules'[t] = modules[t]
  BY LoadEffect
<1> DEFINE n == NewInstance(load.name, load.binary)
<1>2. /\ n.memory.ptr = Null /\ n.memory.size = 0 /\ n.memory.capacity = 0
      /\ ~ n.memory.shared /\ n.table.ptr = Null /\ ~ n.table.shared
  <2>1. load.name \in Names /\ load.binary \in BinaryType BY ModulesAssumption
  <2>2. /\ n.memory = [ptr |-> Null, size |-> 0, capacity |-> 0,
               max |-> IF "memory" \in DOMAIN load.binary.imports THEN 0 ELSE load.binary.max,
               shared |-> FALSE, from |-> 0]
        /\ n.table.ptr = Null /\ ~ n.table.shared
    BY <2>1, NewInstanceType
  <2> HIDE DEF n
  <2>3. QED BY <2>2
<1>3. modules'[s] = n BY <1>1
<1> HIDE DEF n
<1>4. heap' = heap BY DEF LoadModule
<1>5. \A t \in Loaded : t \in Slots /\ t # s /\ modules'[t] = modules[t]
  BY <1>1 DEF Loaded
<1>6. MemoryInv'
  <2> SUFFICES ASSUME NEW u \in Loaded'
      PROVE  LET m == modules'[u].memory IN
             /\ m.ptr = Null => m.size = 0 /\ m.capacity = 0 /\ ~m.shared
             /\ m.ptr # Null => /\ m.ptr \in DOMAIN heap'
                                /\ heap'[m.ptr] = m.capacity /\ m.size <= m.capacity
             /\ m.shared => m.from \in Loaded' /\ Regs(modules'[u]) = Regs(modules'[m.from])
             /\ \A t \in Loaded' : modules'[t].memory.ptr = m.ptr => modules'[t].memory.size = m.size
    BY DEF MemoryInv
  <2>1. CASE u = s
    BY <1>1, <1>2, <1>3, <1>4, <1>5, <2>1 DEF Views, MemoryInv
  <2>2. CASE u # s
    <3>1. u \in Loaded BY <1>1, <2>2
    <3>2. \A t \in Loaded : modules[t].memory.ptr = modules[u].memory.ptr
                               => modules[t].memory.size = modules[u].memory.size
      BY <3>1 DEF Views, MemoryInv
    <3>3. QED BY <1>1, <1>2, <1>3, <1>4, <1>5, <3>1, <3>2 DEF Views, MemoryInv
  <2>3. QED BY <2>1, <2>2
<1>7. TableInv' BY <1>1, <1>2, <1>3, <1>4, <1>5 DEF Views, TableInv
<1>8. Apart' BY <1>1, <1>2, <1>3, <1>4, <1>5 DEF Views, Apart
<1>9. QED BY <1>6, <1>7, <1>8 DEF Views

LEMMA ViewsImports ==
  ASSUME Typed, Views, ImportsOk \/ ImportsFail
  PROVE  Views'
<1> DEFINE k == call.slot
           r == modules'[k]
<1>1. /\ k \in Loaded /\ k \in Slots /\ Mod = modules[k] /\ Mod \in Instance /\ Loaded' = Loaded
      /\ \A t \in Slots : t # k => modules'[t] = modules[t]
      /\ LinksMemory(Mod, r) /\ LinksTable(Mod, r)
  BY ImportsEffect DEF Loaded
<1>2. heap' = heap BY DEF ImportsOk, ImportsFail
<1>3. \A t \in Loaded : t # k => modules'[t] = modules[t] BY <1>1 DEF Loaded
<1> HIDE DEF k, r
<1>r. r = modules'[k] BY DEF r
<1>4. MemoryInv'
  <2>1. CASE r.memory = Mod.memory
    <3>1. \A s \in Loaded : modules'[s].memory = modules[s].memory BY <1>1, <1>3, <1>r, <2>1
    <3>2. \A s \in Loaded : Regs(modules'[s]) = Regs(modules[s]) BY <3>1, RegsOf
    <3>3. QED BY <1>1, <1>2, <3>1, <3>2 DEF Views, MemoryInv
  <2>2. CASE r.memory # Mod.memory
    <3>1. Mod.memory.ptr = Null BY <1>1, <2>2 DEF LinksMemory
    <3>2. PICK t \in Loaded : /\ modules[t].memory.ptr # Null
                              /\ r.memory = [modules[t].memory EXCEPT !.shared = TRUE, !.from = t]
      BY <1>1, <2>2 DEF LinksMemory
    <3>3. t # k BY <1>1, <3>1, <3>2
    <3>4. modules[t].memory \in Memory BY MemoryOf
    <3>5. /\ r.memory.ptr = modules[t].memory.ptr /\ r.memory.size = modules[t].memory.size
          /\ r.memory.capacity = modules[t].memory.capacity /\ r.memory.max = modules[t].memory.max
          /\ r.memory.shared = TRUE /\ r.memory.from = t
      BY <3>2, <3>4 DEF Memory
    <3>6. modules'[t] = modules[t] BY <1>3, <3>3
    <3>7. Regs(modules'[k]) = Regs(modules'[t]) BY <1>r, <3>5, <3>6, RegsOf
    <3>8. \A s \in Loaded : s # k /\ modules[s].memory.shared => modules[s].memory.from # k
      <4> SUFFICES ASSUME NEW s \in Loaded, modules[s].memory.shared, modules[s].memory.from = k
          PROVE FALSE OBVIOUS
      <4>1. modules[s].memory.ptr # Null /\ Regs(modules[s]) = Regs(modules[k])
        BY DEF Views, MemoryInv
      <4>2. QED BY <1>1, <3>1, <4>1, RegsSame
    <3> SUFFICES ASSUME NEW u \in Loaded
        PROVE  LET m == modules'[u].memory IN
               /\ m.ptr = Null => m.size = 0 /\ m.capacity = 0 /\ ~m.shared
               /\ m.ptr # Null => /\ m.ptr \in DOMAIN heap
                                  /\ heap[m.ptr] = m.capacity /\ m.size <= m.capacity
               /\ m.shared => m.from \in Loaded /\ Regs(modules'[u]) = Regs(modules'[m.from])
               /\ \A s \in Loaded : modules'[s].memory.ptr = m.ptr => modules'[s].memory.size = m.size
      BY <1>1, <1>2 DEF MemoryInv
    <3>9. CASE u = k
      <4>1. \A s \in Loaded : modules[s].memory.ptr = modules[t].memory.ptr
                               => modules[s].memory.size = modules[t].memory.size
        BY DEF Views, MemoryInv
      <4>2. \A s \in Loaded : modules'[s].memory.ptr = r.memory.ptr
                                => modules'[s].memory.size = r.memory.size
        BY <1>3, <1>r, <3>5, <4>1
      <4>3. /\ r.memory.ptr \in DOMAIN heap /\ heap[r.memory.ptr] = r.memory.capacity
            /\ r.memory.size <= r.memory.capacity /\ r.memory.ptr # Null
        BY <3>2, <3>5 DEF Views, MemoryInv
      <4>4. QED BY <1>r, <3>5, <3>7, <3>9, <4>2, <4>3
    <3>10. CASE u # k
      <4>1. modules'[u] = modules[u] BY <1>3, <3>10
      <4>2. \A s \in Loaded : /\ modules[s].memory.ptr = modules[u].memory.ptr
                                   => modules[s].memory.size = modules[u].memory.size
        BY DEF Views, MemoryInv
      <4>3. \A s \in Loaded : modules'[s].memory.ptr = modules[u].memory.ptr
                                => modules'[s].memory.size = modules[u].memory.size
        BY <1>3, <1>r, <3>5, <4>2
      <4>4. modules[u].memory.shared =>
              /\ modules[u].memory.from \in Loaded
              /\ Regs(modules'[u]) = Regs(modules'[modules[u].memory.from])
        BY <1>3, <3>8, <3>10, <4>1 DEF Views, MemoryInv
      <4>5. QED BY <4>1, <4>3, <4>4 DEF Views, MemoryInv
    <3>11. QED BY <3>9, <3>10
  <2>3. QED BY <2>1, <2>2
<1>5. r.table = Mod.table \/
        (r.table.shared /\ \E t \in Loaded : /\ modules[t].table.ptr # Null
                          /\ r.table.ptr = modules[t].table.ptr
                          /\ r.table.size = modules[t].table.size)
  <2>1. CASE r.table = Mod.table BY <2>1
  <2>2. CASE r.table # Mod.table
    <3>1. PICK t \in Loaded : /\ modules[t].table.ptr # Null
                              /\ r.table = [modules[t].table EXCEPT !.shared = TRUE, !.from = t]
      BY <1>1, <2>2 DEF LinksTable
    <3>2. modules[t].table \in Table BY MemoryOf
    <3>3. /\ r.table.ptr = modules[t].table.ptr /\ r.table.size = modules[t].table.size
          /\ r.table.shared = TRUE
      BY <3>1, <3>2 DEF Table
    <3>4. QED BY <3>1, <3>3
  <2>3. QED BY <2>1, <2>2
<1>6. TableInv'
  <2>1. \A s \in Loaded : s = k \/ modules'[s].table = modules[s].table BY <1>3
  <2>2. QED BY <1>1, <1>2, <1>5, <1>r, <2>1 DEF Views, TableInv
<1>7. Apart'
  <2>1. \A s \in Loaded : \E u \in Loaded : modules'[s].table.ptr = modules[u].table.ptr
    BY <1>1, <1>3, <1>5, <1>r
  <2>2. \A s \in Loaded : \E u \in Loaded : modules'[s].memory.ptr = modules[u].memory.ptr
    <3>1. \E u \in Loaded : r.memory.ptr = modules[u].memory.ptr
      <4>1. CASE r.memory = Mod.memory BY <1>1, <4>1
      <4>2. CASE r.memory # Mod.memory
        <5>1. PICK t \in Loaded :
                r.memory = [modules[t].memory EXCEPT !.shared = TRUE, !.from = t]
          BY <1>1, <4>2 DEF LinksMemory
        <5>2. modules[t].memory \in Memory BY MemoryOf
        <5>3. r.memory.ptr = modules[t].memory.ptr BY <5>1, <5>2 DEF Memory
        <5>4. QED BY <5>3
      <4>3. QED BY <4>1, <4>2
    <3>2. QED BY <1>1, <1>3, <1>r, <3>1
  <2>3. SUFFICES ASSUME NEW s \in Loaded, NEW t \in Loaded,
                        modules'[s].memory.ptr = modules'[t].table.ptr
                 PROVE  modules'[s].memory.ptr = Null
    BY <1>1 DEF Apart
  <2>4. PICK u \in Loaded : modules'[s].memory.ptr = modules[u].memory.ptr BY <2>2
  <2>5. PICK v \in Loaded : modules'[t].table.ptr = modules[v].table.ptr BY <2>1
  <2>6. QED BY <2>3, <2>4, <2>5 DEF Views, Apart
<1>8. QED BY <1>4, <1>6, <1>7 DEF Views

LEMMA ViewsMemoryOk ==
  ASSUME Typed, Views, MemoryOk
  PROVE  Views'
<1> DEFINE k == call.slot
<1>1. /\ k \in Loaded /\ Mod = modules[k] /\ Loaded' = Loaded /\ KeepsTable /\ KeepsShape
      /\ \A t \in Slots : t # k => modules'[t] = modules[t]
  BY MemoryEffect DEF KeepsShape
<1>2. CASE modules' = modules /\ heap' = heap
  BY <1>2, KeptAll, ViewsKept
<1>3. ASSUME NEW a \in Free, Mod.memory.ptr = Null, heap' = With(a, Mod.binary.min),
             modules'[k].memory = [Mod.memory EXCEPT !.ptr = a, !.size = Mod.binary.min,
                                                     !.capacity = Mod.binary.min]
      PROVE  Views'
  <2> DEFINE n == Mod.binary.min
  <2>1. n \in Nat /\ Mod.memory \in Memory /\ a # Null
    BY <1>1, LoadedInstance, InstanceFields, BinaryFields, FreshBlock
  <2>2. /\ DOMAIN heap' = DOMAIN heap \cup {a} /\ heap'[a] = n
        /\ \A b \in DOMAIN heap : heap'[b] = heap[b]
    BY <1>3, <2>1, HeapExtended
  <2>3. a \notin DOMAIN heap BY FreshBlock
  <2> DEFINE r == modules'[k].memory
  <2>4. r.ptr = a /\ r.size = n /\ r.capacity = n /\ r.shared = Mod.memory.shared
    BY <1>3, <2>1 DEF Memory
  <2> HIDE DEF n, r, k
  <2>r. r = modules'[k].memory BY DEF r
  <2>5. \A t \in Loaded : t # k => modules'[t] = modules[t] BY <1>1 DEF Loaded
  <2>6. ~ r.shared BY <1>1, <1>3, <2>4 DEF Views, MemoryInv
  <2>7. \A s \in Loaded : /\ modules[s].memory.ptr # a /\ modules[s].table.ptr # a
    BY <2>1, <2>3 DEF Views, MemoryInv, TableInv
  <2>8. \A s \in Loaded : modules[s].memory.shared => modules[s].memory.from # k
    <3> SUFFICES ASSUME NEW s \in Loaded, modules[s].memory.shared, modules[s].memory.from = k
        PROVE FALSE OBVIOUS
    <3>1. modules[s].memory.ptr # Null /\ Regs(modules[s]) = Regs(modules[k])
      BY DEF Views, MemoryInv
    <3>2. QED BY <1>1, <1>3, <3>1, RegsSame
  <2>9. MemoryInv'
    <3> SUFFICES ASSUME NEW u \in Loaded
        PROVE  LET m == modules'[u].memory IN
               /\ m.ptr = Null => m.size = 0 /\ m.capacity = 0 /\ ~m.shared
               /\ m.ptr # Null => /\ m.ptr \in DOMAIN heap'
                                  /\ heap'[m.ptr] = m.capacity /\ m.size <= m.capacity
               /\ m.shared => m.from \in Loaded /\ Regs(modules'[u]) = Regs(modules'[m.from])
               /\ \A s \in Loaded : modules'[s].memory.ptr = m.ptr => modules'[s].memory.size = m.size
      BY <1>1 DEF MemoryInv
    <3>1. CASE u = k
      <4>1. \A s \in Loaded : modules'[s].memory.ptr = r.ptr => modules'[s].memory.size = r.size
        BY <2>4, <2>5, <2>7, <2>r
      <4>2. QED BY <2>1, <2>2, <2>4, <2>6, <2>r, <3>1, <4>1
    <3>2. CASE u # k
      <4>1. modules'[u] = modules[u] BY <2>5, <3>2
      <4>2. \A s \in Loaded : modules[s].memory.ptr = modules[u].memory.ptr
                                => modules[s].memory.size = modules[u].memory.size
        BY DEF Views, MemoryInv
      <4>3. \A s \in Loaded : modules'[s].memory.ptr = modules[u].memory.ptr
                                => modules'[s].memory.size = modules[u].memory.size
        BY <2>4, <2>5, <2>7, <2>r, <4>2
      <4>4. modules[u].memory.shared =>
              /\ modules[u].memory.from \in Loaded
              /\ Regs(modules'[u]) = Regs(modules'[modules[u].memory.from])
        BY <2>5, <2>8, <4>1 DEF Views, MemoryInv
      <4>5. QED BY <2>2, <4>1, <4>3, <4>4 DEF Views, MemoryInv
    <3>3. QED BY <3>1, <3>2
  <2>10. \A s \in Loaded : modules'[s].table = modules[s].table BY <1>1 DEF KeepsTable
  <2>11. TableInv' BY <1>1, <2>2, <2>10 DEF Views, TableInv
  <2>12. Apart'
    <3>1. SUFFICES ASSUME NEW s \in Loaded, NEW t \in Loaded,
                          modules'[s].memory.ptr = modules'[t].table.ptr
                   PROVE  modules'[s].memory.ptr = Null
      BY <1>1 DEF Apart
    <3>2. s # k BY <2>4, <2>7, <2>10, <2>r, <3>1
    <3>3. QED BY <2>5, <2>10, <3>1, <3>2 DEF Views, Apart
  <2>13. QED BY <2>9, <2>11, <2>12 DEF Views
<1>4. QED BY <1>2, <1>3, MemoryEffect

LEMMA ViewsTablesOk ==
  ASSUME Typed, Views, TablesOk
  PROVE  Views'
<1> DEFINE k == call.slot
<1>1. /\ k \in Loaded /\ Mod = modules[k] /\ Loaded' = Loaded /\ KeepsMemory /\ KeepsShape
      /\ \A t \in Slots : t # k => modules'[t] = modules[t]
  BY TableEffect DEF KeepsShape
<1>2. CASE modules' = modules /\ heap' = heap
  BY <1>2, KeptAll, ViewsKept
<1>3. ASSUME NEW a \in Free, NeedsTable(Mod), heap' = With(a, Mod.table.size),
             modules'[k].table = [Mod.table EXCEPT !.ptr = a]
      PROVE  Views'
  <2> DEFINE n == Mod.table.size
  <2>1. n \in Nat /\ Mod.table \in Table /\ a # Null
    BY <1>1, LoadedInstance, InstanceFields, TableFields, FreshBlock
  <2>2. /\ DOMAIN heap' = DOMAIN heap \cup {a} /\ heap'[a] = n
        /\ \A b \in DOMAIN heap : heap'[b] = heap[b]
    BY <1>3, <2>1, HeapExtended
  <2>3. a \notin DOMAIN heap BY FreshBlock
  <2> DEFINE r == modules'[k].table
  <2>4. r.ptr = a /\ r.size = n BY <1>3, <2>1 DEF Table
  <2> HIDE DEF n, r, k
  <2>r. r = modules'[k].table BY DEF r
  <2>5. \A t \in Loaded : t # k => modules'[t] = modules[t] BY <1>1 DEF Loaded
  <2>6. \A s \in Loaded : /\ modules[s].memory.ptr # a
    BY <2>1, <2>3 DEF Views, MemoryInv
  <2>7. \A s \in Loaded : modules'[s].memory = modules[s].memory BY <1>1 DEF KeepsMemory
  <2>8. \A s \in Loaded : Regs(modules'[s]) = Regs(modules[s]) BY <2>7, RegsOf
  <2>9. MemoryInv' BY <1>1, <2>2, <2>7, <2>8 DEF Views, MemoryInv
  <2>10. TableInv' BY <1>1, <2>1, <2>2, <2>4, <2>5, <2>r DEF Views, TableInv
  <2>11. Apart'
    <3>1. SUFFICES ASSUME NEW s \in Loaded, NEW t \in Loaded,
                          modules'[s].memory.ptr = modules'[t].table.ptr
                   PROVE  modules'[s].memory.ptr = Null
      BY <1>1 DEF Apart
    <3>2. t # k BY <2>4, <2>6, <2>7, <2>r, <3>1
    <3>3. QED BY <2>5, <2>7, <3>1, <3>2 DEF Views, Apart
  <2>12. QED BY <2>9, <2>10, <2>11 DEF Views
<1>4. QED BY <1>2, <1>3, TableEffect

LEMMA ViewsGrowInPlace ==
  ASSUME Typed, Views, CacheFresh, NEW delta \in 1 .. kMaxLinearMemory, GrowInPlace(delta)
  PROVE  Views' /\ CacheFresh'
<1> DEFINE n == regs.size + delta
           T == Sharing(regs.ptr)
<1>1. /\ n \in Nat /\ n <= regs.capacity /\ n > 0 /\ regs' = [regs EXCEPT !.size = n]
      /\ KeepsShape /\ KeepsTable
      /\ \A s \in Loaded :
           modules'[s].memory = IF s \in T THEN [modules[s].memory EXCEPT !.size = n]
                                ELSE modules[s].memory
  BY GrowInPlaceEffect
<1>2. Running /\ heap' = heap /\ frames' = frames BY DEF GrowInPlace
<1>3. Top \in Loaded /\ regs = Regs(modules[Top]) BY <1>2, RunningTop DEF CacheFresh
<1> HIDE DEF n
<1>4. Loaded' = Loaded BY <1>1 DEF KeepsShape
<1>5. \A s \in Loaded : modules[s].memory \in Memory BY MemoryOf
<1>6. \A s \in Loaded :
        /\ modules'[s].memory.ptr = modules[s].memory.ptr
        /\ modules'[s].memory.capacity = modules[s].memory.capacity
        /\ modules'[s].memory.max = modules[s].memory.max
        /\ modules'[s].memory.shared = modules[s].memory.shared
        /\ modules'[s].memory.from = modules[s].memory.from
        /\ modules'[s].memory.size = IF s \in T THEN n ELSE modules[s].memory.size
  <2>1. TAKE s \in Loaded
  <2>2. modules[s].memory \in Memory BY <1>5
  <2>3. QED BY <1>1, <2>2 DEF Memory
<1>7. \A s \in Loaded : s \in T <=> modules[s].memory.ptr = regs.ptr BY DEF Sharing
<1> HIDE DEF T
<1>8. /\ regs.ptr = modules[Top].memory.ptr /\ regs.capacity = modules[Top].memory.capacity
      /\ regs.max = modules[Top].memory.max
  BY <1>3 DEF Regs
<1>9. regs.ptr # Null
  <2>1. regs.capacity # 0
    <3>1. regs.capacity \in Nat BY RegsFields
    <3>2. QED BY <1>1, <3>1
  <2>2. QED BY <1>3, <1>8, <2>1 DEF Views, MemoryInv
<1>10. \A s \in Loaded : s \in T => n <= modules[s].memory.capacity /\ modules[s].memory.ptr # Null
  <2>1. \A s \in Loaded : s \in T => modules[s].memory.capacity = regs.capacity
    <3>1. TAKE s \in Loaded
    <3>2. HAVE s \in T
    <3>3. modules[s].memory.ptr = regs.ptr BY <1>7, <3>2
    <3>4. heap[regs.ptr] = modules[s].memory.capacity
      BY <1>9, <3>3 DEF Views, MemoryInv
    <3>5. heap[regs.ptr] = modules[Top].memory.capacity
      BY <1>3, <1>8, <1>9 DEF Views, MemoryInv
    <3>6. QED BY <1>8, <3>4, <3>5
  <2>2. QED BY <1>1, <1>7, <1>9, <2>1
<1>11. MemoryInv'
  <2> SUFFICES ASSUME NEW u \in Loaded
        PROVE  LET m == modules'[u].memory IN
               /\ m.ptr = Null => m.size = 0 /\ m.capacity = 0 /\ ~m.shared
               /\ m.ptr # Null => /\ m.ptr \in DOMAIN heap
                                  /\ heap[m.ptr] = m.capacity /\ m.size <= m.capacity
               /\ m.shared => m.from \in Loaded /\ Regs(modules'[u]) = Regs(modules'[m.from])
               /\ \A s \in Loaded : modules'[s].memory.ptr = m.ptr => modules'[s].memory.size = m.size
    BY <1>2, <1>4 DEF MemoryInv
  <2>1. modules'[u].memory.ptr = Null =>
          modules'[u].memory.size = 0 /\ modules'[u].memory.capacity = 0 /\ ~modules'[u].memory.shared
    BY <1>6, <1>10 DEF Views, MemoryInv
  <2>2. modules'[u].memory.ptr # Null =>
          /\ modules'[u].memory.ptr \in DOMAIN heap
          /\ heap[modules'[u].memory.ptr] = modules'[u].memory.capacity
          /\ modules'[u].memory.size <= modules'[u].memory.capacity
    BY <1>6, <1>10 DEF Views, MemoryInv
  <2>3. ASSUME modules'[u].memory.shared
        PROVE  /\ modules'[u].memory.from \in Loaded
               /\ Regs(modules'[u]) = Regs(modules'[modules'[u].memory.from])
    <3> DEFINE f == modules[u].memory.from
    <3>1. f \in Loaded /\ Regs(modules[u]) = Regs(modules[f]) /\ modules'[u].memory.from = f
      BY <1>6, <2>3 DEF Views, MemoryInv
    <3> HIDE DEF f
    <3>2. /\ modules[u].memory.ptr = modules[f].memory.ptr
          /\ modules[u].memory.size = modules[f].memory.size
          /\ modules[u].memory.capacity = modules[f].memory.capacity
          /\ modules[u].memory.max = modules[f].memory.max
      BY <3>1, RegsSame
    <3>3. u \in T <=> f \in T BY <1>7, <3>1, <3>2
    <3>4. /\ modules'[u].memory.ptr = modules'[f].memory.ptr
          /\ modules'[u].memory.size = modules'[f].memory.size
          /\ modules'[u].memory.capacity = modules'[f].memory.capacity
          /\ modules'[u].memory.max = modules'[f].memory.max
      BY <1>6, <3>1, <3>2, <3>3
    <3>5. QED BY <3>1, <3>4, RegsOf
  <2>4. \A s \in Loaded : modules'[s].memory.ptr = modules'[u].memory.ptr
                            => modules'[s].memory.size = modules'[u].memory.size
    <3>1. \A s \in Loaded : modules[s].memory.ptr = modules[u].memory.ptr
                              => modules[s].memory.size = modules[u].memory.size
      BY DEF Views, MemoryInv
    <3>2. QED BY <1>6, <1>7, <3>1
  <2>5. QED BY <2>1, <2>2, <2>3, <2>4
<1>12. \A s \in Loaded : modules'[s].table = modules[s].table BY <1>1 DEF KeepsTable
<1>13. TableInv' BY <1>2, <1>4, <1>12 DEF Views, TableInv
<1>14. Apart' BY <1>4, <1>6, <1>12 DEF Views, Apart
<1>15. CacheFresh'
  <2>1. Top' = Top BY <1>2 DEF Top
  <2>2. Top \in T BY <1>3, <1>7, <1>8
  <2>3. regs' = Regs(modules'[Top])
    <3>1. regs' = [ptr |-> regs.ptr, size |-> n, capacity |-> regs.capacity, max |-> regs.max]
      BY <1>1, RegsFields
    <3>2. QED BY <1>3, <1>6, <1>8, <2>2, <3>1 DEF Regs
  <2>4. QED BY <2>1, <2>3 DEF CacheFresh
<1>16. QED BY <1>11, <1>13, <1>14, <1>15 DEF Views

LEMMA ViewsGrowMoves ==
  ASSUME Typed, Views, CacheFresh, NEW delta \in 1 .. kMaxLinearMemory, GrowMoves(delta)
  PROVE  Views' /\ CacheFresh'
<1> DEFINE n == regs.size + delta
           c == NewCapacity(n)
           T == Sharing(regs.ptr)
<1>1. /\ n \in Nat /\ c \in Nat /\ n <= c
      /\ KeepsShape /\ KeepsTable
  BY GrowMovesEffect
<1>2. PICK a \in Free :
              /\ heap' = [b \in (DOMAIN heap \ {regs.ptr}) \cup {a} |->
                            IF b = a THEN c ELSE heap[b]]
              /\ regs' = [regs EXCEPT !.ptr = a, !.size = n, !.capacity = c]
              /\ \A s \in Loaded :
                   modules'[s].memory =
                     IF s \in T
                       THEN [modules[s].memory EXCEPT !.ptr = a, !.size = n, !.capacity = c]
                       ELSE modules[s].memory
  BY GrowMovesEffect
<1>3. Running /\ frames' = frames BY DEF GrowMoves
<1>4. Top \in Loaded /\ regs = Regs(modules[Top]) BY <1>3, RunningTop DEF CacheFresh
<1> HIDE DEF n, c
<1>5. Loaded' = Loaded BY <1>1 DEF KeepsShape
<1>6. /\ DOMAIN heap' = (DOMAIN heap \ {regs.ptr}) \cup {a} /\ heap'[a] = c
      /\ \A b \in DOMAIN heap \ {regs.ptr} : heap'[b] = heap[b]
  <2>1. c \in Nat /\ heap' = [b \in (DOMAIN heap \ {regs.ptr}) \cup {a} |->
                                IF b = a THEN c ELSE heap[b]]
    BY <1>1, <1>2
  <2> HIDE DEF T
  <2>2. QED BY <2>1, HeapMoved, SMTT(30)
<1>7. a \notin DOMAIN heap /\ a # Null BY FreshBlock
<1>8. \A s \in Loaded :
        /\ modules'[s].memory.max = modules[s].memory.max
        /\ modules'[s].memory.shared = modules[s].memory.shared
        /\ modules'[s].memory.from = modules[s].memory.from
        /\ modules'[s].memory.ptr = IF s \in T THEN a ELSE modules[s].memory.ptr
        /\ modules'[s].memory.size = IF s \in T THEN n ELSE modules[s].memory.size
        /\ modules'[s].memory.capacity = IF s \in T THEN c ELSE modules[s].memory.capacity
  <2>1. TAKE s \in Loaded
  <2>2. modules[s].memory \in Memory BY MemoryOf
  <2>3. QED BY <1>2, <2>2 DEF Memory
<1>9. \A s \in Loaded : s \in T <=> modules[s].memory.ptr = regs.ptr BY DEF Sharing
<1> HIDE DEF T
<1>10. regs.ptr = modules[Top].memory.ptr /\ regs.max = modules[Top].memory.max
  BY <1>4 DEF Regs
<1>11. \A s \in Loaded : modules[s].memory.ptr # a /\ modules[s].table.ptr # a
  BY <1>7 DEF Views, MemoryInv, TableInv
<1>12. MemoryInv'
  <2> SUFFICES ASSUME NEW u \in Loaded
        PROVE  LET m == modules'[u].memory IN
               /\ m.ptr = Null => m.size = 0 /\ m.capacity = 0 /\ ~m.shared
               /\ m.ptr # Null => /\ m.ptr \in DOMAIN heap'
                                  /\ heap'[m.ptr] = m.capacity /\ m.size <= m.capacity
               /\ m.shared => m.from \in Loaded /\ Regs(modules'[u]) = Regs(modules'[m.from])
               /\ \A s \in Loaded : modules'[s].memory.ptr = m.ptr => modules'[s].memory.size = m.size
    BY <1>5 DEF MemoryInv
  <2>1. modules'[u].memory.ptr = Null =>
          modules'[u].memory.size = 0 /\ modules'[u].memory.capacity = 0 /\ ~modules'[u].memory.shared
    BY <1>7, <1>8 DEF Views, MemoryInv
  <2>2. modules'[u].memory.ptr # Null =>
          /\ modules'[u].memory.ptr \in DOMAIN heap'
          /\ heap'[modules'[u].memory.ptr] = modules'[u].memory.capacity
          /\ modules'[u].memory.size <= modules'[u].memory.capacity
    <3>1. CASE u \in T BY <1>1, <1>6, <1>8, <3>1
    <3>2. CASE u \notin T BY <1>6, <1>8, <1>9, <3>2 DEF Views, MemoryInv
    <3>3. QED BY <3>1, <3>2
  <2>3. ASSUME modules'[u].memory.shared
        PROVE  /\ modules'[u].memory.from \in Loaded
               /\ Regs(modules'[u]) = Regs(modules'[modules'[u].memory.from])
    <3> DEFINE f == modules[u].memory.from
    <3>1. f \in Loaded /\ Regs(modules[u]) = Regs(modules[f]) /\ modules'[u].memory.from = f
      BY <1>8, <2>3 DEF Views, MemoryInv
    <3> HIDE DEF f
    <3>2. /\ modules[u].memory.ptr = modules[f].memory.ptr
          /\ modules[u].memory.size = modules[f].memory.size
          /\ modules[u].memory.capacity = modules[f].memory.capacity
          /\ modules[u].memory.max = modules[f].memory.max
      BY <3>1, RegsSame
    <3>3. u \in T <=> f \in T BY <1>9, <3>1, <3>2
    <3>4. /\ modules'[u].memory.ptr = modules'[f].memory.ptr
          /\ modules'[u].memory.size = modules'[f].memory.size
          /\ modules'[u].memory.capacity = modules'[f].memory.capacity
          /\ modules'[u].memory.max = modules'[f].memory.max
      BY <1>8, <3>1, <3>2, <3>3
    <3>5. QED BY <3>1, <3>4, RegsOf
  <2>4. \A s \in Loaded : modules'[s].memory.ptr = modules'[u].memory.ptr
                            => modules'[s].memory.size = modules'[u].memory.size
    <3>1. \A s \in Loaded : modules[s].memory.ptr = modules[u].memory.ptr
                              => modules[s].memory.size = modules[u].memory.size
      BY DEF Views, MemoryInv
    <3>2. QED BY <1>8, <1>9, <1>11, <3>1
  <2>5. QED BY <2>1, <2>2, <2>3, <2>4
<1>13. \A s \in Loaded : modules'[s].table = modules[s].table BY <1>1 DEF KeepsTable
<1>14. TableInv'
  <2>1. \A s \in Loaded : modules[s].table.ptr # Null => modules[s].table.ptr # regs.ptr
    BY <1>4, <1>10 DEF Views, Apart
  <2>2. QED BY <1>5, <1>6, <1>7, <1>13, <2>1 DEF Views, TableInv
<1>15. Apart' BY <1>5, <1>8, <1>11, <1>13 DEF Views, Apart
<1>16. CacheFresh'
  <2>1. Top' = Top BY <1>3 DEF Top
  <2>2. Top \in T BY <1>4, <1>9, <1>10
  <2>3. regs' = Regs(modules'[Top])
    <3>1. regs' = [ptr |-> a, size |-> n, capacity |-> c, max |-> regs.max]
      BY <1>2, RegsFields
    <3>2. QED BY <1>4, <1>8, <1>10, <2>2, <3>1 DEF Regs
  <2>4. QED BY <2>1, <2>3 DEF CacheFresh
<1>17. QED BY <1>12, <1>14, <1>15, <1>16 DEF Views

LEMMA ViewsTableGrow ==
  ASSUME Typed, Views, TableGrow
  PROVE  Views'
<1> DEFINE t == modules[Top].table
           n == t.size + 1
           T == IF t.ptr = Null THEN {Top} ELSE {s \in Loaded : modules[s].table.ptr = t.ptr}
<1>1. Top \in Loaded /\ KeepsShape /\ KeepsMemory BY TableGrowEffect
<1>2. PICK a \in Free :
        /\ heap' = [b \in (DOMAIN heap \ {t.ptr}) \cup {a} |-> IF b = a THEN n ELSE heap[b]]
        /\ \A s \in Loaded :
             modules'[s].table =
               IF s \in T THEN [modules[s].table EXCEPT !.ptr = a, !.size = n]
               ELSE modules[s].table
  BY TableGrowEffect
<1>3. n \in Nat
  <2>1. t \in Table BY <1>1, MemoryOf
  <2>2. QED BY <2>1, TableFields
<1> HIDE DEF n
<1>4. /\ DOMAIN heap' = (DOMAIN heap \ {t.ptr}) \cup {a} /\ heap'[a] = n
      /\ \A b \in DOMAIN heap \ {t.ptr} : heap'[b] = heap[b]
  <2>1. heap' = [b \in (DOMAIN heap \ {t.ptr}) \cup {a} |-> IF b = a THEN n ELSE heap[b]]
    BY <1>2
  <2> HIDE DEF t, T
  <2>2. QED BY <1>3, <2>1, HeapMoved, ZenonT(40)
<1>5. a \notin DOMAIN heap /\ a # Null BY FreshBlock
<1>6. Loaded' = Loaded BY <1>1 DEF KeepsShape
<1>7. \A s \in Loaded : modules'[s].memory = modules[s].memory BY <1>1 DEF KeepsMemory
<1>8. \A s \in Loaded : Regs(modules'[s]) = Regs(modules[s]) BY <1>7, RegsOf
<1>9. \A s \in Loaded :
        /\ modules'[s].table.ptr = IF s \in T THEN a ELSE modules[s].table.ptr
        /\ modules'[s].table.size = IF s \in T THEN n ELSE modules[s].table.size
        /\ modules'[s].table.shared = modules[s].table.shared
  <2>1. TAKE s \in Loaded
  <2>2. modules[s].table \in Table BY MemoryOf
  <2> HIDE DEF T
  <2>3. QED BY <1>2, <2>2 DEF Table
<1>10. \A s \in Loaded : s \notin T /\ modules[s].table.ptr # Null => modules[s].table.ptr # t.ptr
  OBVIOUS
<1> HIDE DEF T
<1>11. \A s \in Loaded : modules[s].memory.ptr # Null => modules[s].memory.ptr # t.ptr
  BY <1>1 DEF Views, Apart
<1> HIDE DEF t
<1>12. \A s \in Loaded : modules[s].memory.ptr # Null =>
         /\ modules[s].memory.ptr \in DOMAIN heap'
         /\ heap'[modules[s].memory.ptr] = heap[modules[s].memory.ptr]
  BY <1>4, <1>11 DEF Views, MemoryInv
<1>13. MemoryInv' BY <1>6, <1>7, <1>8, <1>12 DEF Views, MemoryInv
<1>14. TableInv'
  <2> SUFFICES ASSUME NEW s \in Loaded
      PROVE  /\ modules'[s].table.ptr # Null =>
                  /\ modules'[s].table.ptr \in DOMAIN heap'
                  /\ heap'[modules'[s].table.ptr] = modules'[s].table.size
             /\ modules'[s].table.shared => modules'[s].table.ptr # Null
    BY <1>6 DEF TableInv
  <2>1. CASE s \in T BY <1>4, <1>5, <1>9, <2>1
  <2>2. CASE s \notin T
    BY <1>4, <1>9, <1>10, <2>2 DEF Views, TableInv
  <2>3. QED BY <2>1, <2>2
<1>15. Apart'
  <2>1. \A s \in Loaded : modules[s].memory.ptr # a
    BY <1>5 DEF Views, MemoryInv
  <2>2. QED BY <1>6, <1>7, <1>9, <2>1 DEF Views, Apart
<1>16. QED BY <1>13, <1>14, <1>15 DEF Views

LEMMA ViewsStep ==
  ASSUME Typed, Views, CacheFresh, Next
  PROVE  Views'
<1>1. ASSUME UNCHANGED <<modules, heap>> PROVE Views'
  BY <1>1, KeptAll, ViewsKept
<1>2. ASSUME KeepsShape, KeepsMemory, KeepsTable, heap' = heap PROVE Views'
  BY <1>2, ViewsKept
<1>3. CASE HostStep
  <2>1. ASSUME UnloadAllModules PROVE Views'
    <3>1. Loaded' = {} BY <2>1 DEF UnloadAllModules, Loaded
    <3>2. QED BY <3>1 DEF Views, MemoryInv, TableInv, Apart
  <2>2. ASSUME NEW load \in Binaries, LoadModule(load.name, load.binary) PROVE Views'
    BY <2>2, ViewsLoad
  <2>3. QED
    BY <1>1, <1>3, <2>1, <2>2
    DEF HostStep, RegisterAlias, InstantiateModules, Execute, ExecuteByIndex
<1>4. CASE InstantiateStep
  <2>1. CASE ImportsOk \/ ImportsFail BY <2>1, ViewsImports
  <2>2. CASE MemoryOk BY <2>2, ViewsMemoryOk
  <2>3. CASE TablesOk BY <2>3, ViewsTablesOk
  <2>4. CASE ApplyElements \/ ApplyData
    <3>1. heap' = heap BY <2>4 DEF ApplyElements, ApplyData
    <3>2. QED BY <1>2, <2>4, <3>1, FlagEffect
  <2>5. CASE Instantiated
    <3>1. heap' = heap BY <2>5 DEF Instantiated
    <3>2. QED BY <1>2, <2>5, <3>1, InstantiatedEffect
  <2>6. CASE MemoryFails \/ TablesFail \/ RunStart \/ InstantiateReturns
    BY <1>1, <2>6 DEF MemoryFails, TablesFail, RunStart, InstantiateReturns
  <2>7. ASSUME NEW imported \in BOOLEAN, Enter(imported) PROVE Views'
    BY <1>1, <2>7 DEF Enter
  <2>8. QED BY <1>4, <2>1, <2>2, <2>3, <2>4, <2>5, <2>6, <2>7 DEF InstantiateStep
<1>5. CASE GuestStep
  <2>1. CASE Trap \/ CallImport \/ Return BY <1>1, <2>1 DEF Trap, CallImport, Return
  <2>2. CASE TableGrow BY <2>2, ViewsTableGrow
  <2>3. ASSUME NEW delta \in 1 .. kMaxLinearMemory, GrowInPlace(delta) PROVE Views'
    BY <2>3, ViewsGrowInPlace
  <2>4. ASSUME NEW delta \in 1 .. kMaxLinearMemory, GrowMoves(delta) PROVE Views'
    BY <2>4, ViewsGrowMoves
  <2>5. ASSUME NEW v \in 0 .. 1, GlobalSet(v) PROVE Views'
    <3>1. heap' = heap BY <2>5 DEF GlobalSet
    <3>2. QED BY <1>2, <2>5, <3>1, GlobalEffect
  <2>6. QED BY <1>5, <2>1, <2>2, <2>3, <2>4, <2>5 DEF GuestStep
<1>6. QED BY <1>3, <1>4, <1>5 DEF Next

LEMMA CacheKept ==
  ASSUME Typed, CacheFresh, KeepsShape, KeepsMemory, UNCHANGED <<frames, regs>>
  PROVE  CacheFresh'
<1>1. Running' = Running /\ Top' = Top BY DEF Running, Top
<1>2. CASE Running
  <2>1. Top \in Loaded BY <1>2, RunningTop
  <2>2. Regs(modules'[Top]) = Regs(modules[Top]) BY <2>1, RegsOf DEF KeepsMemory
  <2>3. QED BY <1>1, <1>2, <2>2 DEF CacheFresh
<1>3. CASE ~ Running BY <1>1, <1>3 DEF CacheFresh
<1>4. QED BY <1>2, <1>3

LEMMA CacheStep ==
  ASSUME Typed, Views, CacheFresh, Next
  PROVE  CacheFresh'
<1>1. ASSUME UNCHANGED <<modules, frames, regs>> PROVE CacheFresh'
  BY <1>1, KeptAll, CacheKept
<1>2. ASSUME KeepsShape, KeepsMemory, UNCHANGED <<frames, regs>> PROVE CacheFresh'
  BY <1>2, CacheKept
<1>3. ASSUME frames' = frames, call.op \notin {"started", "execute"} PROVE CacheFresh'
  BY <1>3 DEF CacheFresh, Running, Typed, CallTyped
<1>4. ASSUME modules' = modules, Reload(frames') PROVE CacheFresh'
  BY <1>4 DEF CacheFresh, Running, Top, Reload
<1>5. CASE HostStep
  BY <1>3, <1>5 DEF HostStep, LoadModule, RegisterAlias, InstantiateModules, Execute,
     ExecuteByIndex, UnloadAllModules
<1>6. CASE InstantiateStep
  <2>1. CASE \/ ImportsOk \/ ImportsFail \/ MemoryOk \/ MemoryFails \/ TablesOk \/ TablesFail
             \/ ApplyElements \/ ApplyData \/ InstantiateReturns
    BY <1>3, <2>1 DEF ImportsOk, ImportsFail, MemoryOk, MemoryFails, TablesOk, TablesFail,
       ApplyElements, ApplyData, InstantiateReturns, Registry, At
  <2>2. CASE Instantiated
    <3>1. UNCHANGED <<frames, regs>> BY <2>2 DEF Instantiated, Registry
    <3>2. QED BY <1>2, <2>2, <3>1, InstantiatedEffect
  <2>3. CASE RunStart
    <3>1. frames' = <<call.slot>> /\ regs' = Regs(Mod) /\ modules' = modules BY <2>3 DEF RunStart
    <3>2. Len(frames') = 1 /\ frames'[1] = call.slot BY <3>1
    <3>3. QED BY <3>1, <3>2 DEF CacheFresh, Running, Top, Mod
  <2>4. ASSUME NEW imported \in BOOLEAN, Enter(imported) PROVE CacheFresh'
    <3> DEFINE end == Entry(call.target, imported)
    <3>1. /\ modules' = modules /\ call.op = "return"
          /\ \/ frames' = <<end>> /\ regs' = Regs(modules[end])
             \/ UNCHANGED <<frames, regs>>
      BY <2>4 DEF Enter, At
    <3> HIDE DEF end
    <3>2. CASE frames' = <<end>> /\ regs' = Regs(modules[end])
      <4>1. Len(frames') = 1 /\ frames'[1] = end BY <3>2
      <4>2. QED BY <3>1, <3>2, <4>1 DEF CacheFresh, Running, Top
    <3>3. CASE UNCHANGED <<frames, regs>> BY <1>1, <3>1, <3>3
    <3>4. QED BY <3>1, <3>2, <3>3
  <2>5. QED BY <1>6, <2>1, <2>2, <2>3, <2>4 DEF InstantiateStep
<1>7. CASE GuestStep
  <2>1. CASE Trap BY <2>1 DEF Trap, CacheFresh, Running
  <2>2. CASE CallImport \/ Return BY <1>4, <2>2 DEF CallImport, Return
  <2>3. CASE TableGrow
    <3>1. UNCHANGED <<frames, regs>> BY <2>3 DEF TableGrow
    <3>2. QED BY <1>2, <2>3, <3>1, TableGrowEffect
  <2>4. ASSUME NEW delta \in 1 .. kMaxLinearMemory, GrowInPlace(delta) PROVE CacheFresh'
    BY <2>4, ViewsGrowInPlace
  <2>5. ASSUME NEW delta \in 1 .. kMaxLinearMemory, GrowMoves(delta) PROVE CacheFresh'
    BY <2>5, ViewsGrowMoves
  <2>6. ASSUME NEW v \in 0 .. 1, GlobalSet(v) PROVE CacheFresh'
    <3>1. UNCHANGED <<frames, regs>> BY <2>6 DEF GlobalSet
    <3>2. QED BY <1>2, <2>6, <3>1, GlobalEffect
  <2>7. QED BY <1>7, <2>1, <2>2, <2>3, <2>4, <2>5, <2>6 DEF GuestStep
<1>8. QED BY <1>5, <1>6, <1>7 DEF Next

LEMMA ViewsMeaning ==
  ASSUME Typed, Views, CacheFresh
  PROVE  PointersFresh
<1>1. MemoryViews BY DEF Views, MemoryInv, MemoryViews, Sharing
<1>2. TableViews BY DEF Views, TableInv, TableViews
<1>3. MemoryLinked BY DEF Views, MemoryInv, MemoryLinked
<1>4. QED BY <1>1, <1>2, <1>3 DEF PointersFresh

(* Whatever the host does, in whatever order, and whatever fails: the      *)
(* pointers into memories and tables that instances and the frame loop     *)
(* copied point at a block in use of the size they have, and importers and *)
(* exporters agree, after every grow.                                      *)
THEOREM PointersCorrect == Spec => []PointersFresh
<1> DEFINE I == Typed /\ Views /\ CacheFresh
<1>1. Init => I
  <2> SUFFICES ASSUME Init PROVE I OBVIOUS
  <2>1. Typed BY InitTyped
  <2>2. Loaded = {} BY DEF Init, Loaded
  <2>3. Views BY <2>2 DEF Views, MemoryInv, TableInv, Apart
  <2>4. CacheFresh BY DEF Init, CacheFresh, Running
  <2>5. QED BY <2>1, <2>3, <2>4
<1>2. I /\ [Next]_vars => I'
  <2> SUFFICES ASSUME I, [Next]_vars PROVE I' OBVIOUS
  <2>1. CASE Next
    BY <2>1, HostTyped, InstantiateTyped, GuestTyped, ViewsStep, CacheStep DEF Next
  <2>2. CASE UNCHANGED vars
    <3>1. UNCHANGED <<modules, heap, frames, regs>> BY <2>2 DEF vars
    <3>2. QED BY <2>2, <3>1, StutterTyped, KeptAll, ViewsKept, CacheKept
  <2>3. QED BY <2>1, <2>2
<1>3. I => PointersFresh BY ViewsMeaning
<1>4. QED BY <1>1, <1>2, <1>3, PTL DEF Spec

-----------------------------------------------------------------------------
(* What InstantiateModules answers. *)
LEMMA OkKept ==
  ASSUME OkInv, KeepsShape, KeepsState, UNCHANGED call
  PROVE  OkInv'
BY DEF OkInv, KeepsShape, KeepsState, AllInstantiated, At

LEMMA OkGoes ==
  ASSUME Typed, OkInv, KeepsShape, KeepsState, call.op \in LoopOps, NEW op \in LoopOps,
         call' = [call EXCEPT !.op = op]
  PROVE  OkInv'
<1>1. call'.op = op /\ call'.slot = call.slot /\ call'.error = call.error
  BY DEF Typed, CallTyped
<1>2. op # "return" BY DEF LoopOps
<1>3. QED BY <1>1, <1>2 DEF OkInv, KeepsShape, KeepsState, At

LEMMA OkVacuous ==
  ASSUME \/ call'.error
         \/ (/\ call'.op \notin LoopOps
             /\ call'.op # "return" \/ (call'.target # 0 /\ ~ call'.checked))
  PROVE  OkInv'
BY DEF OkInv, At

LEMMA OkBegins ==
  ASSUME Typed, KeepsShape, KeepsState,
         NEW c \in [op : Ops, slot : Slots \cup {0}, target : Loaded \cup {0},
                    checked : BOOLEAN, error : BOOLEAN],
         c.slot = 0, call' = Advance(c)
  PROVE  OkInv'
<1>1. \A t \in Loaded : t > c.slot BY Sizes DEF Loaded
<1>2. \/ /\ call'.op = "return" /\ \A t \in Loaded : modules[t].is_instantiated
      \/ /\ call'.op = "imports"
         /\ \A t \in Loaded : t < call'.slot => modules[t].is_instantiated
  BY <1>1, AdvanceFacts
<1>3. QED BY <1>2 DEF OkInv, LoopOps, At, KeepsShape, KeepsState, AllInstantiated

LEMMA OkStep ==
  ASSUME Typed, OkInv, Next
  PROVE  OkInv'
<1>1. ASSUME modules' = modules, UNCHANGED call PROVE OkInv' BY <1>1, KeptAll, OkKept
<1>2. ASSUME Skip \/ GiveUp PROVE OkInv'
  <2>1. CASE GiveUp
    <3>1. call'.error BY <2>1 DEF GiveUp, Typed, CallTyped
    <3>2. QED BY <3>1, OkVacuous
  <2>2. CASE Skip
    <3> DEFINE c == [call EXCEPT !.error = TRUE]
    <3>1. /\ c \in [op : Ops, slot : Slots \cup {0}, target : Loaded \cup {0},
                 checked : BOOLEAN, error : BOOLEAN]
          /\ c.error
      BY DEF Typed, CallTyped
    <3>2. call' = Advance(c) BY <2>2 DEF Skip
    <3> HIDE DEF c
    <3>3. call'.error BY <3>1, <3>2, AdvanceFacts
    <3>4. QED BY <3>3, OkVacuous
  <2>3. QED BY <1>2, <2>1, <2>2
<1>3. CASE HostStep
  <2>1. ASSUME NEW load \in Binaries, LoadModule(load.name, load.binary) PROVE OkInv'
    <3>1. call' = call /\ call.op = "idle" BY <2>1 DEF LoadModule
    <3>2. QED BY <3>1, OkVacuous DEF LoopOps
  <2>2. ASSUME NEW n \in Names \cup {Null}, NEW a \in Aliases, RegisterAlias(n, a) PROVE OkInv'
    BY <1>1, <2>2 DEF RegisterAlias
  <2>3. ASSUME InstantiateModules PROVE OkInv'
    BY <2>3, KeptAll, IdleFits, OkBegins DEF InstantiateModules
  <2>4. ASSUME NEW n \in Names \cup {Null}, Execute(n) PROVE OkInv'
    <3>1. PICK mod \in Loaded : modules' = modules /\ call' = Advance([Idle EXCEPT !.target = mod])
      BY <2>4, InstanceLoaded DEF Execute, Typed, NamesTyped
    <3> DEFINE c == [Idle EXCEPT !.target = mod]
    <3>2. c \in [op : Ops, slot : Slots \cup {0}, target : Loaded \cup {0},
                 checked : BOOLEAN, error : BOOLEAN] /\ c.slot = 0
      BY DEF Idle, Ops
    <3>3. call' = Advance(c) BY <3>1
    <3> HIDE DEF c
    <3>4. QED BY <3>1, <3>2, <3>3, KeptAll, OkBegins
  <2>5. ASSUME NEW s \in Slots, ExecuteByIndex(s) PROVE OkInv'
    <3> DEFINE c == [Idle EXCEPT !.target = s, !.checked = TRUE]
               e == [Idle EXCEPT !.op = "return", !.target = s]
    <3>1. s \in Loaded /\ modules' = modules /\ (call' = e \/ call' = Advance(c))
      BY <2>5 DEF ExecuteByIndex
    <3>2. c \in [op : Ops, slot : Slots \cup {0}, target : Loaded \cup {0},
                 checked : BOOLEAN, error : BOOLEAN] /\ c.slot = 0
      BY <3>1 DEF Idle, Ops
    <3>3. e.op = "return" /\ e.target # 0 /\ ~ e.checked BY Sizes DEF Idle
    <3> HIDE DEF c, e
    <3>4. CASE call' = e BY <3>3, <3>4, OkVacuous DEF LoopOps
    <3>5. CASE call' = Advance(c) BY <3>1, <3>2, <3>5, KeptAll, OkBegins
    <3>6. QED BY <3>1, <3>4, <3>5
  <2>6. ASSUME UnloadAllModules PROVE OkInv'
    <3>1. call'.op = "idle" BY <2>6 DEF UnloadAllModules, Idle
    <3>2. QED BY <3>1, OkVacuous DEF LoopOps
  <2>7. QED BY <1>3, <2>1, <2>2, <2>3, <2>4, <2>5, <2>6 DEF HostStep
<1>4. CASE InstantiateStep
  <2>1. CASE ImportsOk
    <3>1. call.op = "imports" /\ Go("memory") BY <2>1 DEF ImportsOk, At
    <3>2. KeepsShape /\ KeepsState BY <2>1, ImportsEffect
    <3>3. QED BY <3>1, <3>2, OkGoes DEF Go, LoopOps
  <2>2. CASE MemoryOk
    <3>1. call.op = "memory" /\ Go("tables") BY <2>2 DEF MemoryOk, At
    <3>2. KeepsShape /\ KeepsState BY <2>2, MemoryEffect
    <3>3. QED BY <3>1, <3>2, OkGoes DEF Go, LoopOps
  <2>3. CASE TablesOk
    <3>1. call.op = "tables" /\ Go("elements") BY <2>3 DEF TablesOk, At
    <3>2. KeepsShape /\ KeepsState BY <2>3, TableEffect
    <3>3. QED BY <3>1, <3>2, OkGoes DEF Go, LoopOps
  <2>4. CASE ApplyElements \/ ApplyData
    <3>1. call.op \in LoopOps /\ (GiveUp \/ \E op \in LoopOps : Go(op))
      BY <2>4 DEF ApplyElements, ApplyData, At, LoopOps
    <3>2. KeepsShape /\ KeepsState BY <2>4, FlagEffect
    <3>3. QED BY <1>2, <3>1, <3>2, OkGoes DEF Go
  <2>5. CASE ImportsFail \/ MemoryFails \/ TablesFail
    BY <1>2, <2>5 DEF ImportsFail, MemoryFails, TablesFail
  <2>6. CASE RunStart
    <3>1. call.op = "start" /\ Go("started") /\ modules' = modules BY <2>6 DEF RunStart, At
    <3>2. QED BY <3>1, KeptAll, OkGoes DEF Go, LoopOps
  <2>7. CASE Instantiated
    <3>1. /\ call.slot \in Loaded /\ KeepsShape /\ modules'[call.slot].is_instantiated
          /\ \A t \in Slots : t # call.slot => modules'[t] = modules[t]
      BY <2>7, InstantiatedEffect
    <3>2. call.op \in LoopOps /\ call' = Advance(call) BY <2>7 DEF Instantiated, At, LoopOps
    <3>3. /\ call'.error = call.error
          /\ \/ /\ call'.op = "return"
                /\ \A t \in Loaded : t > call.slot => modules[t].is_instantiated
             \/ /\ call'.op = "imports"
                /\ \A t \in Loaded : t > call.slot /\ t < call'.slot => modules[t].is_instantiated
      <4>1. call \in [op : Ops, slot : Slots \cup {0}, target : Loaded \cup {0},
                      checked : BOOLEAN, error : BOOLEAN] BY DEF Typed, CallTyped
      <4>2. QED BY <3>2, <4>1, AdvanceFacts
    <3>4. CASE call.error BY <3>3, <3>4, OkVacuous
    <3>5. CASE ~ call.error
      <4>1. \A t \in Loaded : t < call.slot => modules[t].is_instantiated
        BY <3>2, <3>5 DEF OkInv
      <4>2. \A t \in Loaded : t \in Slots /\ t \in Int BY Sizes DEF Loaded
      <4>3. \A t \in Loaded : modules[t].is_instantiated => modules'[t].is_instantiated
        BY <3>1, <4>2
      <4>4. \A t \in Loaded : t <= call.slot => modules'[t].is_instantiated
        BY <3>1, <4>1, <4>2, <4>3
      <4>5. CASE call'.op = "return" /\ \A t \in Loaded : t > call.slot => modules[t].is_instantiated
        <5>1. \A t \in Loaded : modules'[t].is_instantiated
          BY <3>1, <4>2, <4>3, <4>4, <4>5
        <5>2. QED BY <3>1, <4>5, <5>1 DEF OkInv, LoopOps, KeepsShape, AllInstantiated
      <4>6. CASE /\ call'.op = "imports"
                 /\ \A t \in Loaded : t > call.slot /\ t < call'.slot => modules[t].is_instantiated
        <5>1. \A t \in Loaded : t < call'.slot => modules'[t].is_instantiated
          BY <3>1, <4>2, <4>3, <4>4, <4>6
        <5>2. QED BY <3>1, <4>6, <5>1 DEF OkInv, KeepsShape, At
      <4>7. QED BY <3>3, <4>5, <4>6
    <3>6. QED BY <3>4, <3>5
  <2>8. CASE InstantiateReturns
    <3>1. call'.op = "idle" BY <2>8 DEF InstantiateReturns, Idle
    <3>2. QED BY <3>1, OkVacuous DEF LoopOps
  <2>9. ASSUME NEW imported \in BOOLEAN, Enter(imported) PROVE OkInv'
    <3>1. call'.op = "idle" \/ call'.op = "execute"
      BY <2>9 DEF Enter, Go, Idle, Typed, CallTyped
    <3>2. QED BY <3>1, OkVacuous DEF LoopOps
  <2>10. QED
    BY <1>4, <2>1, <2>2, <2>3, <2>4, <2>5, <2>6, <2>7, <2>8, <2>9 DEF InstantiateStep
<1>5. CASE GuestStep
  <2>1. CASE Trap
    <3>1. call'.error \/ call'.op = "idle" BY <2>1 DEF Trap, Idle, Typed, CallTyped
    <3>2. QED BY <3>1, OkVacuous DEF LoopOps
  <2>2. CASE CallImport BY <1>1, <2>2 DEF CallImport
  <2>3. CASE Return
    <3>1. call' = Idle \/ (call' = call /\ modules' = modules) BY <2>3 DEF Return
    <3>2. QED BY <1>1, <3>1, OkVacuous DEF LoopOps, Idle
  <2>4. CASE TableGrow BY <2>4, TableGrowEffect, OkKept DEF TableGrow
  <2>5. ASSUME NEW delta \in 1 .. kMaxLinearMemory, GrowInPlace(delta) PROVE OkInv'
    <3>1. UNCHANGED call BY <2>5 DEF GrowInPlace
    <3>2. QED BY <2>5, <3>1, GrowInPlaceEffect, OkKept
  <2>6. ASSUME NEW delta \in 1 .. kMaxLinearMemory, GrowMoves(delta) PROVE OkInv'
    <3>1. UNCHANGED call BY <2>6 DEF GrowMoves
    <3>2. QED BY <2>6, <3>1, GrowMovesEffect, OkKept
  <2>7. ASSUME NEW v \in 0 .. 1, GlobalSet(v) PROVE OkInv'
    BY <2>7, GlobalEffect, OkKept DEF GlobalSet
  <2>8. QED BY <1>5, <2>1, <2>2, <2>3, <2>4, <2>5, <2>6, <2>7 DEF GuestStep
<1>6. QED BY <1>3, <1>4, <1>5 DEF Next

LEMMA TypedStep == ASSUME Typed, [Next]_vars PROVE Typed'
BY HostTyped, InstantiateTyped, GuestTyped, StutterTyped DEF Next

(* InstantiateModules goes on past a module that failed and answers kOk    *)
(* only when every loaded module is instantiated, for any number of        *)
(* modules in any slots, whatever their start functions call.              *)
THEOREM OkCorrect == Spec => []OkMeansInstantiated
<1>1. Init => Typed /\ OkInv
  <2> SUFFICES ASSUME Init PROVE Typed /\ OkInv OBVIOUS
  <2>1. call = Idle BY DEF Init
  <2>2. QED BY <2>1, InitTyped DEF OkInv, LoopOps, At, Idle
<1>2. Typed /\ OkInv /\ [Next]_vars => Typed' /\ OkInv'
  <2> SUFFICES ASSUME Typed, OkInv, [Next]_vars PROVE Typed' /\ OkInv' OBVIOUS
  <2>1. CASE Next BY <2>1, TypedStep, OkStep
  <2>2. CASE UNCHANGED vars
    <3>1. UNCHANGED <<modules, call>> BY <2>2 DEF vars
    <3>2. QED BY <2>2, <3>1, TypedStep, KeptAll, OkKept
  <2>3. QED BY <2>1, <2>2
<1>3. OkInv => OkMeansInstantiated BY DEF OkInv, OkMeansInstantiated
<1>4. QED BY <1>1, <1>2, <1>3, PTL DEF Spec

-----------------------------------------------------------------------------
(* A careful host.  Calls is the set a call is taken from. *)
Calls == [op : Ops, slot : Slots \cup {0}, target : Loaded \cup {0},
          checked : BOOLEAN, error : BOOLEAN]

(* A module that was instantiated stays so as long as it is loaded. *)
KeepsInstantiated ==
  Loaded' = Loaded /\ \A s \in Loaded : modules[s].is_instantiated => modules'[s].is_instantiated

LEMMA Lone ==
  ASSUME Typed, HostInv, call.op \in LoopOps, NEW t \in Loaded, t # call.slot
  PROVE  modules[t].is_instantiated
BY LoopSlot DEF HostInv

LEMMA StateKept == ASSUME KeepsShape, KeepsState PROVE KeepsInstantiated
BY DEF KeepsShape, KeepsState, KeepsInstantiated

LEMMA ShapeKept == ASSUME Typed, modules' = modules PROVE KeepsInstantiated
BY KeptAll, StateKept

(* Every step of the loop and of the guest keeps what was instantiated. *)
LEMMA LoopKeeps ==
  ASSUME Typed, Next, ~ HostStep
  PROVE  KeepsInstantiated
<1>1. CASE InstantiateStep
  <2>1. CASE ImportsOk \/ ImportsFail BY <2>1, ImportsEffect, StateKept
  <2>2. CASE MemoryOk BY <2>2, MemoryEffect, StateKept
  <2>3. CASE TablesOk BY <2>3, TableEffect, StateKept
  <2>4. CASE ApplyElements \/ ApplyData BY <2>4, FlagEffect, StateKept
  <2>5. CASE Instantiated
    <3>1. /\ KeepsShape /\ modules'[call.slot].is_instantiated
          /\ \A t \in Slots : t # call.slot => modules'[t] = modules[t]
      BY <2>5, InstantiatedEffect
    <3>2. QED BY <3>1 DEF KeepsShape, KeepsInstantiated, Loaded
  <2>6. CASE modules' = modules BY <2>6, ShapeKept
  <2>7. QED
    BY <1>1, <2>1, <2>2, <2>3, <2>4, <2>5, <2>6
    DEF InstantiateStep, MemoryFails, TablesFail, RunStart, InstantiateReturns, Enter
<1>2. CASE GuestStep
  <2>1. CASE modules' = modules BY <2>1, ShapeKept
  <2>2. CASE TableGrow BY <2>2, TableGrowEffect, StateKept
  <2>3. ASSUME NEW delta \in 1 .. kMaxLinearMemory, GrowInPlace(delta) PROVE KeepsInstantiated
    BY <2>3, GrowInPlaceEffect, StateKept
  <2>4. ASSUME NEW delta \in 1 .. kMaxLinearMemory, GrowMoves(delta) PROVE KeepsInstantiated
    BY <2>4, GrowMovesEffect, StateKept
  <2>5. ASSUME NEW v \in 0 .. 1, GlobalSet(v) PROVE KeepsInstantiated
    BY <2>5, GlobalEffect, StateKept
  <2>6. QED BY <1>2, <2>1, <2>2, <2>3, <2>4, <2>5 DEF GuestStep, Trap, CallImport, Return
<1>3. QED BY <1>1, <1>2 DEF Next

(* What a step of the loop or of the guest does to the call. *)
Fails == /\ call'.op = "return" /\ call'.error
         /\ call'.target = call.target /\ call'.checked = call.checked

Ends == /\ call.op \in {"return", "execute"} /\ call'.op = "idle"
        /\ call.error => call'.error

LEMMA SkipFails ==
  ASSUME Typed, Skip
  PROVE  call'.error /\ call'.target = call.target /\ call'.checked = call.checked
         /\ (call'.op = "return" \/ call'.op = "imports")
         /\ (call'.op = "imports" => call'.slot \in Loaded /\ call'.slot > call.slot
                                     /\ ~ modules[call'.slot].is_instantiated)
<1> DEFINE c == [call EXCEPT !.error = TRUE]
<1>1. c \in Calls /\ c.error /\ c.slot = call.slot /\ c.target = call.target /\ c.checked = call.checked
  BY DEF Typed, CallTyped, Calls
<1>2. call' = Advance(c) BY DEF Skip
<1> HIDE DEF c
<1>3. QED BY <1>1, <1>2, AdvanceFacts DEF Calls

(* A failure ends the loop: no other module waits. *)
LEMMA FailureEnds ==
  ASSUME Typed, HostInv, call.op \in LoopOps, Skip \/ GiveUp
  PROVE  Fails
<1>1. CASE GiveUp BY <1>1 DEF GiveUp, Fails, Typed, CallTyped
<1>2. CASE Skip
  <2>1. call.slot \in Loaded /\ \A t \in Loaded : t # call.slot => modules[t].is_instantiated
    BY LoopSlot, Lone
  <2>2. \A t \in Loaded : t \in Int BY Sizes DEF Loaded
  <2>3. call'.op # "imports" BY <1>2, <2>1, <2>2, SkipFails
  <2>4. QED BY <1>2, <2>3, SkipFails DEF Fails
<1>3. QED BY <1>1, <1>2

LEMMA LoopCall ==
  ASSUME Typed, HostInv, CarefulHost, InstantiateStep \/ GuestStep
  PROVE  \/ call.op \in LoopOps /\ \E op \in AfterImports : Go(op)
         \/ call.op \in LoopOps /\ Fails
         \/ call' = call
         \/ Ends
         \/ Instantiated /\ call.op \in LoopOps
         \/ At("return") /\ ~ call.error /\ Go("execute")
<1>1. ASSUME call.op \in LoopOps, Skip \/ GiveUp PROVE Fails BY <1>1, FailureEnds
<1>2. CASE InstantiateStep
  <2>1. CASE ImportsOk \/ MemoryOk \/ TablesOk \/ RunStart
    BY <2>1 DEF ImportsOk, MemoryOk, TablesOk, RunStart, At, LoopOps, AfterImports
  <2>2. CASE ApplyElements \/ ApplyData
    BY <1>1, <2>2 DEF ApplyElements, ApplyData, At, LoopOps, AfterImports
  <2>3. CASE ImportsFail \/ MemoryFails \/ TablesFail
    BY <1>1, <2>3 DEF ImportsFail, MemoryFails, TablesFail, At, LoopOps
  <2>4. CASE Instantiated BY <2>4 DEF Instantiated, At, LoopOps
  <2>5. CASE InstantiateReturns BY <2>5, CallFields DEF InstantiateReturns, At, Idle, Ends
  <2>6. ASSUME NEW imported \in BOOLEAN, Enter(imported)
        PROVE \/ Ends
              \/ At("return") /\ ~ call.error /\ Go("execute")
    <3>1. At("return") /\ ~ call.error /\ (Go("execute") \/ call' = Idle)
      BY <2>6 DEF Enter, HostInv
    <3>2. QED BY <3>1 DEF Ends, Idle, At
  <2>7. QED BY <1>2, <2>1, <2>2, <2>3, <2>4, <2>5, <2>6 DEF InstantiateStep
<1>3. CASE GuestStep
  <2>1. CASE Trap
    <3>1. CASE At("started") BY <2>1, <3>1, CallFields DEF Trap, At, LoopOps, Fails
    <3>2. CASE ~ At("started")
      <4>1. call' = Idle /\ At("execute") BY <2>1, <3>2 DEF Trap, Typed, CallTyped, At
      <4>2. ~ call.error BY <4>1 DEF HostInv, At
      <4>3. QED BY <4>1, <4>2 DEF Ends, Idle, At
    <3>3. QED BY <3>1, <3>2
  <2>2. CASE Return
    <3>1. CASE call' = Idle /\ At("execute")
      <4>1. ~ call.error BY <3>1 DEF HostInv, At
      <4>2. QED BY <3>1, <4>1 DEF Ends, Idle, At
    <3>2. QED BY <2>2, <3>1 DEF Return
  <2>3. CASE call' = call BY <2>3
  <2>4. QED BY <1>3, <2>1, <2>2, <2>3
        DEF GuestStep, CallImport, TableGrow, GrowInPlace, GrowMoves, GlobalSet
<1>4. QED BY <1>2, <1>3

LEMMA OneStaysAlone ==
  ASSUME HostInv, KeepsInstantiated
  PROVE  \A s, t \in Loaded' : ~ modules'[s].is_instantiated /\ ~ modules'[t].is_instantiated => s = t
BY DEF HostInv, KeepsInstantiated

LEMMA HostLoop ==
  ASSUME CarefulHost, Typed, HostInv, OkInv', Next, ~ HostStep
  PROVE  HostInv'
<1>1. KeepsInstantiated BY LoopKeeps
<1>2. \A s, t \in Loaded' : ~ modules'[s].is_instantiated /\ ~ modules'[t].is_instantiated => s = t
  BY <1>1, OneStaysAlone
<1>3. CASE call' = call BY <1>1, <1>2, <1>3, CallFields DEF HostInv, KeepsInstantiated, At
<1>4. CASE call.op \in LoopOps /\ \E op \in AfterImports : Go(op)
  <2>1. PICK op \in AfterImports : call' = [call EXCEPT !.op = op] BY <1>4 DEF Go
  <2>2. /\ call'.op \in LoopOps /\ call'.error = call.error /\ call'.target = call.target
        /\ call'.checked = call.checked
    BY <2>1, CallFields DEF AfterImports, LoopOps
  <2>3. QED BY <1>2, <1>4, <2>2 DEF HostInv, At, LoopOps
<1>5. CASE call.op \in LoopOps /\ Fails
  BY <1>2, <1>5 DEF HostInv, Fails, At, LoopOps
<1>6. CASE Ends BY <1>2, <1>6 DEF HostInv, Ends, At, LoopOps
<1>7. CASE Instantiated /\ call.op \in LoopOps
  <2>1. call \in Calls /\ call' = Advance(call)
    BY <1>7 DEF Instantiated, Typed, CallTyped, Calls
  <2>2. /\ call'.target = call.target /\ call'.checked = call.checked /\ call'.error = call.error
        /\ call'.op \in {"imports", "return"}
    BY <2>1, AdvanceFacts DEF Calls
  <2>3. ~ call.error /\ (call.target = 0 \/ call.checked) BY <1>7 DEF HostInv
  <2>4. call.target \in Loaded \cup {0} /\ Loaded' = Loaded
    BY <1>1, CallFields DEF KeepsInstantiated
  <2>5. At("return")' => AllInstantiated' BY <2>2, <2>3 DEF OkInv
  <2>6. At("return")' /\ call'.target # 0 => modules'[call'.target].is_instantiated
    BY <2>2, <2>4, <2>5 DEF AllInstantiated
  <2>7. QED BY <1>2, <2>2, <2>3, <2>6 DEF HostInv, At, LoopOps
<1>8. CASE At("return") /\ ~ call.error /\ Go("execute")
  <2>1. call'.op = "execute" /\ ~ call'.error BY <1>8, CallFields DEF Go
  <2>2. QED BY <1>2, <2>1 DEF HostInv, At, LoopOps
<1>9. QED BY <1>3, <1>4, <1>5, <1>6, <1>7, <1>8, LoopCall DEF Next

(* What the host's calls begin with. *)
HostCalls ==
  \/ call' = Advance(Idle)
  \/ AllInstantiated /\ \E t \in Loaded : call' = Advance([Idle EXCEPT !.target = t])
  \/ \E s \in Loaded : /\ modules[s].is_instantiated
                       /\ call' = [Idle EXCEPT !.op = "return", !.target = s]
  \/ \E s \in Loaded : call' = Advance([Idle EXCEPT !.target = s, !.checked = TRUE])

LEMMA HostActs ==
  ASSUME CarefulHost, Typed, HostStep
  PROVE  /\ call.op = "idle" /\ ~ Running /\ UNCHANGED <<frames, regs>>
         /\ \/ /\ AllInstantiated /\ ~ call.error /\ call' = call /\ UNCHANGED <<heap, jump_tables>>
               /\ \E load \in Binaries : LoadModule(load.name, load.binary)
            \/ call' = call /\ UNCHANGED <<modules, heap, jump_tables>>
            \/ HostCalls /\ ~ call.error /\ UNCHANGED <<modules, heap, jump_tables>>
            \/ UnloadAllModules
<1>0. call.op = "idle" /\ UNCHANGED <<frames, regs>>
  BY DEF HostStep, LoadModule, RegisterAlias, InstantiateModules, Execute, ExecuteByIndex,
     UnloadAllModules
<1>1. ~ Running BY <1>0 DEF Typed, CallTyped
<1>2. CASE \E load \in Binaries : LoadModule(load.name, load.binary)
  <2>1. AllInstantiated /\ ~ call.error /\ call' = call /\ UNCHANGED <<heap, jump_tables>>
    BY <1>2 DEF LoadModule, Admitted
  <2>2. QED BY <1>0, <1>1, <1>2, <2>1
<1>3. CASE \E n \in Names \cup {Null}, a \in Aliases : RegisterAlias(n, a)
  BY <1>0, <1>1, <1>3 DEF RegisterAlias
<1>4. CASE InstantiateModules
  BY <1>0, <1>1, <1>4 DEF InstantiateModules, Unfailed, HostCalls
<1>5. ASSUME NEW n \in Names \cup {Null}, Execute(n)
      PROVE HostCalls /\ ~ call.error /\ UNCHANGED <<modules, heap, jump_tables>>
  <2>1. PICK mod \in Loaded : call' = Advance([Idle EXCEPT !.target = mod])
    BY <1>5, InstanceLoaded DEF Execute, Typed, NamesTyped
  <2>2. AllInstantiated /\ ~ call.error /\ UNCHANGED <<modules, heap, jump_tables>>
    BY <1>5 DEF Execute, Admitted
  <2>3. QED BY <2>1, <2>2 DEF HostCalls
<1>6. ASSUME NEW s \in Slots, ExecuteByIndex(s)
      PROVE HostCalls /\ ~ call.error /\ UNCHANGED <<modules, heap, jump_tables>>
  <2>1. /\ s \in Loaded /\ ~ call.error /\ UNCHANGED <<modules, heap, jump_tables>>
        /\ \/ /\ modules[s].is_instantiated
              /\ call' = [Idle EXCEPT !.op = "return", !.target = s]
           \/ call' = Advance([Idle EXCEPT !.target = s, !.checked = TRUE])
    BY <1>6 DEF ExecuteByIndex, Unfailed
  <2>2. QED BY <2>1 DEF HostCalls
<1>7. CASE UnloadAllModules BY <1>0, <1>1, <1>7
<1>8. QED BY <1>0, <1>1, <1>2, <1>3, <1>4, <1>5, <1>6, <1>7 DEF HostStep

LEMMA CallsBegin ==
  ASSUME Typed, HostCalls
  PROVE  /\ ~ call'.error /\ call'.op \in {"return", "imports"}
         /\ call'.op = "imports" => call'.target = 0 \/ call'.checked
         /\ call'.op = "return" /\ call'.target # 0 => modules[call'.target].is_instantiated
<1>0. \A t \in Loaded : t \in Slots /\ t # 0 /\ t > 0 BY Sizes DEF Loaded
<1>1. ASSUME NEW c \in Calls, ~ c.error, c.slot = 0, call' = Advance(c)
      PROVE  /\ ~ call'.error /\ call'.target = c.target /\ call'.checked = c.checked
             /\ \/ call'.op = "return" /\ AllInstantiated
                \/ call'.op = "imports" /\ ~ AllInstantiated
  BY <1>0, <1>1, AdvanceFacts DEF Calls, AllInstantiated
<1>2. CASE call' = Advance(Idle)
  <2>1. Idle \in Calls /\ ~ Idle.error /\ Idle.slot = 0 /\ Idle.target = 0 BY DEF Idle, Calls, Ops
  <2>2. QED BY <1>1, <1>2, <2>1
<1>3. ASSUME NEW s \in Loaded,
             call' = Advance([Idle EXCEPT !.target = s, !.checked = TRUE])
      PROVE  /\ ~ call'.error /\ call'.op \in {"return", "imports"}
             /\ call'.op = "imports" => call'.target = 0 \/ call'.checked
             /\ call'.op = "return" /\ call'.target # 0 => modules[call'.target].is_instantiated
  <2> DEFINE c == [Idle EXCEPT !.target = s, !.checked = TRUE]
  <2>1. c \in Calls /\ ~ c.error /\ c.slot = 0 /\ c.target = s /\ c.checked
    BY DEF Idle, Calls, Ops
  <2>2. call' = Advance(c) BY <1>3
  <2> HIDE DEF c
  <2>3. QED BY <1>1, <1>3, <2>1, <2>2 DEF AllInstantiated
<1>4. ASSUME NEW t \in Loaded, AllInstantiated, call' = Advance([Idle EXCEPT !.target = t])
      PROVE  /\ ~ call'.error /\ call'.op \in {"return", "imports"}
             /\ call'.op = "imports" => call'.target = 0 \/ call'.checked
             /\ call'.op = "return" /\ call'.target # 0 => modules[call'.target].is_instantiated
  <2> DEFINE c == [Idle EXCEPT !.target = t]
  <2>1. c \in Calls /\ ~ c.error /\ c.slot = 0 /\ c.target = t BY DEF Idle, Calls, Ops
  <2>2. call' = Advance(c) BY <1>4
  <2> HIDE DEF c
  <2>3. QED BY <1>1, <1>4, <2>1, <2>2 DEF AllInstantiated
<1>5. ASSUME NEW s \in Loaded, modules[s].is_instantiated,
             call' = [Idle EXCEPT !.op = "return", !.target = s]
      PROVE  /\ ~ call'.error /\ call'.op = "return" /\ call'.target = s
  BY <1>5 DEF Idle
<1>6. QED BY <1>2, <1>3, <1>4, <1>5 DEF HostCalls

LEMMA HostHost ==
  ASSUME CarefulHost, Typed, HostInv, HostStep
  PROVE  HostInv'
<1>1. CASE \E load \in Binaries : LoadModule(load.name, load.binary)
  <2>1. call.op = "idle" /\ call' = call /\ AllInstantiated
    BY <1>1 DEF LoadModule, Admitted
  <2>2. PICK s \in Slots : /\ s \notin Loaded /\ Loaded' = Loaded \cup {s}
                           /\ \A t \in Slots : t # s => modules'[t] = modules[t]
    BY <1>1, LoadEffect
  <2>3. \A t \in Loaded : modules'[t].is_instantiated
    BY <2>1, <2>2 DEF AllInstantiated, Loaded
  <2>4. QED BY <2>1, <2>2, <2>3 DEF HostInv, At, LoopOps
<1>2. CASE call' = call /\ UNCHANGED modules
  BY <1>2 DEF HostInv, At, Loaded
<1>3. CASE HostCalls /\ UNCHANGED modules
  <2>1. Loaded' = Loaded BY <1>3 DEF Loaded
  <2>2. QED BY <1>3, <2>1, CallsBegin DEF HostInv, At, LoopOps
<1>4. CASE UnloadAllModules
  <2>1. call'.op = "idle" BY <1>4 DEF UnloadAllModules, Idle
  <2>2. Loaded' = {} BY <1>4 DEF UnloadAllModules, Loaded
  <2>3. QED BY <2>1, <2>2 DEF HostInv, At, LoopOps
<1>5. QED BY <1>1, <1>2, <1>3, <1>4, HostActs

-----------------------------------------------------------------------------
(* What runs is instantiated, and its links lead to what is. *)
FromKept == \A s \in Loaded : modules'[s].global_from = modules[s].global_from

LEMMA LinksKept ==
  ASSUME Typed, InstantiateStep \/ GuestStep, ~ ImportsOk, ~ ImportsFail
  PROVE  KeepsShape /\ KeepsFunc /\ KeepsLinks /\ FromKept
<1>1. CASE modules' = modules BY <1>1, KeptAll DEF KeepsGlobal, FromKept
<1>2. CASE InstantiateStep
  <2>1. CASE MemoryOk BY <2>1, MemoryEffect DEF KeepsGlobal, FromKept
  <2>2. CASE TablesOk BY <2>2, TableEffect DEF KeepsGlobal, FromKept
  <2>3. CASE ApplyElements \/ ApplyData BY <2>3, FlagEffect DEF KeepsGlobal, FromKept
  <2>4. CASE Instantiated BY <2>4, InstantiatedEffect DEF KeepsGlobal, FromKept
  <2>5. QED BY <1>1, <1>2, <2>1, <2>2, <2>3, <2>4
        DEF InstantiateStep, MemoryFails, TablesFail, RunStart, InstantiateReturns, Enter
<1>3. CASE GuestStep
  <2>1. CASE TableGrow BY <2>1, TableGrowEffect DEF KeepsGlobal, FromKept
  <2>2. ASSUME NEW delta \in 1 .. kMaxLinearMemory, GrowInPlace(delta)
        PROVE KeepsShape /\ KeepsFunc /\ KeepsLinks /\ FromKept
    BY <2>2, GrowInPlaceEffect DEF KeepsGlobal, FromKept
  <2>3. ASSUME NEW delta \in 1 .. kMaxLinearMemory, GrowMoves(delta)
        PROVE KeepsShape /\ KeepsFunc /\ KeepsLinks /\ FromKept
    BY <2>3, GrowMovesEffect DEF KeepsGlobal, FromKept
  <2>4. ASSUME NEW v \in 0 .. 1, GlobalSet(v)
        PROVE KeepsShape /\ KeepsFunc /\ KeepsLinks /\ FromKept
    BY <2>4, GlobalEffect DEF FromKept
  <2>5. QED BY <1>1, <1>3, <2>1, <2>2, <2>3, <2>4 DEF GuestStep, Trap, CallImport, Return
<1>4. QED BY <1>2, <1>3

LEMMA SourcesLoop ==
  ASSUME Typed, HostInv, SourcesInv, Next, ~ HostStep
  PROVE  SourcesInv'
<1>1. KeepsInstantiated BY LoopKeeps
<1>2. CASE ImportsOk \/ ImportsFail
  <2>1. /\ call.slot \in Loaded /\ Mod = modules[call.slot]
        /\ \A t \in Slots : t # call.slot => modules'[t] = modules[t]
        /\ LinksGlobal(Mod, modules'[call.slot])
        /\ \/ modules'[call.slot].func = Mod.func
           \/ modules'[call.slot].func \in Loaded \cup {Unresolved, Host}
    BY <1>2, ImportsEffect
  <2>2. \A t \in Loaded : t = call.slot \/ modules'[t].is_instantiated
    BY <1>1, <1>2, Lone DEF ImportsOk, ImportsFail, At, LoopOps, KeepsInstantiated
  <2>3. modules'[call.slot].func \in Slots =>
          modules'[call.slot].func = call.slot \/ modules'[modules'[call.slot].func].is_instantiated
    BY <1>1, <2>1, <2>2, Sizes DEF SourcesInv, KeepsInstantiated, Typed, ModulesTyped
  <2>4. modules'[call.slot].global_from # 0 =>
          /\ modules'[call.slot].global_from \in Loaded
          /\ modules'[call.slot].global_from = call.slot
             \/ modules'[modules'[call.slot].global_from].is_instantiated
    BY <1>1, <2>1, <2>2 DEF SourcesInv, KeepsInstantiated, LinksGlobal
  <2>5. \A s \in Loaded : s \in Slots BY DEF Loaded
  <2>6. QED BY <1>1, <2>1, <2>3, <2>4, <2>5 DEF SourcesInv, KeepsInstantiated, Typed, ModulesTyped
<1>3. CASE ~ ImportsOk /\ ~ ImportsFail
  <2>1. KeepsFunc /\ FromKept BY <1>3, LinksKept DEF Next
  <2>2. QED BY <1>1, <2>1 DEF SourcesInv, KeepsFunc, FromKept, KeepsInstantiated, Typed, ModulesTyped
<1>4. QED BY <1>2, <1>3

(* Pointers stay, and the imported table. *)
LEMMA PointersStay ==
  ASSUME Typed, InstantiateStep \/ GuestStep, NEW s \in Loaded
  PROVE  /\ modules[s].memory.ptr # Null => modules'[s].memory.ptr # Null
         /\ modules[s].table.shared => modules'[s].table.shared
<1> DEFINE P == /\ modules[s].memory.ptr # Null => modules'[s].memory.ptr # Null
                /\ modules[s].table.shared => modules'[s].table.shared
<1>0. /\ s \in Slots /\ modules[s] \in Instance
      /\ modules[s].memory \in Memory /\ modules[s].table \in Table
  BY LoadedInstance, InstanceFields
<1>1. ASSUME KeepsMemory, KeepsTable PROVE P BY <1>1 DEF KeepsMemory, KeepsTable
<1>2. CASE modules' = modules BY <1>2
<1>3. CASE InstantiateStep
  <2>1. CASE ImportsOk \/ ImportsFail
    <3>1. /\ Mod = modules[call.slot]
          /\ \A t \in Slots : t # call.slot => modules'[t] = modules[t]
          /\ LinksMemory(Mod, modules'[call.slot]) /\ LinksTable(Mod, modules'[call.slot])
      BY <2>1, ImportsEffect
    <3>2. CASE s = call.slot
      <4>1. modules[s].memory.ptr # Null => modules'[s].memory.ptr # Null
        BY <3>1, <3>2 DEF LinksMemory
      <4>2. modules[s].table.shared => modules'[s].table.shared
        BY <3>1, <3>2 DEF LinksTable
      <4>3. QED BY <4>1, <4>2
    <3>3. QED BY <1>0, <3>1, <3>2
  <2>2. CASE MemoryOk
    <3>1. /\ Mod = modules[call.slot] /\ KeepsTable
          /\ \A t \in Slots : t # call.slot => modules'[t] = modules[t]
          /\ modules' = modules \/ Mod.memory.ptr = Null
      BY <2>2, MemoryEffect
    <3>2. QED BY <1>0, <3>1 DEF KeepsTable
  <2>3. CASE TablesOk
    <3>1. /\ Mod = modules[call.slot] /\ KeepsMemory
          /\ \A t \in Slots : t # call.slot => modules'[t] = modules[t]
          /\ \/ modules' = modules
             \/ \E a \in Free : modules'[call.slot].table = [Mod.table EXCEPT !.ptr = a]
      BY <2>3, TableEffect
    <3>2. QED BY <1>0, <3>1 DEF KeepsMemory, Table
  <2>4. CASE ApplyElements \/ ApplyData BY <1>1, <2>4, FlagEffect
  <2>5. CASE Instantiated BY <1>1, <2>5, InstantiatedEffect
  <2>6. QED BY <1>2, <1>3, <2>1, <2>2, <2>3, <2>4, <2>5
        DEF InstantiateStep, MemoryFails, TablesFail, RunStart, InstantiateReturns, Enter
<1>4. CASE GuestStep
  <2>1. CASE TableGrow
    <3>1. KeepsMemory BY <2>1, TableGrowEffect
    <3> DEFINE n == modules[Top].table.size + 1
               T == IF modules[Top].table.ptr = Null THEN {Top}
                    ELSE {u \in Loaded : modules[u].table.ptr = modules[Top].table.ptr}
    <3>2. PICK a \in Free :
            modules'[s].table = IF s \in T THEN [modules[s].table EXCEPT !.ptr = a, !.size = n]
                                ELSE modules[s].table
      BY <2>1, TableGrowEffect
    <3> HIDE DEF n, T
    <3>3. QED BY <1>0, <3>1, <3>2 DEF KeepsMemory, Table
  <2>2. ASSUME NEW delta \in 1 .. kMaxLinearMemory, GrowInPlace(delta) PROVE P
    <3>1. KeepsTable /\ (modules'[s].memory = modules[s].memory
                         \/ modules'[s].memory = [modules[s].memory EXCEPT !.size = regs.size + delta])
      BY <2>2, GrowInPlaceEffect
    <3>2. QED BY <1>0, <3>1 DEF KeepsTable, Memory
  <2>3. ASSUME NEW delta \in 1 .. kMaxLinearMemory, GrowMoves(delta) PROVE P
    <3> DEFINE size == regs.size + delta
               capacity == NewCapacity(size)
    <3>1. KeepsTable BY <2>3, GrowMovesEffect
    <3>2. PICK a \in Free :
            \/ modules'[s].memory = modules[s].memory
            \/ modules'[s].memory =
                 [modules[s].memory EXCEPT !.ptr = a, !.size = size, !.capacity = capacity]
      BY <2>3, GrowMovesEffect
    <3>3. a # Null BY FreshBlock
    <3> HIDE DEF size, capacity
    <3>4. QED BY <1>0, <3>1, <3>2, <3>3 DEF KeepsTable, Memory
  <2>4. ASSUME NEW v \in 0 .. 1, GlobalSet(v) PROVE P BY <1>1, <2>4, GlobalEffect
  <2>5. QED BY <1>2, <1>4, <2>1, <2>2, <2>3, <2>4 DEF GuestStep, Trap, CallImport, Return
<1>5. QED BY <1>3, <1>4

LEMMA ResolvedStays ==
  ASSUME Typed, InstantiateStep \/ GuestStep, NEW s \in Loaded
  PROVE  /\ Resolved(s)' => Resolved(s) \/ (ImportsOk /\ s = call.slot)
         /\ Whole(s)' => Whole(s) \/ (MemoryOk /\ s = call.slot)
<1>0. s \in Slots BY LoadedInstance
<1>1. ASSUME KeepsState,
             call'.op \in AfterImports => call.op \in AfterImports /\ call'.slot = call.slot,
             call'.op \in AfterMemory => call.op \in AfterMemory
      PROVE (Resolved(s)' => Resolved(s)) /\ (Whole(s)' => Whole(s))
  BY <1>1 DEF Resolved, Whole, AfterImports, AfterMemory, KeepsState
<1>2. ASSUME modules' = modules, call' = call \/ call'.op \in {"idle", "return", "imports", "execute"}
      PROVE (Resolved(s)' => Resolved(s)) /\ (Whole(s)' => Whole(s))
  BY <1>2 DEF Resolved, Whole, AfterImports, AfterMemory
<1>3. ASSUME NEW op, Go(op) PROVE call'.op = op /\ call'.slot = call.slot
  BY <1>3, CallFields DEF Go
<1>4. GiveUp => call'.op = "return" BY CallFields DEF GiveUp
<1>5. CASE InstantiateStep
  <2>1. CASE ImportsOk
    <3>1. call'.op = "memory" /\ call'.slot = call.slot BY <1>3, <2>1 DEF ImportsOk
    <3>2. KeepsState BY <2>1, ImportsEffect
    <3>3. QED BY <2>1, <3>1, <3>2 DEF Resolved, Whole, KeepsState, AfterMemory
  <2>2. CASE MemoryOk
    <3>1. call.op = "memory" /\ call'.op = "tables" /\ call'.slot = call.slot
      BY <1>3, <2>2 DEF MemoryOk, At
    <3>2. KeepsState BY <2>2, MemoryEffect
    <3>3. QED BY <2>2, <3>1, <3>2 DEF Resolved, Whole, KeepsState, AfterMemory, AfterImports
  <2>3. CASE TablesOk
    <3>1. call.op = "tables" /\ call'.op = "elements" /\ call'.slot = call.slot
      BY <1>3, <2>3 DEF TablesOk, At
    <3>2. KeepsState BY <2>3, TableEffect
    <3>3. QED BY <1>1, <3>1, <3>2 DEF AfterMemory, AfterImports
  <2>4. CASE ApplyElements \/ ApplyData
    <3>1. call.op \in AfterMemory /\ (call'.op = "return" \/ call'.slot = call.slot)
      BY <1>3, <1>4, <2>4 DEF ApplyElements, ApplyData, At, AfterMemory
    <3>2. KeepsState BY <2>4, FlagEffect
    <3>3. QED BY <1>1, <3>1, <3>2 DEF AfterMemory, AfterImports
  <2>5. CASE ImportsFail
    <3>1. call'.op \in {"return", "imports"} BY <2>5, SkipFails DEF ImportsFail
    <3>2. KeepsState BY <2>5, ImportsEffect
    <3>3. QED BY <1>1, <3>1, <3>2 DEF AfterMemory, AfterImports
  <2>6. CASE MemoryFails \/ TablesFail
    BY <1>2, <1>4, <2>6 DEF MemoryFails, TablesFail
  <2>7. CASE RunStart
    <3>1. call.op = "start" /\ call'.slot = call.slot /\ modules' = modules
      BY <1>3, <2>7 DEF RunStart, At
    <3>2. QED BY <1>1, <3>1, KeptAll DEF AfterMemory, AfterImports
  <2>8. CASE Instantiated
    <3>1. call.op \in AfterMemory BY <2>8 DEF Instantiated, At, AfterMemory
    <3>2. call \in Calls /\ call' = Advance(call) BY <2>8 DEF Instantiated, Typed, CallTyped, Calls
    <3>3. call'.op \in {"return", "imports"} BY <3>2, AdvanceFacts DEF Calls
    <3>4. \A t \in Slots : t # call.slot => modules'[t] = modules[t] BY <2>8, InstantiatedEffect
    <3>5. QED BY <1>0, <3>1, <3>3, <3>4 DEF Resolved, Whole, AfterMemory, AfterImports
  <2>9. CASE InstantiateReturns
    BY <1>2, <2>9 DEF InstantiateReturns, Idle
  <2>10. ASSUME NEW imported \in BOOLEAN, Enter(imported)
         PROVE (Resolved(s)' => Resolved(s)) /\ (Whole(s)' => Whole(s))
    BY <1>2, <1>3, <2>10 DEF Enter, Idle
  <2>11. QED
    BY <1>5, <2>1, <2>2, <2>3, <2>4, <2>5, <2>6, <2>7, <2>8, <2>9, <2>10 DEF InstantiateStep
<1>6. CASE GuestStep
  <2>1. CASE Trap BY <1>2, <2>1, CallFields DEF Trap, Idle
  <2>2. CASE CallImport \/ Return BY <1>2, <2>2 DEF CallImport, Return, Idle
  <2>3. CASE TableGrow BY <1>1, <2>3, TableGrowEffect DEF TableGrow
  <2>4. ASSUME NEW delta \in 1 .. kMaxLinearMemory, GrowInPlace(delta)
        PROVE (Resolved(s)' => Resolved(s)) /\ (Whole(s)' => Whole(s))
    BY <1>1, <2>4, GrowInPlaceEffect DEF GrowInPlace
  <2>5. ASSUME NEW delta \in 1 .. kMaxLinearMemory, GrowMoves(delta)
        PROVE (Resolved(s)' => Resolved(s)) /\ (Whole(s)' => Whole(s))
    BY <1>1, <2>5, GrowMovesEffect DEF GrowMoves
  <2>6. ASSUME NEW v \in 0 .. 1, GlobalSet(v)
        PROVE (Resolved(s)' => Resolved(s)) /\ (Whole(s)' => Whole(s))
    BY <1>1, <2>6, GlobalEffect DEF GlobalSet
  <2>7. QED BY <1>6, <2>1, <2>2, <2>3, <2>4, <2>5, <2>6 DEF GuestStep
<1>7. QED BY <1>5, <1>6

LEMMA LinkLoop ==
  ASSUME Typed, NewInv, LinkInv, Next, ~ HostStep
  PROVE  LinkInv'
<1>0. InstantiateStep \/ GuestStep BY DEF Next
<1>1. \A s \in Loaded : s \in Slots BY DEF Loaded
<1>2. CASE ImportsOk \/ ImportsFail
  <2>1. /\ call.slot \in Loaded /\ Mod = modules[call.slot] /\ Loaded' = Loaded
        /\ \A t \in Slots : t # call.slot => modules'[t] = modules[t]
        /\ modules'[call.slot].binary = Mod.binary
        /\ LET r == modules'[call.slot] IN
           /\ ~ Mod.imports_resolved /\ r.imports_resolved =>
                /\ Imports(Mod, "memory") => r.memory.ptr # Null
                /\ Imports(Mod, "table") => r.table.shared
                /\ Imports(Mod, "global") => r.global_from # 0
           /\ ImportsOk => r.imports_resolved /\ Mod.binary.valid
    BY <1>2, ImportsEffect DEF KeepsShape
  <2>2. call.op = "imports" /\ ~ Mod.is_instantiated
    BY <1>2, LoopSlot DEF ImportsOk, ImportsFail, At, LoopOps
  <2>3. ~ Mod.imports_resolved BY <2>1, <2>2 DEF NewInv, Untouched, IsNew
  <2>4. ~ Resolved(call.slot) /\ ~ Whole(call.slot)
    BY <2>1, <2>2 DEF Resolved, Whole, AfterImports, AfterMemory
  <2>5. ~ MemoryOk BY <2>2 DEF MemoryOk, At
  <2> SUFFICES ASSUME NEW s \in Loaded
      PROVE  LET m == modules'[s] IN
             /\ Resolved(s)' => /\ m.binary.valid /\ m.imports_resolved
                                /\ Imports(m, "memory") => m.memory.ptr # Null
                                /\ Imports(m, "table") => m.table.shared
                                /\ Imports(m, "global") => m.global_from # 0
             /\ Whole(s)' /\ "memory" \in m.binary.has => m.memory.ptr # Null
    BY <2>1 DEF LinkInv
  <2>6. CASE s = call.slot
    <3>1. ~ Whole(s)' /\ (Resolved(s)' => ImportsOk) BY <1>0, <2>4, <2>5, <2>6, ResolvedStays
    <3>2. QED BY <2>1, <2>3, <2>6, <3>1 DEF Imports
  <2>7. CASE s # call.slot
    <3>1. modules'[s] = modules[s] BY <1>1, <2>1, <2>7
    <3>2. (Resolved(s)' => Resolved(s)) /\ (Whole(s)' => Whole(s))
      BY <1>0, <2>7, ResolvedStays
    <3>3. QED BY <3>1, <3>2 DEF LinkInv
  <2>8. QED BY <2>6, <2>7
<1>3. CASE ~ ImportsOk /\ ~ ImportsFail
  <2>1. KeepsShape /\ KeepsLinks /\ FromKept BY <1>0, <1>3, LinksKept
  <2> SUFFICES ASSUME NEW s \in Loaded
      PROVE  LET m == modules'[s] IN
             /\ Resolved(s)' => /\ m.binary.valid /\ m.imports_resolved
                                /\ Imports(m, "memory") => m.memory.ptr # Null
                                /\ Imports(m, "table") => m.table.shared
                                /\ Imports(m, "global") => m.global_from # 0
             /\ Whole(s)' /\ "memory" \in m.binary.has => m.memory.ptr # Null
    BY <2>1 DEF LinkInv, KeepsShape
  <2>2. /\ modules'[s].binary = modules[s].binary
        /\ modules'[s].imports_resolved = modules[s].imports_resolved
        /\ modules'[s].global_from = modules[s].global_from
    BY <2>1 DEF KeepsShape, KeepsLinks, FromKept
  <2>3. /\ modules[s].memory.ptr # Null => modules'[s].memory.ptr # Null
        /\ modules[s].table.shared => modules'[s].table.shared
    BY <1>0, PointersStay
  <2>4. /\ Resolved(s)' => Resolved(s)
        /\ Whole(s)' => Whole(s) \/ (MemoryOk /\ s = call.slot)
    BY <1>0, <1>3, ResolvedStays
  <2>5. ASSUME MemoryOk, s = call.slot, "memory" \in modules[s].binary.has
        PROVE modules'[s].memory.ptr # Null
    <3>1. Resolved(s) BY <2>5 DEF Resolved, MemoryOk, At, AfterImports
    <3>2. Mod = modules[s] /\ Mod.memory \in Memory BY <2>5, MemoryEffect, InstanceFields
    <3>3. CASE OwnsMemory(Mod) /\ Mod.memory.ptr = Null
      <4>1. PICK a \in Free : modules'[s].memory =
              [Mod.memory EXCEPT !.ptr = a, !.size = Mod.binary.min, !.capacity = Mod.binary.min]
        BY <2>5, <3>3, MemoryEffect
      <4>2. a # Null BY FreshBlock
      <4>3. QED BY <3>2, <4>1, <4>2 DEF Memory
    <3>4. CASE ~ (OwnsMemory(Mod) /\ Mod.memory.ptr = Null)
      <4>1. Imports(Mod, "memory") => Mod.memory.ptr # Null BY <3>1, <3>2 DEF LinkInv
      <4>2. Mod.memory.ptr # Null BY <2>5, <3>2, <3>4, <4>1 DEF OwnsMemory
      <4>3. QED BY <2>3, <3>2, <4>2
    <3>5. QED BY <3>3, <3>4
  <2>6. Resolved(s)' => /\ modules'[s].binary.valid /\ modules'[s].imports_resolved
                        /\ Imports(modules'[s], "memory") => modules'[s].memory.ptr # Null
                        /\ Imports(modules'[s], "table") => modules'[s].table.shared
                        /\ Imports(modules'[s], "global") => modules'[s].global_from # 0
    BY <2>2, <2>3, <2>4 DEF LinkInv, Imports
  <2>7. Whole(s)' /\ "memory" \in modules'[s].binary.has => modules'[s].memory.ptr # Null
    BY <2>2, <2>3, <2>4, <2>5 DEF LinkInv
  <2>8. QED BY <2>6, <2>7
<1>4. QED BY <1>2, <1>3

(* The functions a module that runs may call. *)
LEMMA CalleeRuns ==
  ASSUME Typed, SourcesInv, NEW s \in Loaded, NEW t, t = s \/ modules[s].is_instantiated,
         Callee(s) \in Slots
  PROVE  Callee(s) = t \/ modules[Callee(s)].is_instantiated
<1> DEFINE R == {u \in Loaded : u = t \/ modules[u].is_instantiated}
           G == R \cup {Unresolved, Host, Unlinked}
<1>1. \A u \in R : modules[u].func \in G
  <2>1. TAKE u \in R
  <2>2. modules[u].func \in Slots \cup {Unresolved, Host, Unlinked}
    BY LoadedInstance, InstanceFields
  <2>3. modules[u].func \in Slots => modules[u].func \in R
    BY DEF SourcesInv, Typed, ModulesTyped
  <2>4. QED BY <2>2, <2>3
<1>2. s \in R OBVIOUS
<1> HIDE DEF R
<1>3. \A u \in G : u \in Slots /\ Reexports(u) => modules[u].func \in G
  <2>1. \A u \in G : u \in Slots => u \in R BY Sizes DEF G
  <2>2. QED BY <1>1, <2>1
<1>4. modules[s].func \in G /\ Unresolved \in G BY <1>1, <1>2
<1> HIDE DEF G
<1>5. Callee(s) \in G BY <1>3, <1>4, CalleeStays
<1>6. QED BY <1>5, Sizes DEF G, R

LEMMA RunsLoop ==
  ASSUME Typed, HostInv, SourcesInv, RunsInstantiated, Next, ~ HostStep
  PROVE  RunsInstantiated'
<1>1. KeepsInstantiated BY LoopKeeps
<1>2. ASSUME frames' = << >> PROVE RunsInstantiated' BY <1>2 DEF RunsInstantiated
<1>3. frames \in Seq(Loaded) BY DEF Typed, FramesTyped
<1>4. ASSUME UNCHANGED <<frames, call>> PROVE RunsInstantiated'
  <2>1. \A i \in DOMAIN frames : frames[i] \in Loaded BY <1>3
  <2>2. QED BY <1>1, <1>4, <2>1 DEF RunsInstantiated, KeepsInstantiated, At
<1>5. ASSUME frames' = frames, call.op \notin {"started", "execute"} PROVE RunsInstantiated'
  BY <1>2, <1>5 DEF Typed, CallTyped, Running
<1>6. CASE InstantiateStep
  <2>1. CASE RunStart
    <3>1. frames' = <<call.slot>> /\ call'.op = "started" /\ call'.slot = call.slot
      BY <2>1, CallFields DEF RunStart, Go
    <3>2. QED BY <3>1 DEF RunsInstantiated, At
  <2>2. CASE Instantiated
    <3>1. frames = << >>
      BY <2>2 DEF Instantiated, At, Typed, CallTyped, Running
    <3>2. QED BY <1>2, <2>2, <3>1 DEF Instantiated, Registry
  <2>3. ASSUME NEW imported \in BOOLEAN, Enter(imported) PROVE RunsInstantiated'
    <3> DEFINE end == Entry(call.target, imported)
    <3>1. /\ At("return") /\ call.target # 0 /\ call.target \in Loaded
          /\ modules[call.target].is_instantiated
      BY <2>3, CallFields DEF Enter, HostInv
    <3>2. end \in Slots => end \in Loaded /\ modules[end].is_instantiated
      <4>1. CASE imported
        <5>1. end = Callee(call.target) BY <4>1 DEF Entry
        <5>2. QED BY <3>1, <5>1, CalleeLoaded, CalleeRuns
      <4>2. CASE ~ imported BY <3>1, <4>2 DEF Entry
      <4>3. QED BY <4>1, <4>2
    <3>3. CASE UNCHANGED frames BY <1>5, <3>1, <3>3 DEF At
    <3>4. CASE end \in Slots /\ frames' = <<end>>
      BY <1>1, <3>2, <3>4 DEF RunsInstantiated, KeepsInstantiated
    <3>5. QED BY <2>3, <3>3, <3>4 DEF Enter
  <2>4. QED
    BY <1>5, <1>6, <2>1, <2>2, <2>3
    DEF InstantiateStep, ImportsOk, ImportsFail, MemoryOk, MemoryFails, TablesOk, TablesFail,
        ApplyElements, ApplyData, InstantiateReturns, Registry, At
<1>7. CASE GuestStep
  <2>1. CASE Trap BY <1>2, <2>1 DEF Trap
  <2>2. CASE CallImport
    <3>1. Len(frames) \in Nat /\ Top \in Loaded /\ Len(frames) \in DOMAIN frames
      BY <1>3, <2>2, RunningTop DEF CallImport
    <3>2. modules[Top].is_instantiated \/ (At("started") /\ Top = call.slot)
      BY <3>1 DEF RunsInstantiated, Top
    <3>3. Callee(Top) \in Loaded /\ (modules[Callee(Top)].is_instantiated
                                     \/ (At("started") /\ Callee(Top) = call.slot))
      BY <2>2, <3>1, <3>2, CalleeLoaded, CalleeRuns DEF CallImport
    <3>4. frames' = Append(frames, Callee(Top)) /\ call' = call BY <2>2 DEF CallImport
    <3>5. \A i \in DOMAIN frames' :
            (i \in DOMAIN frames /\ frames'[i] = frames[i]) \/ frames'[i] = Callee(Top)
      BY <1>3, <3>3, <3>4
    <3>6. \A i \in DOMAIN frames : frames[i] \in Loaded BY <1>3
    <3>7. QED BY <1>1, <3>3, <3>4, <3>5, <3>6 DEF RunsInstantiated, KeepsInstantiated, At
  <2>3. CASE Return
    <3>1. Len(frames) \in Nat \ {0} /\ modules' = modules BY <2>3, RunningTop DEF Return
    <3>2. \A i \in DOMAIN frames' : i \in DOMAIN frames /\ frames'[i] = frames[i]
      <4>1. frames' = SubSeq(frames, 1, Len(frames) - 1) BY <2>3 DEF Return
      <4>2. DOMAIN frames' = 1 .. Len(frames) - 1 BY <1>3, <3>1, <4>1
      <4>3. DOMAIN frames = 1 .. Len(frames) BY <1>3
      <4>4. QED BY <1>3, <3>1, <4>1, <4>2, <4>3
    <3>3. CASE Len(frames) = 1
      <4>1. DOMAIN frames' = {} BY <1>3, <2>3, <3>3 DEF Return
      <4>2. QED BY <4>1 DEF RunsInstantiated
    <3>4. CASE Len(frames) # 1
      <4>1. call' = call BY <2>3, <3>4 DEF Return
      <4>2. QED BY <3>1, <3>2, <4>1 DEF RunsInstantiated, At
    <3>5. QED BY <3>3, <3>4
  <2>4. QED BY <1>4, <1>7, <2>1, <2>2, <2>3 DEF GuestStep, TableGrow, GrowInPlace, GrowMoves, GlobalSet
<1>8. QED BY <1>6, <1>7 DEF Next

(* The memory a module that runs uses is there. *)
LEMMA TopMemory ==
  ASSUME Typed, LinkInv, RunsInstantiated, CacheFresh, Running, HasMemory(modules[Top])
  PROVE  regs.ptr # Null
<1>1. Top \in Loaded /\ Len(frames) \in DOMAIN frames
  <2>1. frames \in Seq(Loaded) BY DEF Typed, FramesTyped
  <2>2. QED BY <2>1, RunningTop
<1>2. modules[Top].is_instantiated \/ (At("started") /\ Top = call.slot)
  BY <1>1 DEF RunsInstantiated, Top
<1>3. Resolved(Top) /\ Whole(Top) BY <1>2 DEF Resolved, Whole, At, AfterImports, AfterMemory
<1>4. modules[Top].memory.ptr # Null BY <1>1, <1>3 DEF LinkInv, HasMemory
<1>5. regs.ptr = modules[Top].memory.ptr BY DEF CacheFresh, Regs
<1>6. QED BY <1>4, <1>5

(* What a call by Execute changes is instantiated. *)
LEMMA GuestLeavesNew ==
  ASSUME Typed, LinkInv, RunsInstantiated, CacheFresh, call.op = "execute", GuestStep,
         NEW s \in Loaded, ~ modules[s].is_instantiated, IsNew(modules[s])
  PROVE  IsNew(modules'[s])
<1>1. ASSUME KeepsLinks, KeepsJump, modules'[s].memory = modules[s].memory,
             modules'[s].table = modules[s].table
      PROVE IsNew(modules'[s])
  BY <1>1 DEF IsNew, KeepsLinks, KeepsJump
<1>2. ASSUME modules' = modules PROVE IsNew(modules'[s]) BY <1>2
<1>3. ASSUME Running PROVE Top \in Loaded /\ modules[Top].is_instantiated
  <2>1. Top \in Loaded /\ Len(frames) \in DOMAIN frames
    <3>1. frames \in Seq(Loaded) BY DEF Typed, FramesTyped
    <3>2. QED BY <1>3, <3>1, RunningTop
  <2>2. QED BY <2>1 DEF RunsInstantiated, Top, At
<1>4. CASE TableGrow
  <2>1. Top # s BY <1>3, <1>4 DEF TableGrow
  <2>2. modules[s].table.ptr = Null BY DEF IsNew
  <2> DEFINE n == modules[Top].table.size + 1
             T == IF modules[Top].table.ptr = Null THEN {Top}
                  ELSE {u \in Loaded : modules[u].table.ptr = modules[Top].table.ptr}
  <2>3. s \notin T BY <2>1, <2>2
  <2>4. PICK a \in Free :
          modules'[s].table = IF s \in T THEN [modules[s].table EXCEPT !.ptr = a, !.size = n]
                              ELSE modules[s].table
    BY <1>4, TableGrowEffect
  <2>5. modules'[s].table = modules[s].table BY <2>3, <2>4
  <2>6. KeepsLinks /\ KeepsJump /\ KeepsMemory BY <1>4, TableGrowEffect
  <2>7. QED BY <1>1, <2>5, <2>6 DEF KeepsMemory
<1>5. ASSUME NEW delta \in 1 .. kMaxLinearMemory, GrowInPlace(delta) PROVE IsNew(modules'[s])
  <2>1. regs.ptr # Null BY <1>5, TopMemory DEF GrowInPlace
  <2>2. s \notin Sharing(regs.ptr) BY <2>1 DEF Sharing, IsNew
  <2>3. KeepsLinks /\ KeepsJump /\ KeepsTable /\ modules'[s].memory = modules[s].memory
    BY <1>5, <2>2, GrowInPlaceEffect
  <2>4. QED BY <1>1, <2>3 DEF KeepsTable
<1>6. ASSUME NEW delta \in 1 .. kMaxLinearMemory, GrowMoves(delta) PROVE IsNew(modules'[s])
  <2>1. regs.ptr # Null BY <1>6, TopMemory DEF GrowMoves
  <2>2. s \notin Sharing(regs.ptr) BY <2>1 DEF Sharing, IsNew
  <2>3. KeepsLinks /\ KeepsJump /\ KeepsTable /\ modules'[s].memory = modules[s].memory
    BY <1>6, <2>2, GrowMovesEffect
  <2>4. QED BY <1>1, <2>3 DEF KeepsTable
<1>7. ASSUME NEW v \in 0 .. 1, GlobalSet(v) PROVE IsNew(modules'[s])
  <2>1. KeepsLinks /\ KeepsJump /\ KeepsTable /\ KeepsMemory BY <1>7, GlobalEffect
  <2>2. QED BY <1>1, <2>1 DEF KeepsTable, KeepsMemory
<1>8. QED BY <1>2, <1>4, <1>5, <1>6, <1>7 DEF GuestStep, Trap, CallImport, Return

LEMMA NewLoop ==
  ASSUME CarefulHost, Typed, HostInv, LinkInv, RunsInstantiated, NewInv, CacheFresh, Next, ~ HostStep
  PROVE  NewInv'
<1>1. KeepsInstantiated BY LoopKeeps
<1>2. ASSUME modules' = modules, Untouched' => Untouched PROVE NewInv'
  BY <1>2 DEF NewInv, Loaded
<1>3. ASSUME ~ Untouched' PROVE NewInv' BY <1>3 DEF NewInv
<1>4. ASSUME NEW op, op \notin {"idle", "return", "imports", "execute"}, Go(op)
      PROVE ~ Untouched'
  BY <1>4, CallFields DEF Untouched, Go
<1>5. ASSUME call.op \in LoopOps, Skip \/ GiveUp PROVE ~ Untouched'
  BY <1>5, FailureEnds DEF Fails, Untouched
<1>6. CASE InstantiateStep
  <2>1. CASE ImportsOk \/ MemoryOk \/ TablesOk \/ RunStart
    BY <1>3, <1>4, <2>1 DEF ImportsOk, MemoryOk, TablesOk, RunStart
  <2>2. CASE ApplyElements \/ ApplyData
    BY <1>3, <1>4, <1>5, <2>2 DEF ApplyElements, ApplyData, At, LoopOps
  <2>3. CASE ImportsFail \/ MemoryFails \/ TablesFail
    BY <1>3, <1>5, <2>3 DEF ImportsFail, MemoryFails, TablesFail, At, LoopOps
  <2>4. CASE Instantiated
    <3>1. call.op \in LoopOps BY <2>4 DEF Instantiated, At, LoopOps
    <3>2. \A t \in Loaded : t # call.slot => modules'[t].is_instantiated
      BY <1>1, <3>1, Lone DEF KeepsInstantiated
    <3>3. modules'[call.slot].is_instantiated BY <2>4, InstantiatedEffect
    <3>4. QED BY <1>1, <3>2, <3>3 DEF NewInv, KeepsInstantiated
  <2>5. CASE InstantiateReturns
    <3>1. At("return") /\ call'.op = "idle" /\ (call.error => call'.error) /\ modules' = modules
      BY <2>5, CallFields DEF InstantiateReturns, Idle
    <3>2. QED BY <1>2, <3>1 DEF Untouched, At
  <2>6. ASSUME NEW imported \in BOOLEAN, Enter(imported) PROVE NewInv'
    <3>1. At("return") /\ ~ call.error /\ modules' = modules BY <2>6 DEF Enter, HostInv
    <3>2. QED BY <1>2, <3>1 DEF Untouched, At
  <2>7. QED BY <1>6, <2>1, <2>2, <2>3, <2>4, <2>5, <2>6 DEF InstantiateStep
<1>7. CASE GuestStep
  <2>1. CASE Trap
    <3>1. CASE At("started")
      <4>1. call'.op = "return" /\ call'.error BY <2>1, <3>1, CallFields DEF Trap
      <4>2. QED BY <1>3, <4>1 DEF Untouched
    <3>2. CASE ~ At("started")
      <4>1. At("execute") /\ modules' = modules BY <2>1, <3>2 DEF Trap, Typed, CallTyped, At
      <4>2. QED BY <1>2, <4>1 DEF Untouched, At
    <3>3. QED BY <3>1, <3>2
  <2>2. CASE CallImport BY <1>2, <2>2 DEF CallImport, Untouched
  <2>3. CASE Return BY <1>2, <2>3 DEF Return, Untouched, At
  <2>4. CASE call' = call /\ Running
    <3>1. CASE call.op = "started" BY <1>3, <2>4, <3>1 DEF Untouched
    <3>2. CASE call.op = "execute"
      <4>1. KeepsShape /\ KeepsState
        BY <1>7, KeptAll, TableGrowEffect, GrowInPlaceEffect, GrowMovesEffect, GlobalEffect
        DEF GuestStep, Trap, CallImport, Return
      <4>2. \A s \in Loaded : ~ modules[s].is_instantiated => IsNew(modules[s])
        BY <3>2 DEF NewInv, Untouched
      <4>3. \A s \in Loaded : ~ modules[s].is_instantiated => IsNew(modules'[s])
        BY <1>7, <3>2, <4>2, GuestLeavesNew
      <4>4. QED BY <4>1, <4>3 DEF NewInv, KeepsShape, KeepsState
    <3>3. QED BY <2>4, <3>1, <3>2 DEF Typed, CallTyped
  <2>5. QED BY <1>7, <2>1, <2>2, <2>3, <2>4 DEF GuestStep, TableGrow, GrowInPlace, GrowMoves, GlobalSet
<1>8. QED BY <1>6, <1>7 DEF Next

LEMMA CarefulHosts ==
  ASSUME CarefulHost, Typed, Careful, HostStep
  PROVE  NewInv' /\ SourcesInv' /\ LinkInv' /\ RunsInstantiated'
<1>0. call.op = "idle" /\ frames' = << >>
  BY HostActs DEF Running
<1>1. RunsInstantiated' BY <1>0 DEF RunsInstantiated
<1>2. CASE UNCHANGED modules /\ ~ UnloadAllModules
  <2>1. Untouched' => Untouched
    <3>1. call' = call \/ ~ call.error BY <1>2, HostActs
    <3>2. QED BY <1>0, <3>1 DEF Untouched
  <2>2. Loaded' = Loaded BY <1>2 DEF Loaded
  <2>3. NewInv' BY <1>2, <2>1, <2>2 DEF Careful, NewInv
  <2>4. call'.op \notin AfterImports
    <3>1. CASE call' = call BY <1>0, <3>1 DEF AfterImports
    <3>2. CASE HostCalls BY <3>2, CallsBegin DEF AfterImports
    <3>3. QED BY <1>2, <3>1, <3>2, HostActs
  <2>5. \A s \in Loaded : (Resolved(s)' => Resolved(s)) /\ (Whole(s)' => Whole(s))
    BY <1>2, <2>4 DEF Resolved, Whole, AfterImports, AfterMemory
  <2>6. QED BY <1>1, <1>2, <2>2, <2>3, <2>5 DEF Careful, SourcesInv, LinkInv
<1>3. ASSUME NEW load \in Binaries, LoadModule(load.name, load.binary)
      PROVE  NewInv' /\ SourcesInv' /\ LinkInv'
  <2>1. call' = call /\ AllInstantiated BY <1>3 DEF LoadModule, Admitted
  <2>2. PICK s \in Slots : /\ s \notin Loaded /\ Loaded' = Loaded \cup {s}
                           /\ modules'[s] = NewInstance(load.name, load.binary)
                           /\ \A t \in Slots : t # s => modules'[t] = modules[t]
    BY <1>3, LoadEffect
  <2> DEFINE n == NewInstance(load.name, load.binary)
  <2>3. IsNew(n) /\ n.func \notin Slots /\ n.global_from = 0 /\ ~ n.is_instantiated
    BY Sizes DEF NewInstance, IsNew
  <2> HIDE DEF n
  <2>4. \A t \in Loaded : modules'[t] = modules[t] /\ modules[t].is_instantiated
    BY <2>1, <2>2 DEF AllInstantiated, Loaded
  <2>5. NewInv' BY <2>2, <2>3, <2>4 DEF NewInv, n
  <2>6. SourcesInv' BY <2>2, <2>3, <2>4 DEF Careful, SourcesInv, n, Typed, ModulesTyped
  <2>7. LinkInv'
    <3>1. ~ Resolved(s)' /\ ~ Whole(s)'
      BY <1>0, <2>1, <2>2, <2>3 DEF Resolved, Whole, AfterImports, AfterMemory, n
    <3>2. \A t \in Loaded : Resolved(t) /\ Whole(t) BY <2>4 DEF Resolved, Whole
    <3>3. QED BY <2>2, <2>4, <3>1, <3>2 DEF Careful, LinkInv
  <2>8. QED BY <2>5, <2>6, <2>7
<1>4. CASE UnloadAllModules
  <2>1. Loaded' = {} BY <1>4 DEF UnloadAllModules, Loaded
  <2>2. QED BY <1>1, <2>1 DEF NewInv, SourcesInv, LinkInv
<1>5. QED BY <1>1, <1>2, <1>3, <1>4, HostActs

CoreInv == Typed /\ Views /\ CacheFresh /\ OkInv

LEMMA CoreStep == ASSUME CoreInv, [Next]_vars PROVE CoreInv'
<1>1. Typed' BY TypedStep DEF CoreInv
<1>2. CASE Next BY <1>1, <1>2, ViewsStep, CacheStep, OkStep DEF CoreInv
<1>3. CASE UNCHANGED vars
  <2>1. UNCHANGED <<modules, heap, frames, regs, call>> BY <1>3 DEF vars
  <2>2. QED BY <1>1, <2>1, KeptAll, ViewsKept, CacheKept, OkKept DEF CoreInv
<1>4. QED BY <1>2, <1>3

LEMMA CarefulStep ==
  ASSUME CarefulHost, CoreInv, CoreInv', Careful, [Next]_vars
  PROVE  Careful'
<1>1. CASE Next /\ HostStep
  BY <1>1, HostHost, CarefulHosts DEF CoreInv, Careful
<1>2. CASE Next /\ ~ HostStep
  BY <1>2, HostLoop, SourcesLoop, LinkLoop, RunsLoop, NewLoop DEF CoreInv, Careful
<1>3. CASE UNCHANGED vars
  <2>1. UNCHANGED <<modules, call, frames>> BY <1>3 DEF vars
  <2>2. Loaded' = Loaded BY <2>1 DEF Loaded
  <2>3. HostInv' BY <2>1, <2>2 DEF Careful, HostInv, At
  <2>4. NewInv' BY <2>1, <2>2 DEF Careful, NewInv, Untouched
  <2>5. SourcesInv' BY <2>1, <2>2 DEF Careful, SourcesInv
  <2>6. LinkInv' BY <2>1, <2>2 DEF Careful, LinkInv, Resolved, Whole
  <2>7. RunsInstantiated' BY <2>1 DEF Careful, RunsInstantiated, At
  <2>8. QED BY <2>3, <2>4, <2>5, <2>6, <2>7 DEF Careful
<1>4. QED BY <1>1, <1>2, <1>3

LEMMA CarefulInit ==
  ASSUME Init
  PROVE  CoreInv /\ Careful
<1>1. Typed BY InitTyped
<1>2. Loaded = {} /\ call = Idle /\ frames = << >> BY DEF Init, Loaded
<1>3. call.op = "idle" BY <1>2 DEF Idle
<1>4. CoreInv
  BY <1>1, <1>2, <1>3
  DEF CoreInv, Views, MemoryInv, TableInv, Apart, CacheFresh, Running, OkInv, LoopOps, At
<1>5. Careful
  BY <1>2, <1>3 DEF Careful, HostInv, NewInv, SourcesInv, LinkInv, RunsInstantiated, LoopOps, At
<1>6. QED BY <1>4, <1>5

(* When the host instantiates each module before it loads the next, only   *)
(* code of instantiated modules runs, but for the start function of the    *)
(* module being instantiated, whatever chain of imports a call goes        *)
(* through.                                                                *)
THEOREM RunsCorrect == ASSUME CarefulHost PROVE Spec => []RunsInstantiated
<1>1. Init => CoreInv /\ Careful BY CarefulInit
<1>2. CoreInv /\ Careful /\ [Next]_vars => CoreInv' /\ Careful' BY CoreStep, CarefulStep
<1>3. Careful => RunsInstantiated BY DEF Careful
<1>4. QED BY <1>1, <1>2, <1>3, PTL DEF Spec

-----------------------------------------------------------------------------
(* Who frees what.  p gives each slot of L a pointer, and sh tells whether *)
(* it was copied: each block has one owner, and a copy has an owner.       *)
Owning(L, p, sh) ==
  /\ \A s, t \in L : s # t /\ ~ sh[s] /\ ~ sh[t] /\ p[s] = p[t] => p[s] = Null
  /\ \A s \in L : p[s] # Null => \E t \in L : p[t] = p[s] /\ ~ sh[t]

LEMMA OwningSame ==
  ASSUME NEW L, NEW p, NEW sh, NEW q, NEW sq, Owning(L, p, sh),
         \A u \in L : q[u] = p[u] /\ sq[u] = sh[u]
  PROVE  Owning(L, q, sq)
BY DEF Owning

LEMMA OwningLoaded ==
  ASSUME NEW L, NEW p, NEW sh, NEW q, NEW sq, NEW n, n \notin L, Owning(L, p, sh),
         \A u \in L : q[u] = p[u] /\ sq[u] = sh[u], q[n] = Null
  PROVE  Owning(L \cup {n}, q, sq)
BY DEF Owning

LEMMA OwningLinked ==
  ASSUME NEW L, NEW p, NEW sh, NEW q, NEW sq, NEW s \in L, NEW t \in L, Owning(L, p, sh),
         \A u \in L : u # s => q[u] = p[u] /\ sq[u] = sh[u],
         p[s] = Null, p[t] # Null, q[s] = p[t], sq[s]
  PROVE  Owning(L, q, sq)
<1>1. PICK w \in L : p[w] = p[t] /\ ~ sh[w] BY DEF Owning
<1>2. w # s BY <1>1
<1>3. q[w] = q[s] /\ ~ sq[w] BY <1>1, <1>2
<1>4. \A u \in L : q[u] # Null => \E v \in L : q[v] = q[u] /\ ~ sq[v]
  <2>1. TAKE u \in L
  <2>2. CASE u = s BY <1>3, <2>2
  <2>3. CASE u # s
    <3>1. HAVE q[u] # Null
    <3>2. PICK v \in L : p[v] = p[u] /\ ~ sh[v] BY <2>3, <3>1 DEF Owning
    <3>3. v # s BY <2>3, <3>1, <3>2
    <3>4. q[v] = q[u] /\ ~ sq[v] BY <2>3, <3>2, <3>3
    <3>5. QED BY <3>4
  <2>4. QED BY <2>2, <2>3
<1>5. \A u, v \in L : u # v /\ ~ sq[u] /\ ~ sq[v] /\ q[u] = q[v] => q[u] = Null
  BY DEF Owning
<1>6. QED BY <1>4, <1>5 DEF Owning

LEMMA OwningAllocated ==
  ASSUME NEW L, NEW p, NEW sh, NEW q, NEW sq, NEW s \in L, NEW a, Owning(L, p, sh),
         \A u \in L : u # s => q[u] = p[u] /\ sq[u] = sh[u],
         \A u \in L : p[u] # a, p[s] = Null, q[s] = a, ~ sq[s]
  PROVE  Owning(L, q, sq)
<1>1. \A u \in L : q[u] # Null => \E v \in L : q[v] = q[u] /\ ~ sq[v]
  <2>1. TAKE u \in L
  <2>2. CASE u = s BY <2>2
  <2>3. CASE u # s
    <3>1. HAVE q[u] # Null
    <3>2. PICK v \in L : p[v] = p[u] /\ ~ sh[v] BY <2>3, <3>1 DEF Owning
    <3>3. v # s BY <2>3, <3>1, <3>2
    <3>4. q[v] = q[u] /\ ~ sq[v] BY <2>3, <3>2, <3>3
    <3>5. QED BY <3>4
  <2>4. QED BY <2>2, <2>3
<1>2. \A u, v \in L : u # v /\ ~ sq[u] /\ ~ sq[v] /\ q[u] = q[v] => q[u] = Null
  BY DEF Owning
<1>3. QED BY <1>1, <1>2 DEF Owning

MemoryPtrs == [s \in Loaded |-> modules[s].memory.ptr]
MemoryCopies == [s \in Loaded |-> modules[s].memory.shared]
TablePtrs == [s \in Loaded |-> modules[s].table.ptr]
TableCopies == [s \in Loaded |-> modules[s].table.shared]

(* Every block is held, and the jump tables are those of loaded modules. *)
BlocksHeld == \A b \in DOMAIN heap : \E s \in Loaded : MemoryPtrs[s] = b \/ TablePtrs[s] = b
JumpTables == {s \in Loaded : modules[s].jump_table}

OwnInv ==
  /\ Owning(Loaded, MemoryPtrs, MemoryCopies) /\ Owning(Loaded, TablePtrs, TableCopies)
  /\ BlocksHeld
  /\ jump_tables = Cardinality(JumpTables)

LEMMA OwnMeaning ==
  ASSUME Views, OwnInv
  PROVE  OneOwner /\ UnloadFrees
<1>1. OneOwner
  <2> SUFFICES ASSUME NEW s \in Loaded, NEW t \in Loaded, s # t,
                      NEW b \in Owned(modules[s]), b \in Owned(modules[t]), b # Null
      PROVE  FALSE
    BY DEF OneOwner
  <2>1. /\ modules[s].memory.ptr = MemoryPtrs[s] /\ modules[s].memory.shared = MemoryCopies[s]
        /\ modules[t].memory.ptr = MemoryPtrs[t] /\ modules[t].memory.shared = MemoryCopies[t]
        /\ modules[s].table.ptr = TablePtrs[s] /\ modules[s].table.shared = TableCopies[s]
        /\ modules[t].table.ptr = TablePtrs[t] /\ modules[t].table.shared = TableCopies[t]
    BY DEF MemoryPtrs, MemoryCopies, TablePtrs, TableCopies
  <2>2. /\ MemoryPtrs[s] # b \/ TablePtrs[t] # b
        /\ MemoryPtrs[t] # b \/ TablePtrs[s] # b
    BY <2>1 DEF Views, Apart
  <2>3. \/ (~ MemoryCopies[s] /\ MemoryPtrs[s] = b)
        \/ (~ TableCopies[s] /\ TablePtrs[s] = b)
    <3>1. \/ (~ modules[s].memory.shared /\ modules[s].memory.ptr = b)
          \/ (~ modules[s].table.shared /\ modules[s].table.ptr = b)
      BY DEF Owned
    <3>2. QED BY <3>1 DEF MemoryPtrs, MemoryCopies, TablePtrs, TableCopies
  <2>4. \/ (~ MemoryCopies[t] /\ MemoryPtrs[t] = b)
        \/ (~ TableCopies[t] /\ TablePtrs[t] = b)
    <3>1. \/ (~ modules[t].memory.shared /\ modules[t].memory.ptr = b)
          \/ (~ modules[t].table.shared /\ modules[t].table.ptr = b)
      BY DEF Owned
    <3>2. QED BY <3>1 DEF MemoryPtrs, MemoryCopies, TablePtrs, TableCopies
  <2>5. QED BY <2>2, <2>3, <2>4 DEF OwnInv, Owning
<1>2. UnloadFrees
  <2> SUFFICES ASSUME Loaded = {} PROVE DOMAIN heap = {} /\ jump_tables = 0 BY DEF UnloadFrees
  <2>1. DOMAIN heap = {} BY DEF OwnInv, BlocksHeld
  <2>2. JumpTables = {} BY DEF JumpTables
  <2>3. QED BY <2>1, <2>2, FS_EmptySet DEF OwnInv
<1>3. QED BY <1>1, <1>2

(* No pointer of a loaded module is a block that is free. *)
LEMMA NotHeld ==
  ASSUME Typed, Views, NEW a \in Free, NEW s \in Loaded
  PROVE  MemoryPtrs[s] # a /\ TablePtrs[s] # a
<1>1. a # Null /\ a \notin DOMAIN heap BY FreshBlock
<1>2. QED BY <1>1 DEF MemoryPtrs, TablePtrs, Views, MemoryInv, TableInv

LEMMA PtrsSame ==
  ASSUME KeepsShape, KeepsMemory, NEW s \in Loaded
  PROVE  MemoryPtrs'[s] = MemoryPtrs[s] /\ MemoryCopies'[s] = MemoryCopies[s]
BY DEF KeepsShape, KeepsMemory, MemoryPtrs, MemoryCopies

LEMMA TablePtrsSame ==
  ASSUME KeepsShape, KeepsTable, NEW s \in Loaded
  PROVE  TablePtrs'[s] = TablePtrs[s] /\ TableCopies'[s] = TableCopies[s]
BY DEF KeepsShape, KeepsTable, TablePtrs, TableCopies

LEMMA JumpsSame ==
  ASSUME KeepsShape, KeepsJump, OwnInv, jump_tables' = jump_tables
  PROVE  jump_tables' = Cardinality(JumpTables')
<1>1. JumpTables' = JumpTables BY DEF JumpTables, KeepsShape, KeepsJump
<1>2. QED BY <1>1 DEF OwnInv

LEMMA OwnKept ==
  ASSUME OwnInv, KeepsShape, KeepsJump, UNCHANGED <<heap, jump_tables>>,
         \A u \in Loaded : /\ MemoryPtrs'[u] = MemoryPtrs[u] /\ MemoryCopies'[u] = MemoryCopies[u]
                           /\ TablePtrs'[u] = TablePtrs[u] /\ TableCopies'[u] = TableCopies[u]
  PROVE  OwnInv'
<1>1. Loaded' = Loaded BY DEF KeepsShape
<1>2. Owning(Loaded', MemoryPtrs', MemoryCopies') BY <1>1, OwningSame DEF OwnInv
<1>3. Owning(Loaded', TablePtrs', TableCopies') BY <1>1, OwningSame DEF OwnInv
<1>4. BlocksHeld' BY <1>1 DEF OwnInv, BlocksHeld
<1>5. jump_tables' = Cardinality(JumpTables') BY JumpsSame
<1>6. QED BY <1>2, <1>3, <1>4, <1>5 DEF OwnInv

LEMMA OwnSame ==
  ASSUME OwnInv, KeepsShape, KeepsMemory, KeepsTable, KeepsJump, UNCHANGED <<heap, jump_tables>>
  PROVE  OwnInv'
BY OwnKept, PtrsSame, TablePtrsSame

LEMMA JumpsFinite == IsFiniteSet(JumpTables)
<1>1. IsFiniteSet(Slots) BY Sizes, FS_Interval DEF Slots
<1>2. JumpTables \subseteq Slots BY DEF JumpTables, Loaded
<1>3. QED BY <1>1, <1>2, FS_Subset

LEMMA PtrValues ==
  ASSUME NEW s \in Loaded
  PROVE  /\ MemoryPtrs[s] = modules[s].memory.ptr /\ MemoryCopies[s] = modules[s].memory.shared
         /\ TablePtrs[s] = modules[s].table.ptr /\ TableCopies[s] = modules[s].table.shared
BY DEF MemoryPtrs, MemoryCopies, TablePtrs, TableCopies

LEMMA PtrValuesNext ==
  ASSUME NEW s \in Loaded'
  PROVE  /\ MemoryPtrs'[s] = modules'[s].memory.ptr /\ MemoryCopies'[s] = modules'[s].memory.shared
         /\ TablePtrs'[s] = modules'[s].table.ptr /\ TableCopies'[s] = modules'[s].table.shared
BY DEF MemoryPtrs, MemoryCopies, TablePtrs, TableCopies

LEMMA NullFree == ASSUME Typed PROVE Null \notin DOMAIN heap
BY ModulesAssumption DEF Typed, HeapTyped

LEMMA OwnLoad ==
  ASSUME Typed, OwnInv, NEW load \in Binaries, LoadModule(load.name, load.binary)
  PROVE  OwnInv'
<1>1. PICK s \in Slots : /\ s \notin Loaded /\ Loaded' = Loaded \cup {s}
                         /\ modules'[s] = NewInstance(load.name, load.binary)
                         /\ \A t \in Slots : t # s => modules'[t] = modules[t]
  BY LoadEffect
<1>2. heap' = heap /\ jump_tables' = jump_tables BY DEF LoadModule
<1> DEFINE n == NewInstance(load.name, load.binary)
<1>3. n.memory.ptr = Null /\ n.table.ptr = Null /\ ~ n.jump_table BY DEF NewInstance
<1> HIDE DEF n
<1>4. \A u \in Loaded : u # s /\ modules'[u] = modules[u] BY <1>1 DEF Loaded
<1>5. \A u \in Loaded : /\ MemoryPtrs'[u] = MemoryPtrs[u] /\ MemoryCopies'[u] = MemoryCopies[u]
                        /\ TablePtrs'[u] = TablePtrs[u] /\ TableCopies'[u] = TableCopies[u]
  BY <1>1, <1>4, PtrValues, PtrValuesNext
<1>6. MemoryPtrs'[s] = Null /\ TablePtrs'[s] = Null BY <1>1, <1>3, PtrValuesNext DEF n
<1>7. Owning(Loaded', MemoryPtrs', MemoryCopies')
  BY <1>1, <1>5, <1>6, OwningLoaded DEF OwnInv
<1>8. Owning(Loaded', TablePtrs', TableCopies')
  BY <1>1, <1>5, <1>6, OwningLoaded DEF OwnInv
<1>9. BlocksHeld' BY <1>1, <1>2, <1>5 DEF OwnInv, BlocksHeld
<1>10. JumpTables' = JumpTables BY <1>1, <1>3, <1>4 DEF JumpTables, n
<1>11. QED BY <1>2, <1>7, <1>8, <1>9, <1>10 DEF OwnInv

LEMMA OwnUnload ==
  ASSUME Typed, OwnInv, UnloadAllModules
  PROVE  OwnInv'
<1>1. Loaded' = {} BY DEF UnloadAllModules, Loaded
<1>2. DOMAIN heap' = DOMAIN heap \ UNION {Owned(modules[s]) : s \in Loaded}
  BY DEF UnloadAllModules, Without
<1>3. ASSUME NEW b \in DOMAIN heap PROVE \E s \in Loaded : b \in Owned(modules[s])
  <2>1. b # Null BY NullFree
  <2>2. PICK s \in Loaded : MemoryPtrs[s] = b \/ TablePtrs[s] = b BY DEF OwnInv, BlocksHeld
  <2>3. CASE MemoryPtrs[s] = b
    <3>1. PICK t \in Loaded : MemoryPtrs[t] = b /\ ~ MemoryCopies[t]
      BY <2>1, <2>3 DEF OwnInv, Owning
    <3>2. modules[t].memory.ptr = b /\ ~ modules[t].memory.shared BY <3>1, PtrValues
    <3>3. QED BY <3>2 DEF Owned
  <2>4. CASE TablePtrs[s] = b
    <3>1. PICK t \in Loaded : TablePtrs[t] = b /\ ~ TableCopies[t]
      BY <2>1, <2>4 DEF OwnInv, Owning
    <3>2. modules[t].table.ptr = b /\ ~ modules[t].table.shared BY <3>1, PtrValues
    <3>3. QED BY <3>2 DEF Owned
  <2>5. QED BY <2>2, <2>3, <2>4
<1>4. DOMAIN heap' = {} BY <1>2, <1>3
<1>5. jump_tables' = 0
  <2>1. Cardinality(JumpTables) \in Nat BY JumpsFinite, FS_CardinalityType
  <2>2. jump_tables' = jump_tables - Cardinality(JumpTables) BY DEF UnloadAllModules, JumpTables
  <2>3. QED BY <2>1, <2>2 DEF OwnInv
<1>6. Cardinality(JumpTables') = 0
  <2>1. JumpTables' = {} BY <1>1 DEF JumpTables
  <2>2. QED BY <2>1, FS_EmptySet
<1>7. QED BY <1>1, <1>4, <1>5, <1>6 DEF OwnInv, Owning, BlocksHeld

LEMMA OwnImports ==
  ASSUME Typed, Views, HostInv, NewInv, OwnInv, ImportsOk \/ ImportsFail
  PROVE  OwnInv'
<1>1. /\ call.slot \in Loaded /\ Mod \in Instance /\ Mod = modules[call.slot]
      /\ Loaded' = Loaded /\ KeepsShape
      /\ \A t \in Slots : t # call.slot => modules'[t] = modules[t]
      /\ LinksMemory(Mod, modules'[call.slot]) /\ LinksTable(Mod, modules'[call.slot])
      /\ ImportsOk => modules'[call.slot].jump_table
      /\ ImportsFail => modules'[call.slot].jump_table = Mod.jump_table
  BY ImportsEffect
<1>2. PICK s \in Loaded : s = call.slot BY <1>1
<1>3. IsNew(modules[s])
  <2>1. call.op = "imports" /\ ~ Mod.is_instantiated
    BY LoopSlot DEF ImportsOk, ImportsFail, At, LoopOps
  <2>2. QED BY <1>1, <1>2, <2>1 DEF NewInv, Untouched
<1>4. heap' = heap BY DEF ImportsOk, ImportsFail
<1>5. \A u \in Loaded : u # s => modules'[u] = modules[u] BY <1>1, <1>2 DEF Loaded
<1>6. \A u \in Loaded : u # s =>
        /\ MemoryPtrs'[u] = MemoryPtrs[u] /\ MemoryCopies'[u] = MemoryCopies[u]
        /\ TablePtrs'[u] = TablePtrs[u] /\ TableCopies'[u] = TableCopies[u]
  BY <1>1, <1>5, PtrValues, PtrValuesNext
<1>7. MemoryPtrs[s] = Null /\ TablePtrs[s] = Null BY <1>3, PtrValues DEF IsNew
<1>8. Owning(Loaded', MemoryPtrs', MemoryCopies')
  <2>1. CASE modules'[s].memory = modules[s].memory
    <3>1. MemoryPtrs'[s] = MemoryPtrs[s] /\ MemoryCopies'[s] = MemoryCopies[s]
      BY <1>1, <2>1, PtrValues, PtrValuesNext
    <3>2. QED BY <1>1, <1>6, <3>1, OwningSame DEF OwnInv
  <2>2. CASE modules'[s].memory # modules[s].memory
    <3>1. PICK t \in Loaded :
            /\ modules[t].memory.ptr # Null
            /\ modules'[s].memory = [modules[t].memory EXCEPT !.shared = TRUE, !.from = t]
      BY <1>1, <1>2, <2>2 DEF LinksMemory
    <3>2. modules[t].memory \in Memory BY LoadedInstance, InstanceFields
    <3>3. modules'[s].memory.ptr = modules[t].memory.ptr /\ modules'[s].memory.shared
      BY <3>1, <3>2 DEF Memory
    <3>4. MemoryPtrs'[s] = MemoryPtrs[t] /\ MemoryPtrs[t] # Null /\ MemoryCopies'[s]
      BY <1>1, <3>1, <3>3, PtrValues, PtrValuesNext
    <3>5. QED BY <1>1, <1>6, <1>7, <3>4, OwningLinked DEF OwnInv
  <2>3. QED BY <2>1, <2>2
<1>9. Owning(Loaded', TablePtrs', TableCopies')
  <2>1. CASE modules'[s].table = modules[s].table
    <3>1. TablePtrs'[s] = TablePtrs[s] /\ TableCopies'[s] = TableCopies[s]
      BY <1>1, <2>1, PtrValues, PtrValuesNext
    <3>2. QED BY <1>1, <1>6, <3>1, OwningSame DEF OwnInv
  <2>2. CASE modules'[s].table # modules[s].table
    <3>1. PICK t \in Loaded :
            /\ modules[t].table.ptr # Null
            /\ modules'[s].table = [modules[t].table EXCEPT !.shared = TRUE, !.from = t]
      BY <1>1, <1>2, <2>2 DEF LinksTable
    <3>2. modules[t].table \in Table BY LoadedInstance, InstanceFields
    <3>3. modules'[s].table.ptr = modules[t].table.ptr /\ modules'[s].table.shared
      BY <3>1, <3>2 DEF Table
    <3>4. TablePtrs'[s] = TablePtrs[t] /\ TablePtrs[t] # Null /\ TableCopies'[s]
      BY <1>1, <3>1, <3>3, PtrValues, PtrValuesNext
    <3>5. QED BY <1>1, <1>6, <1>7, <3>4, OwningLinked DEF OwnInv
  <2>3. QED BY <2>1, <2>2
<1>10. BlocksHeld'
  <2>1. ASSUME NEW b \in DOMAIN heap
        PROVE \E u \in Loaded : MemoryPtrs'[u] = b \/ TablePtrs'[u] = b
    <3>1. PICK u \in Loaded : MemoryPtrs[u] = b \/ TablePtrs[u] = b BY DEF OwnInv, BlocksHeld
    <3>2. u # s BY <1>7, <3>1, NullFree
    <3>3. QED BY <1>6, <3>1, <3>2
  <2>2. QED BY <1>1, <1>4, <2>1 DEF BlocksHeld
<1>11. jump_tables' = Cardinality(JumpTables')
  <2>1. CASE ImportsOk
    <3>1. s \notin JumpTables BY <1>3 DEF JumpTables, IsNew
    <3>2. JumpTables' = JumpTables \cup {s} BY <1>1, <1>2, <1>5, <2>1 DEF JumpTables
    <3>3. Cardinality(JumpTables') = Cardinality(JumpTables) + 1
      BY <3>1, <3>2, JumpsFinite, FS_AddElement
    <3>4. jump_tables' = jump_tables + 1 BY <2>1 DEF ImportsOk
    <3>5. QED BY <3>3, <3>4 DEF OwnInv
  <2>2. CASE ImportsFail
    <3>1. JumpTables' = JumpTables BY <1>1, <1>2, <1>5, <2>2 DEF JumpTables
    <3>2. QED BY <2>2, <3>1 DEF OwnInv, ImportsFail, Registry
  <2>3. QED BY <2>1, <2>2
<1>12. QED BY <1>8, <1>9, <1>10, <1>11 DEF OwnInv

LEMMA OwnMemory ==
  ASSUME Typed, Views, OwnInv, MemoryOk
  PROVE  OwnInv'
<1>1. /\ call.slot \in Loaded /\ Mod \in Instance /\ Mod = modules[call.slot]
      /\ KeepsShape /\ KeepsTable /\ KeepsJump
      /\ \A t \in Slots : t # call.slot => modules'[t] = modules[t]
  BY MemoryEffect
<1>2. jump_tables' = jump_tables BY DEF MemoryOk, Registry
<1>3. CASE modules' = modules /\ heap' = heap
  BY <1>2, <1>3, KeptAll, OwnSame
<1>4. CASE Mod.memory.ptr = Null /\ ~ (modules' = modules /\ heap' = heap)
  <2>1. PICK a \in Free :
          /\ heap' = With(a, Mod.binary.min)
          /\ modules'[call.slot].memory =
               [Mod.memory EXCEPT !.ptr = a, !.size = Mod.binary.min, !.capacity = Mod.binary.min]
    BY <1>4, MemoryEffect
  <2>2. PICK s \in Loaded : s = call.slot BY <1>1
  <2>3. Loaded' = Loaded BY <1>1 DEF KeepsShape
  <2>4. Mod.memory \in Memory /\ ~ Mod.memory.shared
    BY <1>1, <1>4, InstanceFields DEF Views, MemoryInv
  <2>5. modules'[s].memory.ptr = a /\ ~ modules'[s].memory.shared
    BY <2>1, <2>2, <2>4 DEF Memory
  <2>6. MemoryPtrs[s] = Null /\ MemoryPtrs'[s] = a /\ ~ MemoryCopies'[s]
    BY <1>1, <1>4, <2>2, <2>3, <2>5, PtrValues, PtrValuesNext
  <2>7. \A u \in Loaded : u # s => MemoryPtrs'[u] = MemoryPtrs[u] /\ MemoryCopies'[u] = MemoryCopies[u]
    <3>1. \A u \in Loaded : u # s => modules'[u] = modules[u] BY <1>1, <2>2 DEF Loaded
    <3>2. QED BY <2>3, <3>1, PtrValues, PtrValuesNext
  <2>8. \A u \in Loaded : TablePtrs'[u] = TablePtrs[u] /\ TableCopies'[u] = TableCopies[u]
    BY <1>1, TablePtrsSame
  <2>9. Owning(Loaded', MemoryPtrs', MemoryCopies')
    BY <2>3, <2>6, <2>7, NotHeld, OwningAllocated DEF OwnInv
  <2>10. Owning(Loaded', TablePtrs', TableCopies') BY <2>3, <2>8, OwningSame DEF OwnInv
  <2>11. DOMAIN heap' = DOMAIN heap \cup {a} BY <2>1 DEF With
  <2>12. BlocksHeld'
    <3>1. ASSUME NEW b \in DOMAIN heap
          PROVE \E u \in Loaded : MemoryPtrs'[u] = b \/ TablePtrs'[u] = b
      <4>1. PICK u \in Loaded : MemoryPtrs[u] = b \/ TablePtrs[u] = b BY DEF OwnInv, BlocksHeld
      <4>2. MemoryPtrs[u] = b => u # s BY <2>6, NullFree
      <4>3. QED BY <2>7, <2>8, <4>1, <4>2
    <3>2. QED BY <2>3, <2>6, <2>11, <3>1 DEF BlocksHeld
  <2>13. QED BY <1>1, <1>2, <2>9, <2>10, <2>12, JumpsSame DEF OwnInv
<1>5. QED BY <1>3, <1>4, MemoryEffect

LEMMA OwnTable ==
  ASSUME Typed, Views, OwnInv, TablesOk
  PROVE  OwnInv'
<1>1. /\ call.slot \in Loaded /\ Mod \in Instance /\ Mod = modules[call.slot]
      /\ KeepsShape /\ KeepsMemory /\ KeepsJump
      /\ \A t \in Slots : t # call.slot => modules'[t] = modules[t]
  BY TableEffect
<1>2. jump_tables' = jump_tables BY DEF TablesOk, Registry
<1>3. CASE modules' = modules /\ heap' = heap
  BY <1>2, <1>3, KeptAll, OwnSame
<1>4. CASE ~ (modules' = modules /\ heap' = heap)
  <2>1. NeedsTable(Mod) /\ \E a \in Free : /\ heap' = With(a, Mod.table.size)
                                           /\ modules'[call.slot].table = [Mod.table EXCEPT !.ptr = a]
    BY <1>4, TableEffect
  <2>2. PICK a \in Free : /\ heap' = With(a, Mod.table.size)
                          /\ modules'[call.slot].table = [Mod.table EXCEPT !.ptr = a]
    BY <2>1
  <2>3. PICK s \in Loaded : s = call.slot BY <1>1
  <2>4. Loaded' = Loaded BY <1>1 DEF KeepsShape
  <2>5. Mod.table \in Table /\ Mod.table.ptr = Null /\ ~ Mod.table.shared
    BY <1>1, <2>1, InstanceFields DEF Views, TableInv, NeedsTable
  <2>6. modules'[s].table.ptr = a /\ ~ modules'[s].table.shared
    BY <2>2, <2>3, <2>5 DEF Table
  <2>7. TablePtrs[s] = Null /\ TablePtrs'[s] = a /\ ~ TableCopies'[s]
    BY <1>1, <2>3, <2>4, <2>5, <2>6, PtrValues, PtrValuesNext
  <2>8. \A u \in Loaded : u # s => TablePtrs'[u] = TablePtrs[u] /\ TableCopies'[u] = TableCopies[u]
    <3>1. \A u \in Loaded : u # s => modules'[u] = modules[u] BY <1>1, <2>3 DEF Loaded
    <3>2. QED BY <2>4, <3>1, PtrValues, PtrValuesNext
  <2>9. \A u \in Loaded : MemoryPtrs'[u] = MemoryPtrs[u] /\ MemoryCopies'[u] = MemoryCopies[u]
    BY <1>1, PtrsSame
  <2>10. Owning(Loaded', TablePtrs', TableCopies')
    BY <2>4, <2>7, <2>8, NotHeld, OwningAllocated DEF OwnInv
  <2>11. Owning(Loaded', MemoryPtrs', MemoryCopies') BY <2>4, <2>9, OwningSame DEF OwnInv
  <2>12. DOMAIN heap' = DOMAIN heap \cup {a} BY <2>2 DEF With
  <2>13. BlocksHeld'
    <3>1. ASSUME NEW b \in DOMAIN heap
          PROVE \E u \in Loaded : MemoryPtrs'[u] = b \/ TablePtrs'[u] = b
      <4>1. PICK u \in Loaded : MemoryPtrs[u] = b \/ TablePtrs[u] = b BY DEF OwnInv, BlocksHeld
      <4>2. TablePtrs[u] = b => u # s BY <2>7, NullFree
      <4>3. QED BY <2>8, <2>9, <4>1, <4>2
    <3>2. QED BY <2>4, <2>7, <2>12, <3>1 DEF BlocksHeld
  <2>14. QED BY <1>1, <1>2, <2>10, <2>11, <2>13, JumpsSame DEF OwnInv
<1>5. QED BY <1>3, <1>4

LEMMA OwnGrowInPlace ==
  ASSUME Typed, OwnInv, NEW delta \in 1 .. kMaxLinearMemory, GrowInPlace(delta)
  PROVE  OwnInv'
<1>1. KeepsShape /\ KeepsTable /\ KeepsJump BY GrowInPlaceEffect
<1>2. UNCHANGED <<heap, jump_tables>> BY DEF GrowInPlace
<1>3. \A u \in Loaded : /\ MemoryPtrs'[u] = MemoryPtrs[u] /\ MemoryCopies'[u] = MemoryCopies[u]
                        /\ TablePtrs'[u] = TablePtrs[u] /\ TableCopies'[u] = TableCopies[u]
  <2>1. TAKE u \in Loaded
  <2> DEFINE size == regs.size + delta
  <2>2. modules'[u].memory = modules[u].memory
        \/ modules'[u].memory = [modules[u].memory EXCEPT !.size = size]
    BY GrowInPlaceEffect
  <2>3. modules[u].memory \in Memory BY LoadedInstance, InstanceFields
  <2> HIDE DEF size
  <2>4. /\ modules'[u].memory.ptr = modules[u].memory.ptr
        /\ modules'[u].memory.shared = modules[u].memory.shared
    BY <2>2, <2>3 DEF Memory
  <2>5. u \in Loaded' BY <1>1 DEF KeepsShape
  <2>6. QED BY <1>1, <2>4, <2>5, PtrValues, PtrValuesNext, TablePtrsSame
<1>4. QED BY <1>1, <1>2, <1>3, OwnKept

(* A grow moves the block, and every pointer to it. *)
LEMMA MemoriesMoved ==
  ASSUME NEW a, NEW old, old # Null, Loaded' = Loaded, Owning(Loaded, MemoryPtrs, MemoryCopies),
         \A u \in Loaded : MemoryPtrs'[u] = IF MemoryPtrs[u] = old THEN a ELSE MemoryPtrs[u],
         \A u \in Loaded : MemoryCopies'[u] = MemoryCopies[u] /\ MemoryPtrs[u] # a
  PROVE  Owning(Loaded', MemoryPtrs', MemoryCopies')
<1>1. ASSUME NEW u \in Loaded, MemoryPtrs'[u] # Null
      PROVE \E v \in Loaded : MemoryPtrs'[v] = MemoryPtrs'[u] /\ ~ MemoryCopies'[v]
  <2>1. MemoryPtrs[u] # Null BY <1>1
  <2>2. PICK v \in Loaded : MemoryPtrs[v] = MemoryPtrs[u] /\ ~ MemoryCopies[v] BY <2>1 DEF Owning
  <2>3. MemoryPtrs'[v] = MemoryPtrs'[u] /\ ~ MemoryCopies'[v] BY <2>2
  <2>4. QED BY <2>3
<1>2. ASSUME NEW u \in Loaded, NEW v \in Loaded, u # v, ~ MemoryCopies'[u], ~ MemoryCopies'[v],
             MemoryPtrs'[u] = MemoryPtrs'[v]
      PROVE MemoryPtrs'[u] = Null
  <2>1. MemoryPtrs[u] = MemoryPtrs[v] BY <1>2
  <2>2. MemoryPtrs[u] = Null BY <1>2, <2>1 DEF Owning
  <2>3. QED BY <2>2
<1>3. QED BY <1>1, <1>2 DEF Owning

LEMMA TablesMoved ==
  ASSUME NEW a, NEW old, old # Null, Loaded' = Loaded, Owning(Loaded, TablePtrs, TableCopies),
         \A u \in Loaded : TablePtrs'[u] = IF TablePtrs[u] = old THEN a ELSE TablePtrs[u],
         \A u \in Loaded : TableCopies'[u] = TableCopies[u] /\ TablePtrs[u] # a
  PROVE  Owning(Loaded', TablePtrs', TableCopies')
<1>1. ASSUME NEW u \in Loaded, TablePtrs'[u] # Null
      PROVE \E v \in Loaded : TablePtrs'[v] = TablePtrs'[u] /\ ~ TableCopies'[v]
  <2>1. TablePtrs[u] # Null BY <1>1
  <2>2. PICK v \in Loaded : TablePtrs[v] = TablePtrs[u] /\ ~ TableCopies[v] BY <2>1 DEF Owning
  <2>3. TablePtrs'[v] = TablePtrs'[u] /\ ~ TableCopies'[v] BY <2>2
  <2>4. QED BY <2>3
<1>2. ASSUME NEW u \in Loaded, NEW v \in Loaded, u # v, ~ TableCopies'[u], ~ TableCopies'[v],
             TablePtrs'[u] = TablePtrs'[v]
      PROVE TablePtrs'[u] = Null
  <2>1. TablePtrs[u] = TablePtrs[v] BY <1>2
  <2>2. TablePtrs[u] = Null BY <1>2, <2>1 DEF Owning
  <2>3. QED BY <2>2
<1>3. QED BY <1>1, <1>2 DEF Owning

LEMMA OwnGrowMoves ==
  ASSUME Typed, Views, CacheFresh, LinkInv, RunsInstantiated, OwnInv,
         NEW delta \in 1 .. kMaxLinearMemory, GrowMoves(delta)
  PROVE  OwnInv'
<1> DEFINE size == regs.size + delta
           capacity == NewCapacity(size)
<1>1. KeepsShape /\ KeepsTable /\ KeepsJump BY GrowMovesEffect
<1>2. jump_tables' = jump_tables BY DEF GrowMoves
<1>3. PICK a \in Free :
        /\ heap' = [b \in (DOMAIN heap \ {regs.ptr}) \cup {a} |-> IF b = a THEN capacity ELSE heap[b]]
        /\ \A s \in Loaded :
             modules'[s].memory =
               IF s \in Sharing(regs.ptr)
                 THEN [modules[s].memory EXCEPT !.ptr = a, !.size = size, !.capacity = capacity]
                 ELSE modules[s].memory
  BY GrowMovesEffect
<1>4. DOMAIN heap' = (DOMAIN heap \ {regs.ptr}) \cup {a} BY <1>3
<1> HIDE DEF size, capacity
<1>5. /\ Running /\ Top \in Loaded /\ regs.ptr # Null /\ regs.ptr = modules[Top].memory.ptr
  <2>1. Running /\ HasMemory(modules[Top]) BY DEF GrowMoves
  <2>2. QED BY <2>1, TopMemory, RunningTop DEF CacheFresh, Regs
<1>6. Loaded' = Loaded BY <1>1 DEF KeepsShape
<1>7. \A u \in Loaded : /\ MemoryPtrs'[u] = IF MemoryPtrs[u] = regs.ptr THEN a ELSE MemoryPtrs[u]
                        /\ MemoryCopies'[u] = MemoryCopies[u]
  <2>1. TAKE u \in Loaded
  <2>2. modules[u].memory \in Memory BY LoadedInstance, InstanceFields
  <2>3. u \in Sharing(regs.ptr) <=> modules[u].memory.ptr = regs.ptr BY DEF Sharing
  <2>4. /\ modules'[u].memory.ptr = IF modules[u].memory.ptr = regs.ptr THEN a ELSE modules[u].memory.ptr
        /\ modules'[u].memory.shared = modules[u].memory.shared
    BY <1>3, <2>2, <2>3 DEF Memory
  <2>5. QED BY <1>6, <2>4, PtrValues, PtrValuesNext
<1>8. \A u \in Loaded : TablePtrs'[u] = TablePtrs[u] /\ TableCopies'[u] = TableCopies[u]
  BY <1>1, TablePtrsSame
<1>9. Owning(Loaded', MemoryPtrs', MemoryCopies')
  <2>1. Owning(Loaded, MemoryPtrs, MemoryCopies) BY DEF OwnInv
  <2>2. \A u \in Loaded : MemoryCopies'[u] = MemoryCopies[u] /\ MemoryPtrs[u] # a
    BY <1>7, NotHeld
  <2>3. \A u \in Loaded : MemoryPtrs'[u] = IF MemoryPtrs[u] = regs.ptr THEN a ELSE MemoryPtrs[u]
    BY <1>7
  <2>4. QED BY <1>5, <1>6, <2>1, <2>2, <2>3, MemoriesMoved
<1>10. Owning(Loaded', TablePtrs', TableCopies') BY <1>6, <1>8, OwningSame DEF OwnInv
<1>11. BlocksHeld'
  <2>1. ASSUME NEW b \in DOMAIN heap, b # regs.ptr
        PROVE \E u \in Loaded : MemoryPtrs'[u] = b \/ TablePtrs'[u] = b
    <3>1. PICK u \in Loaded : MemoryPtrs[u] = b \/ TablePtrs[u] = b BY DEF OwnInv, BlocksHeld
    <3>2. QED BY <1>7, <1>8, <2>1, <3>1
  <2>2. MemoryPtrs'[Top] = a BY <1>5, <1>7, PtrValues
  <2>3. QED BY <1>4, <1>5, <1>6, <2>1, <2>2 DEF BlocksHeld
<1>12. QED BY <1>1, <1>2, <1>9, <1>10, <1>11, JumpsSame DEF OwnInv

LEMMA OwnTableGrow ==
  ASSUME Typed, Views, OwnInv, TableGrow
  PROVE  OwnInv'
<1> DEFINE n == modules[Top].table.size + 1
           old == modules[Top].table.ptr
           T == IF old = Null THEN {Top} ELSE {u \in Loaded : modules[u].table.ptr = old}
<1>1. KeepsShape /\ KeepsMemory /\ KeepsJump /\ Top \in Loaded BY TableGrowEffect
<1>2. jump_tables' = jump_tables BY DEF TableGrow
<1>3. PICK a \in Free :
        /\ heap' = [b \in (DOMAIN heap \ {old}) \cup {a} |-> IF b = a THEN n ELSE heap[b]]
        /\ \A s \in Loaded :
             modules'[s].table = IF s \in T THEN [modules[s].table EXCEPT !.ptr = a, !.size = n]
                                 ELSE modules[s].table
  BY TableGrowEffect
<1>4. DOMAIN heap' = (DOMAIN heap \ {old}) \cup {a} BY <1>3
<1> HIDE DEF n
<1>5. Loaded' = Loaded BY <1>1 DEF KeepsShape
<1>6. \A u \in Loaded : /\ TablePtrs'[u] = IF u \in T THEN a ELSE TablePtrs[u]
                        /\ TableCopies'[u] = TableCopies[u]
  <2>1. TAKE u \in Loaded
  <2>2. modules[u].table \in Table BY LoadedInstance, InstanceFields
  <2> HIDE DEF T
  <2>3. /\ modules'[u].table.ptr = IF u \in T THEN a ELSE modules[u].table.ptr
        /\ modules'[u].table.shared = modules[u].table.shared
    BY <1>3, <2>2 DEF Table
  <2>4. QED BY <1>5, <2>3, PtrValues, PtrValuesNext
<1>7. \A u \in Loaded : MemoryPtrs'[u] = MemoryPtrs[u] /\ MemoryCopies'[u] = MemoryCopies[u]
  BY <1>1, PtrsSame
<1>8. Owning(Loaded', TablePtrs', TableCopies')
  <2>1. CASE old = Null
    <3>1. PICK s \in Loaded : s = Top BY <1>1
    <3>2. TablePtrs[s] = Null /\ TablePtrs'[s] = a BY <1>6, <2>1, <3>1, PtrValues
    <3>3. ~ TableCopies'[s]
      <4>1. ~ modules[s].table.shared BY <2>1, <3>1 DEF Views, TableInv
      <4>2. QED BY <1>6, <4>1, PtrValues
    <3>4. \A u \in Loaded : u # s => TablePtrs'[u] = TablePtrs[u] /\ TableCopies'[u] = TableCopies[u]
      BY <1>6, <2>1, <3>1
    <3> HIDE DEF T
    <3>5. QED BY <1>5, <3>2, <3>3, <3>4, NotHeld, OwningAllocated DEF OwnInv
  <2>2. CASE old # Null
    <3>1. \A u \in Loaded : u \in T <=> TablePtrs[u] = old BY <2>2, PtrValues
    <3> HIDE DEF T
    <3>2. \A u \in Loaded : TablePtrs'[u] = IF TablePtrs[u] = old THEN a ELSE TablePtrs[u]
      BY <1>6, <3>1
    <3> HIDE DEF old
    <3>3. \A u \in Loaded : TableCopies'[u] = TableCopies[u] /\ TablePtrs[u] # a
      BY <1>6, NotHeld
    <3>4. Owning(Loaded, TablePtrs, TableCopies) BY DEF OwnInv
    <3>5. QED BY <1>5, <2>2, <3>2, <3>3, <3>4, TablesMoved
  <2>3. QED BY <2>1, <2>2
<1>9. Owning(Loaded', MemoryPtrs', MemoryCopies') BY <1>5, <1>7, OwningSame DEF OwnInv
<1>10. BlocksHeld'
  <2>1. \A u \in T : u \in Loaded => TablePtrs[u] = old BY <1>1, PtrValues
  <2>2. Top \in T BY <1>1
  <2> HIDE DEF T, old
  <2>3. ASSUME NEW b \in DOMAIN heap, b # old
        PROVE \E u \in Loaded : MemoryPtrs'[u] = b \/ TablePtrs'[u] = b
    <3>1. PICK u \in Loaded : MemoryPtrs[u] = b \/ TablePtrs[u] = b BY DEF OwnInv, BlocksHeld
    <3>2. QED BY <1>6, <1>7, <2>1, <2>3, <3>1
  <2>4. TablePtrs'[Top] = a BY <1>1, <1>6, <2>2
  <2>5. QED BY <1>1, <1>4, <1>5, <2>3, <2>4 DEF BlocksHeld
<1>11. QED BY <1>1, <1>2, <1>8, <1>9, <1>10, JumpsSame DEF OwnInv

LEMMA OwnStep ==
  ASSUME CarefulHost, CoreInv, Careful, OwnInv, Next
  PROVE  OwnInv'
<1>0. Typed /\ Views /\ CacheFresh BY DEF CoreInv
<1>1. ASSUME UNCHANGED <<modules, heap, jump_tables>> PROVE OwnInv'
  BY <1>0, <1>1, KeptAll, OwnSame
<1>2. CASE HostStep BY <1>0, <1>1, <1>2, HostActs, OwnLoad, OwnUnload
<1>3. CASE InstantiateStep
  <2>1. CASE ImportsOk \/ ImportsFail BY <1>0, <2>1, OwnImports DEF Careful
  <2>2. CASE MemoryOk BY <1>0, <2>2, OwnMemory
  <2>3. CASE TablesOk BY <1>0, <2>3, OwnTable
  <2>4. CASE ApplyElements \/ ApplyData
    BY <1>0, <2>4, FlagEffect, OwnSame DEF ApplyElements, ApplyData, Registry
  <2>5. CASE Instantiated
    BY <1>0, <2>5, InstantiatedEffect, OwnSame DEF Instantiated, Registry
  <2>6. QED BY <1>1, <1>3, <2>1, <2>2, <2>3, <2>4, <2>5
        DEF InstantiateStep, MemoryFails, TablesFail, RunStart, InstantiateReturns, Enter, Registry
<1>4. CASE GuestStep
  <2>1. CASE TableGrow BY <1>0, <2>1, OwnTableGrow
  <2>2. ASSUME NEW delta \in 1 .. kMaxLinearMemory, GrowInPlace(delta) PROVE OwnInv'
    BY <1>0, <2>2, OwnGrowInPlace
  <2>3. ASSUME NEW delta \in 1 .. kMaxLinearMemory, GrowMoves(delta) PROVE OwnInv'
    BY <1>0, <2>3, OwnGrowMoves DEF Careful
  <2>4. ASSUME NEW v \in 0 .. 1, GlobalSet(v) PROVE OwnInv'
    BY <1>0, <2>4, GlobalEffect, OwnSame DEF GlobalSet
  <2>5. QED BY <1>1, <1>4, <2>1, <2>2, <2>3, <2>4 DEF GuestStep, Trap, CallImport, Return
<1>5. QED BY <1>2, <1>3, <1>4 DEF Next

LEMMA OwnAlways == ASSUME CarefulHost PROVE Spec => [](CoreInv /\ Careful /\ OwnInv)
<1>1. Init => CoreInv /\ Careful /\ OwnInv
  <2> SUFFICES ASSUME Init PROVE CoreInv /\ Careful /\ OwnInv OBVIOUS
  <2>1. Loaded = {} /\ DOMAIN heap = {} /\ jump_tables = 0 BY DEF Init, Loaded
  <2>2. JumpTables = {} BY <2>1 DEF JumpTables
  <2>3. QED BY <2>1, <2>2, FS_EmptySet, CarefulInit DEF OwnInv, Owning, BlocksHeld
<1>2. CoreInv /\ Careful /\ OwnInv /\ [Next]_vars => CoreInv' /\ Careful' /\ OwnInv'
  <2> SUFFICES ASSUME CoreInv, Careful, OwnInv, [Next]_vars PROVE CoreInv' /\ Careful' /\ OwnInv'
    OBVIOUS
  <2>1. CASE Next BY <2>1, CoreStep, CarefulStep, OwnStep
  <2>2. CASE UNCHANGED vars
    <3>1. UNCHANGED <<modules, heap, jump_tables>> BY <2>2 DEF vars
    <3>2. OwnInv' BY <3>1, KeptAll, OwnSame DEF CoreInv
    <3>3. QED BY <2>2, <3>2, CoreStep, CarefulStep
  <2>3. QED BY <2>1, <2>2
<1>3. QED BY <1>1, <1>2, PTL DEF Spec

(* However often and wherever linking copied a pointer and a grow moved    *)
(* what it points at, each block has one module that frees it.             *)
THEOREM OwnerCorrect == ASSUME CarefulHost PROVE Spec => []OneOwner
<1>1. CoreInv /\ OwnInv => OneOwner BY OwnMeaning DEF CoreInv
<1>2. QED BY <1>1, OwnAlways, PTL

(* When every module is unloaded nothing of the pool is left in use.       *)
THEOREM UnloadCorrect == ASSUME CarefulHost PROVE Spec => []UnloadFrees
<1>1. CoreInv /\ OwnInv => UnloadFrees BY OwnMeaning DEF CoreInv
<1>2. QED BY <1>1, OwnAlways, PTL

-----------------------------------------------------------------------------
(* What was linked is what was declared. *)
LEMMA TablesLinkedKept ==
  ASSUME TableLinked, KeepsShape, KeepsTable
  PROVE  TableLinked'
BY DEF TableLinked, KeepsShape, KeepsTable

LEMMA TablesLinkedLoad ==
  ASSUME Typed, TableLinked, NEW load \in Binaries, LoadModule(load.name, load.binary)
  PROVE  TableLinked'
<1>1. PICK s \in Slots : /\ s \notin Loaded /\ Loaded' = Loaded \cup {s}
                         /\ modules'[s] = NewInstance(load.name, load.binary)
                         /\ \A t \in Slots : t # s => modules'[t] = modules[t]
  BY LoadEffect
<1> DEFINE n == NewInstance(load.name, load.binary)
<1>2. ~ n.table.shared BY DEF NewInstance
<1> HIDE DEF n
<1>3. \A u \in Loaded : u # s /\ modules'[u] = modules[u] BY <1>1 DEF Loaded
<1>4. QED BY <1>1, <1>2, <1>3 DEF TableLinked, n

LEMMA TablesLinkedImports ==
  ASSUME Typed, Views, NewInv, TableLinked, ImportsOk \/ ImportsFail
  PROVE  TableLinked'
<1>1. /\ call.slot \in Loaded /\ Mod \in Instance /\ Mod = modules[call.slot]
      /\ Loaded' = Loaded
      /\ \A t \in Slots : t # call.slot => modules'[t] = modules[t]
      /\ LinksTable(Mod, modules'[call.slot])
  BY ImportsEffect
<1>2. PICK s \in Loaded : s = call.slot BY <1>1
<1>3. IsNew(modules[s])
  <2>1. call.op = "imports" /\ ~ Mod.is_instantiated
    BY LoopSlot DEF ImportsOk, ImportsFail, At, LoopOps
  <2>2. QED BY <1>1, <1>2, <2>1 DEF NewInv, Untouched
<1>4. \A u \in Loaded : u # s => modules'[u] = modules[u] BY <1>1, <1>2 DEF Loaded
<1>5. \A u \in Loaded : modules[u].table.shared =>
        modules[u].table.from \in Loaded /\ modules[u].table.from # s
  BY <1>3 DEF TableLinked, Views, TableInv, IsNew
<1>6. CASE modules'[s].table = modules[s].table
  BY <1>1, <1>3, <1>4, <1>5, <1>6 DEF TableLinked, IsNew
<1>7. CASE modules'[s].table # modules[s].table
  <2>1. PICK t \in Loaded :
          /\ modules[t].table.ptr # Null
          /\ modules'[s].table = [modules[t].table EXCEPT !.shared = TRUE, !.from = t]
    BY <1>1, <1>2, <1>7 DEF LinksTable
  <2>2. modules[t].table \in Table BY LoadedInstance, InstanceFields
  <2>3. /\ modules'[s].table.ptr = modules[t].table.ptr
        /\ modules'[s].table.size = modules[t].table.size
        /\ modules'[s].table.from = t
    BY <2>1, <2>2 DEF Table
  <2>4. t # s BY <1>3, <2>1 DEF IsNew
  <2>5. QED BY <1>1, <1>4, <1>5, <2>3, <2>4 DEF TableLinked
<1>8. QED BY <1>6, <1>7

LEMMA TablesLinkedOk ==
  ASSUME Typed, Views, TableLinked, TablesOk
  PROVE  TableLinked'
<1>1. /\ call.slot \in Loaded /\ Mod \in Instance /\ Mod = modules[call.slot] /\ KeepsShape
      /\ \A t \in Slots : t # call.slot => modules'[t] = modules[t]
  BY TableEffect
<1>2. CASE modules' = modules BY <1>2, KeptAll, TablesLinkedKept
<1>3. CASE modules' # modules
  <2>1. NeedsTable(Mod) /\ \E a \in Free : modules'[call.slot].table = [Mod.table EXCEPT !.ptr = a]
    BY <1>3, TableEffect
  <2>2. PICK a \in Free : modules'[call.slot].table = [Mod.table EXCEPT !.ptr = a] BY <2>1
  <2>3. PICK s \in Loaded : s = call.slot BY <1>1
  <2>4. Mod.table \in Table /\ Mod.table.ptr = Null /\ ~ Mod.table.shared
    BY <1>1, <2>1, InstanceFields DEF Views, TableInv, NeedsTable
  <2>5. ~ modules'[s].table.shared BY <2>2, <2>3, <2>4 DEF Table
  <2>6. \A u \in Loaded : u # s => modules'[u] = modules[u] BY <1>1, <2>3 DEF Loaded
  <2>7. \A u \in Loaded : modules[u].table.shared =>
          modules[u].table.from \in Loaded /\ modules[u].table.from # s
    BY <1>1, <2>3, <2>4 DEF TableLinked, Views, TableInv
  <2>8. QED BY <1>1, <2>5, <2>6, <2>7 DEF TableLinked, KeepsShape
<1>4. QED BY <1>2, <1>3

LEMMA TablesLinkedGrow ==
  ASSUME Typed, Views, TableLinked, TableGrow
  PROVE  TableLinked'
<1> DEFINE n == modules[Top].table.size + 1
           old == modules[Top].table.ptr
           T == IF old = Null THEN {Top} ELSE {u \in Loaded : modules[u].table.ptr = old}
<1>1. KeepsShape /\ Top \in Loaded BY TableGrowEffect
<1>2. PICK a \in Free :
        \A s \in Loaded :
          modules'[s].table = IF s \in T THEN [modules[s].table EXCEPT !.ptr = a, !.size = n]
                              ELSE modules[s].table
  BY TableGrowEffect
<1>3. \A s \in Loaded : modules[s].table.shared =>
        /\ modules[s].table.from \in Loaded /\ (s \in T <=> modules[s].table.from \in T)
        /\ modules[s].table.ptr = modules[modules[s].table.from].table.ptr
        /\ modules[s].table.size = modules[modules[s].table.from].table.size
  BY DEF TableLinked, Views, TableInv
<1> HIDE DEF n, T
<1>4. \A s \in Loaded :
        /\ modules'[s].table.shared = modules[s].table.shared
        /\ modules'[s].table.from = modules[s].table.from
        /\ modules'[s].table.ptr = IF s \in T THEN a ELSE modules[s].table.ptr
        /\ modules'[s].table.size = IF s \in T THEN n ELSE modules[s].table.size
  <2>1. TAKE s \in Loaded
  <2>2. modules[s].table \in Table BY LoadedInstance, InstanceFields
  <2>3. QED BY <1>2, <2>2 DEF Table
<1>5. QED BY <1>1, <1>3, <1>4 DEF TableLinked, KeepsShape

GlobalInv ==
  \A s \in Loaded :
    LET m == modules[s] IN
    m.global_from # 0 =>
      /\ m.global_from \in Loaded
      /\ modules[m.global_from].binary.is_mutable = m.binary.is_mutable
      /\ ~ m.binary.is_mutable => modules[m.global_from].global = m.global

LEMMA GlobalsKept ==
  ASSUME GlobalInv, KeepsShape, KeepsGlobal
  PROVE  GlobalInv'
BY DEF GlobalInv, KeepsShape, KeepsGlobal

LEMMA GlobalsLoad ==
  ASSUME Typed, GlobalInv, NEW load \in Binaries, LoadModule(load.name, load.binary)
  PROVE  GlobalInv'
<1>1. PICK s \in Slots : /\ s \notin Loaded /\ Loaded' = Loaded \cup {s}
                         /\ modules'[s] = NewInstance(load.name, load.binary)
                         /\ \A t \in Slots : t # s => modules'[t] = modules[t]
  BY LoadEffect
<1> DEFINE n == NewInstance(load.name, load.binary)
<1>2. n.global_from = 0 BY DEF NewInstance
<1> HIDE DEF n
<1>3. \A u \in Loaded : u # s /\ modules'[u] = modules[u] BY <1>1 DEF Loaded
<1>4. QED BY <1>1, <1>2, <1>3 DEF GlobalInv, n

LEMMA GlobalsImports ==
  ASSUME Typed, SourcesInv, GlobalInv, ImportsOk \/ ImportsFail
  PROVE  GlobalInv'
<1>1. /\ call.slot \in Loaded /\ Mod = modules[call.slot] /\ ~ Mod.is_instantiated
      /\ KeepsShape
      /\ \A t \in Slots : t # call.slot => modules'[t] = modules[t]
      /\ LinksGlobal(Mod, modules'[call.slot])
  BY ImportsEffect, LoopSlot DEF ImportsOk, ImportsFail, At, LoopOps
<1>2. PICK s \in Loaded : s = call.slot BY <1>1
<1>3. \A u \in Loaded : u # s => modules'[u] = modules[u] BY <1>1, <1>2 DEF Loaded
<1>4. \A u \in Loaded : u # s => modules[u].global_from # s
  BY <1>1, <1>2, Sizes DEF SourcesInv, Loaded
<1>5. \A u \in Loaded : modules'[u].binary = modules[u].binary BY <1>1 DEF KeepsShape
<1>6. CASE modules'[s].global = modules[s].global /\ modules'[s].global_from = modules[s].global_from
  BY <1>1, <1>3, <1>5, <1>6 DEF GlobalInv, KeepsShape
<1>7. ASSUME NEW t \in Loaded, modules[t].binary.is_mutable = Mod.binary.is_mutable,
             modules'[s].global = modules[t].global, modules'[s].global_from = t
      PROVE GlobalInv'
  <2>1. modules'[t].global = modules'[s].global BY <1>3, <1>7
  <2>2. modules'[t].binary.is_mutable = modules'[s].binary.is_mutable
    BY <1>1, <1>2, <1>5, <1>7
  <2>3. QED BY <1>1, <1>3, <1>4, <1>7, <2>1, <2>2 DEF GlobalInv, KeepsShape
<1>8. QED BY <1>1, <1>2, <1>6, <1>7 DEF LinksGlobal

LEMMA GlobalsSet ==
  ASSUME Typed, GlobalInv, NEW v \in 0 .. 1, GlobalSet(v)
  PROVE  GlobalInv'
<1>1. /\ Top \in Loaded /\ modules[Top].binary.is_mutable /\ KeepsShape
      /\ \A t \in Slots : t # Top => modules'[t] = modules[t]
      /\ \A s \in Loaded : modules'[s].global_from = modules[s].global_from
  BY GlobalEffect
<1>2. \A u \in Loaded : u # Top => modules'[u] = modules[u] BY <1>1 DEF Loaded
<1>3. \A s \in Loaded : ~ modules[s].binary.is_mutable => modules'[s] = modules[s]
  BY <1>1, <1>2
<1>4. QED BY <1>1, <1>3 DEF GlobalInv, KeepsShape

(* A memory within the limits of the module m. *)
Within(m, mem) ==
  /\ mem.size >= m.binary.min
  /\ m.binary.max # 0 => mem.max # 0 /\ mem.max <= m.binary.max
  /\ mem.max # 0 => mem.size <= mem.max

LimitInv ==
  /\ \A s, t \in Loaded :
       modules[s].memory.ptr # Null /\ modules[s].memory.ptr = modules[t].memory.ptr =>
         modules[s].memory.max = modules[t].memory.max
  /\ \A s \in Loaded :
       LET m == modules[s] IN
       /\ m.binary.max # 0 => m.binary.min <= m.binary.max
       /\ m.memory.ptr # Null => Within(m, m.memory)
       /\ m.memory.ptr = Null => m.memory.max = IF Imports(m, "memory") THEN 0 ELSE m.binary.max

LEMMA LimitsSame ==
  ASSUME LimitInv, KeepsShape, KeepsMemory
  PROVE  LimitInv'
BY DEF LimitInv, KeepsShape, KeepsMemory, Within, Imports

LEMMA LimitsLoad ==
  ASSUME Typed, LimitInv, NEW load \in Binaries, LoadModule(load.name, load.binary)
  PROVE  LimitInv'
<1>1. PICK s \in Slots : /\ s \notin Loaded /\ Loaded' = Loaded \cup {s}
                         /\ modules'[s] = NewInstance(load.name, load.binary)
                         /\ \A t \in Slots : t # s => modules'[t] = modules[t]
  BY LoadEffect
<1> DEFINE n == NewInstance(load.name, load.binary)
<1>2. /\ n.memory.ptr = Null /\ n.memory.max = IF Imports(n, "memory") THEN 0 ELSE n.binary.max
      /\ n.binary = load.binary
  BY DEF NewInstance, Imports
<1>3. load.binary.max # 0 => load.binary.min <= load.binary.max BY ModulesAssumption
<1> HIDE DEF n
<1>4. modules'[s] = n BY <1>1 DEF n
<1>5. \A u \in Loaded : u # s /\ modules'[u] = modules[u] BY <1>1 DEF Loaded
<1>6. QED BY <1>1, <1>2, <1>3, <1>4, <1>5 DEF LimitInv

LEMMA LimitsImports ==
  ASSUME Typed, LimitInv, ImportsOk \/ ImportsFail
  PROVE  LimitInv'
<1>1. /\ call.slot \in Loaded /\ Mod \in Instance /\ Mod = modules[call.slot] /\ KeepsShape
      /\ \A t \in Slots : t # call.slot => modules'[t] = modules[t]
      /\ LinksMemory(Mod, modules'[call.slot])
  BY ImportsEffect
<1>2. PICK s \in Loaded : s = call.slot BY <1>1
<1>3. \A u \in Loaded : u # s => modules'[u] = modules[u] BY <1>1, <1>2 DEF Loaded
<1>4. CASE modules'[s].memory = modules[s].memory
  <2>1. KeepsMemory BY <1>3, <1>4 DEF KeepsMemory
  <2>2. QED BY <1>1, <2>1, LimitsSame
<1>5. CASE modules'[s].memory # modules[s].memory
  <2>1. PICK t \in Loaded :
          /\ modules[s].memory.ptr = Null /\ modules[t].memory.ptr # Null
          /\ Compatible(modules[s].binary.min, modules[s].binary.max,
                        modules[t].memory.size, modules[t].memory.max)
          /\ modules'[s].memory = [modules[t].memory EXCEPT !.shared = TRUE, !.from = t]
    BY <1>1, <1>2, <1>5 DEF LinksMemory
  <2>2. modules[t].memory \in Memory BY LoadedInstance, InstanceFields
  <2>3. /\ modules'[s].memory.ptr = modules[t].memory.ptr
        /\ modules'[s].memory.size = modules[t].memory.size
        /\ modules'[s].memory.max = modules[t].memory.max
    BY <2>1, <2>2 DEF Memory
  <2>4. \A u \in Loaded : modules'[u].binary = modules[u].binary BY <1>1 DEF KeepsShape
  <2>5. t # s BY <2>1
  <2>6. Within(modules'[s], modules'[s].memory)
    <3>1. Within(modules[t], modules[t].memory) BY <2>1 DEF LimitInv
    <3>2. QED BY <2>1, <2>3, <2>4, <3>1 DEF Within, Compatible
  <2>7. \A u \in Loaded : modules'[u].memory.ptr # Null => Within(modules'[u], modules'[u].memory)
    BY <1>3, <2>6 DEF LimitInv
  <2>8. \A u, v \in Loaded :
          modules'[u].memory.ptr # Null /\ modules'[u].memory.ptr = modules'[v].memory.ptr =>
            modules'[u].memory.max = modules'[v].memory.max
    <3>1. \A u \in Loaded : /\ modules'[u].memory.ptr = modules[IF u = s THEN t ELSE u].memory.ptr
                            /\ modules'[u].memory.max = modules[IF u = s THEN t ELSE u].memory.max
      BY <1>3, <2>3
    <3>2. QED BY <3>1 DEF LimitInv
  <2>9. modules'[s].memory.ptr # Null BY <2>1, <2>3
  <2>10. QED BY <1>1, <1>3, <2>4, <2>7, <2>8, <2>9 DEF LimitInv, KeepsShape
<1>6. QED BY <1>4, <1>5

LEMMA LimitsMemory ==
  ASSUME Typed, Views, LimitInv, MemoryOk
  PROVE  LimitInv'
<1>1. /\ call.slot \in Loaded /\ Mod \in Instance /\ Mod = modules[call.slot] /\ KeepsShape
      /\ \A t \in Slots : t # call.slot => modules'[t] = modules[t]
  BY MemoryEffect
<1>2. CASE modules' = modules BY <1>2, KeptAll, LimitsSame
<1>3. CASE modules' # modules
  <2>1. OwnsMemory(Mod) /\ Mod.memory.ptr = Null /\ \E a \in Free :
          modules'[call.slot].memory =
            [Mod.memory EXCEPT !.ptr = a, !.size = Mod.binary.min, !.capacity = Mod.binary.min]
    BY <1>3, MemoryEffect
  <2>2. PICK a \in Free : modules'[call.slot].memory =
          [Mod.memory EXCEPT !.ptr = a, !.size = Mod.binary.min, !.capacity = Mod.binary.min]
    BY <2>1
  <2>3. PICK s \in Loaded : s = call.slot BY <1>1
  <2>4. Mod.memory \in Memory /\ Mod.binary \in BinaryType BY <1>1, InstanceFields
  <2>5. /\ modules'[s].memory.ptr = a /\ modules'[s].memory.size = modules[s].binary.min
        /\ modules'[s].memory.max = modules[s].memory.max
    BY <1>1, <2>2, <2>3, <2>4 DEF Memory
  <2>6. \A u \in Loaded : u # s => modules'[u] = modules[u] BY <1>1, <2>3 DEF Loaded
  <2>7. \A u \in Loaded : modules'[u].binary = modules[u].binary BY <1>1 DEF KeepsShape
  <2>8. a # Null /\ \A u \in Loaded : modules[u].memory.ptr # a BY FreshBlock, NotHeld, PtrValues
  <2>9. Within(modules'[s], modules'[s].memory)
    <3>1. modules[s].memory.max = modules[s].binary.max
      BY <1>1, <2>1, <2>3 DEF LimitInv, OwnsMemory
    <3>2. modules[s].binary.min \in Nat /\ modules[s].binary.max \in Nat
      BY <1>1, <2>3, <2>4, BinaryFields
    <3>3. modules[s].binary.max # 0 => modules[s].binary.min <= modules[s].binary.max
      BY DEF LimitInv
    <3>4. QED BY <2>5, <2>7, <3>1, <3>2, <3>3 DEF Within
  <2>10. \A u \in Loaded : modules'[u].memory.ptr # Null => Within(modules'[u], modules'[u].memory)
    BY <2>6, <2>9 DEF LimitInv
  <2>11. \A u, v \in Loaded :
           modules'[u].memory.ptr # Null /\ modules'[u].memory.ptr = modules'[v].memory.ptr =>
             modules'[u].memory.max = modules'[v].memory.max
    BY <2>5, <2>6, <2>8 DEF LimitInv
  <2>12. QED BY <1>1, <2>5, <2>6, <2>7, <2>8, <2>10, <2>11 DEF LimitInv, KeepsShape
<1>4. QED BY <1>2, <1>3

(* What a grow makes of the memory of the module that runs, and of all     *)
(* that share it.                                                          *)
LEMMA LimitsGrown ==
  ASSUME Typed, Views, CacheFresh, LimitInv, Running, regs.ptr # Null, KeepsShape,
         NEW size \in Nat, size > regs.size, regs.max # 0 => size <= regs.max,
         NEW p, p = regs.ptr \/ \A u \in Loaded : modules[u].memory.ptr # p, p # Null,
         \A u \in Loaded :
           IF modules[u].memory.ptr = regs.ptr
             THEN /\ modules'[u].memory.ptr = p /\ modules'[u].memory.size = size
                  /\ modules'[u].memory.max = modules[u].memory.max
             ELSE modules'[u].memory = modules[u].memory
  PROVE  LimitInv'
<1>1. Top \in Loaded BY RunningTop
<1>2. /\ regs.ptr = modules[Top].memory.ptr /\ regs.size = modules[Top].memory.size
      /\ regs.max = modules[Top].memory.max
  BY DEF CacheFresh, Regs
<1>3. \A u \in Loaded : modules'[u].binary = modules[u].binary BY DEF KeepsShape
<1>4. \A u \in Loaded : modules'[u].memory.max = modules[u].memory.max OBVIOUS
<1>5. \A u, v \in Loaded :
        modules'[u].memory.ptr # Null /\ modules'[u].memory.ptr = modules'[v].memory.ptr =>
          modules'[u].memory.max = modules'[v].memory.max
  <2>1. TAKE u, v \in Loaded
  <2>2. HAVE modules'[u].memory.ptr # Null /\ modules'[u].memory.ptr = modules'[v].memory.ptr
  <2>3. modules[u].memory.ptr = modules[v].memory.ptr /\ modules[u].memory.ptr # Null BY <2>2
  <2>4. QED BY <1>4, <2>3 DEF LimitInv
<1>6. \A u \in Loaded : modules'[u].memory.ptr # Null => Within(modules'[u], modules'[u].memory)
  <2>1. TAKE u \in Loaded
  <2>2. CASE modules[u].memory.ptr = regs.ptr
    <3>1. modules[u].memory.size = regs.size /\ modules[u].memory.max = regs.max
      BY <1>1, <1>2, <2>2 DEF Views, MemoryInv, LimitInv
    <3>2. Within(modules[u], modules[u].memory) BY <2>2 DEF LimitInv
    <3>3. /\ regs.size \in Nat /\ modules[u].binary.min \in Nat /\ modules[u].binary.max \in Nat
      BY RegsFields, LoadedInstance, InstanceFields, BinaryFields
    <3>4. modules'[u].memory.size = size /\ modules'[u].memory.max = regs.max BY <2>2, <3>1
    <3>5. /\ modules[u].binary.min <= size
          /\ modules[u].binary.max # 0 => regs.max # 0 /\ regs.max <= modules[u].binary.max
      BY <3>1, <3>2, <3>3 DEF Within
    <3>6. QED BY <1>3, <3>4, <3>5 DEF Within
  <2>3. CASE modules[u].memory.ptr # regs.ptr
    BY <1>3, <2>3 DEF LimitInv, Within
  <2>4. QED BY <2>2, <2>3
<1>7. \A u \in Loaded : modules'[u].memory.ptr = Null => modules[u].memory.ptr = Null OBVIOUS
<1>8. QED BY <1>3, <1>4, <1>5, <1>6, <1>7 DEF LimitInv, KeepsShape, Imports

LEMMA LimitsGrowInPlace ==
  ASSUME Typed, Views, CacheFresh, LinkInv, RunsInstantiated, LimitInv,
         NEW delta \in 1 .. kMaxLinearMemory, GrowInPlace(delta)
  PROVE  LimitInv'
<1> DEFINE size == regs.size + delta
<1>1. /\ KeepsShape /\ size \in Nat /\ size > regs.size /\ (regs.max # 0 => size <= regs.max)
      /\ \A s \in Loaded :
           modules'[s].memory = IF s \in Sharing(regs.ptr)
                                  THEN [modules[s].memory EXCEPT !.size = size]
                                  ELSE modules[s].memory
  BY GrowInPlaceEffect
<1>2. Running /\ regs.ptr # Null BY TopMemory DEF GrowInPlace
<1> HIDE DEF size
<1>3. \A u \in Loaded :
        IF modules[u].memory.ptr = regs.ptr
          THEN /\ modules'[u].memory.ptr = regs.ptr /\ modules'[u].memory.size = size
               /\ modules'[u].memory.max = modules[u].memory.max
          ELSE modules'[u].memory = modules[u].memory
  <2>1. TAKE u \in Loaded
  <2>2. modules[u].memory \in Memory BY LoadedInstance, InstanceFields
  <2>3. QED BY <1>1, <2>2 DEF Memory, Sharing
<1>4. QED BY <1>1, <1>2, <1>3, LimitsGrown

LEMMA LimitsGrowMoves ==
  ASSUME Typed, Views, CacheFresh, LinkInv, RunsInstantiated, LimitInv,
         NEW delta \in 1 .. kMaxLinearMemory, GrowMoves(delta)
  PROVE  LimitInv'
<1> DEFINE size == regs.size + delta
           capacity == NewCapacity(size)
<1>1. KeepsShape /\ size \in Nat /\ size > regs.size /\ (regs.max # 0 => size <= regs.max)
  BY GrowMovesEffect
<1>2. PICK a \in Free :
        \A s \in Loaded :
          modules'[s].memory =
            IF s \in Sharing(regs.ptr)
              THEN [modules[s].memory EXCEPT !.ptr = a, !.size = size, !.capacity = capacity]
              ELSE modules[s].memory
  BY GrowMovesEffect
<1>3. Running /\ regs.ptr # Null BY TopMemory DEF GrowMoves
<1> HIDE DEF size, capacity
<1>4. \A u \in Loaded :
        IF modules[u].memory.ptr = regs.ptr
          THEN /\ modules'[u].memory.ptr = a /\ modules'[u].memory.size = size
               /\ modules'[u].memory.max = modules[u].memory.max
          ELSE modules'[u].memory = modules[u].memory
  <2>1. TAKE u \in Loaded
  <2>2. modules[u].memory \in Memory BY LoadedInstance, InstanceFields
  <2>3. QED BY <1>2, <2>2 DEF Memory, Sharing
<1>5. a # Null /\ \A u \in Loaded : modules[u].memory.ptr # a BY FreshBlock, NotHeld, PtrValues
<1>6. QED BY <1>1, <1>3, <1>4, <1>5, LimitsGrown

DeclaredInv == TableLinked /\ GlobalInv /\ LimitInv

LEMMA DeclaredKept ==
  ASSUME DeclaredInv, KeepsShape, KeepsMemory, KeepsTable, KeepsGlobal
  PROVE  DeclaredInv'
BY TablesLinkedKept, GlobalsKept, LimitsSame DEF DeclaredInv

LEMMA DeclaredStep ==
  ASSUME CarefulHost, CoreInv, Careful, DeclaredInv, Next
  PROVE  DeclaredInv'
<1>0. Typed /\ Views /\ CacheFresh BY DEF CoreInv
<1>1. ASSUME modules' = modules PROVE DeclaredInv' BY <1>0, <1>1, KeptAll, DeclaredKept
<1>2. CASE HostStep
  <2>1. ASSUME NEW load \in Binaries, LoadModule(load.name, load.binary) PROVE DeclaredInv'
    BY <1>0, <2>1, TablesLinkedLoad, GlobalsLoad, LimitsLoad DEF DeclaredInv
  <2>2. CASE UnloadAllModules
    <3>1. Loaded' = {} BY <2>2 DEF UnloadAllModules, Loaded
    <3>2. QED BY <3>1 DEF DeclaredInv, TableLinked, GlobalInv, LimitInv
  <2>3. QED BY <1>0, <1>1, <1>2, <2>1, <2>2, HostActs
<1>3. CASE InstantiateStep
  <2>1. CASE ImportsOk \/ ImportsFail
    BY <1>0, <2>1, TablesLinkedImports, GlobalsImports, LimitsImports DEF Careful, DeclaredInv
  <2>2. CASE MemoryOk
    BY <1>0, <2>2, MemoryEffect, TablesLinkedKept, GlobalsKept, LimitsMemory DEF DeclaredInv
  <2>3. CASE TablesOk
    BY <1>0, <2>3, TableEffect, TablesLinkedOk, GlobalsKept, LimitsSame DEF DeclaredInv
  <2>4. CASE ApplyElements \/ ApplyData BY <1>0, <2>4, FlagEffect, DeclaredKept
  <2>5. CASE Instantiated BY <1>0, <2>5, InstantiatedEffect, DeclaredKept
  <2>6. QED BY <1>1, <1>3, <2>1, <2>2, <2>3, <2>4, <2>5
        DEF InstantiateStep, MemoryFails, TablesFail, RunStart, InstantiateReturns, Enter
<1>4. CASE GuestStep
  <2>1. CASE TableGrow
    BY <1>0, <2>1, TableGrowEffect, TablesLinkedGrow, GlobalsKept, LimitsSame DEF DeclaredInv
  <2>2. ASSUME NEW delta \in 1 .. kMaxLinearMemory, GrowInPlace(delta) PROVE DeclaredInv'
    BY <1>0, <2>2, GrowInPlaceEffect, TablesLinkedKept, GlobalsKept, LimitsGrowInPlace
    DEF DeclaredInv, Careful
  <2>3. ASSUME NEW delta \in 1 .. kMaxLinearMemory, GrowMoves(delta) PROVE DeclaredInv'
    BY <1>0, <2>3, GrowMovesEffect, TablesLinkedKept, GlobalsKept, LimitsGrowMoves
    DEF DeclaredInv, Careful
  <2>4. ASSUME NEW v \in 0 .. 1, GlobalSet(v) PROVE DeclaredInv'
    BY <1>0, <2>4, GlobalEffect, TablesLinkedKept, GlobalsSet, LimitsSame DEF DeclaredInv
  <2>5. QED BY <1>1, <1>4, <2>1, <2>2, <2>3, <2>4 DEF GuestStep, Trap, CallImport, Return
<1>5. QED BY <1>2, <1>3, <1>4 DEF Next

LEMMA DeclaredMeaning ==
  ASSUME CoreInv, Careful, DeclaredInv
  PROVE  LinkedAsDeclared
<1>1. ConstantsLinked
  BY DEF ConstantsLinked, Careful, LinkInv, Resolved, DeclaredInv, GlobalInv
<1>2. LimitsKept
  <2> SUFFICES ASSUME NEW s \in Loaded, modules[s].is_instantiated,
                      "memory" \in modules[s].binary.has
      PROVE  LET m == modules[s] IN
             /\ m.memory.size >= m.binary.min
             /\ m.binary.max # 0 => m.memory.size <= m.binary.max
    BY DEF LimitsKept
  <2>1. modules[s].memory.ptr # Null BY DEF Careful, LinkInv, Whole
  <2>2. Within(modules[s], modules[s].memory) BY <2>1 DEF DeclaredInv, LimitInv
  <2>3. /\ modules[s].memory.size \in Nat /\ modules[s].memory.max \in Nat
        /\ modules[s].binary.max \in Nat
    BY LoadedInstance, InstanceFields, MemoryFields, BinaryFields DEF CoreInv
  <2>4. QED BY <2>2, <2>3 DEF Within
<1>3. QED BY <1>1, <1>2 DEF LinkedAsDeclared, DeclaredInv

(* What a module imported stays the exporter's and of the type it asked    *)
(* for: tables are one table after every grow, a constant has the value    *)
(* the exporter gave it, and memories keep within the limits declared, for *)
(* any chain of modules that import from each other.                       *)
THEOREM LinkedCorrect == ASSUME CarefulHost PROVE Spec => []LinkedAsDeclared
<1>1. Init => DeclaredInv
  <2> SUFFICES ASSUME Init PROVE DeclaredInv OBVIOUS
  <2>1. Loaded = {} BY DEF Init, Loaded
  <2>2. QED BY <2>1 DEF DeclaredInv, TableLinked, GlobalInv, LimitInv
<1>2. CoreInv /\ Careful /\ DeclaredInv /\ [Next]_vars => DeclaredInv'
  <2> SUFFICES ASSUME CoreInv, Careful, DeclaredInv, [Next]_vars PROVE DeclaredInv' OBVIOUS
  <2>1. CASE Next BY <2>1, DeclaredStep
  <2>2. CASE UNCHANGED vars
    <3>1. modules' = modules BY <2>2 DEF vars
    <3>2. QED BY <3>1, KeptAll, DeclaredKept DEF CoreInv
  <2>3. QED BY <2>1, <2>2
<1>3. CoreInv /\ Careful /\ DeclaredInv => LinkedAsDeclared BY DeclaredMeaning
<1>4. QED BY <1>1, <1>2, <1>3, OwnAlways, PTL DEF Spec
-----------------------------------------------------------------------------
(* The object of a slot of L with pointers p and copies sh: who owns the   *)
(* block.                                                                  *)
OwnersOf(L, p, sh, s) == {t \in L : ~ sh[t] /\ p[t] = p[s]}
ObjectOf(L, p, sh, s) == IF p[s] = Null THEN 0 ELSE MinOf(OwnersOf(L, p, sh, s))

LEMMA ObjectIs ==
  ASSUME NEW L, L \subseteq Slots, NEW p, NEW sh, Owning(L, p, sh),
         NEW s \in L, NEW t \in L, p[s] # Null, p[t] = p[s], ~ sh[t]
  PROVE  ObjectOf(L, p, sh, s) = t
<1>1. OwnersOf(L, p, sh, s) = {t} BY DEF Owning, OwnersOf
<1>2. OwnersOf(L, p, sh, s) \in SUBSET Nat BY Sizes DEF OwnersOf
<1>3. MinOf(OwnersOf(L, p, sh, s)) \in OwnersOf(L, p, sh, s) BY <1>1, <1>2, LeastOf
<1>4. QED BY <1>1, <1>3 DEF ObjectOf

LEMMA OwnerExists ==
  ASSUME NEW L, L \subseteq Slots, NEW p, NEW sh, Owning(L, p, sh), NEW s \in L, p[s] # Null
  PROVE  \E t \in L : p[t] = p[s] /\ ~ sh[t] /\ ObjectOf(L, p, sh, s) = t
<1>1. PICK t \in L : p[t] = p[s] /\ ~ sh[t] BY DEF Owning
<1>2. QED BY <1>1, ObjectIs

LEMMA ObjectTyped ==
  ASSUME NEW L, L \subseteq Slots, NEW p, NEW sh, Owning(L, p, sh), NEW s \in L
  PROVE  /\ ObjectOf(L, p, sh, s) \in L \cup {0}
         /\ ObjectOf(L, p, sh, s) = 0 <=> p[s] = Null
<1>1. CASE p[s] = Null BY <1>1 DEF ObjectOf
<1>2. CASE p[s] # Null
  <2>1. PICK t \in L : ObjectOf(L, p, sh, s) = t BY <1>2, OwnerExists
  <2>2. t # 0 BY Sizes
  <2>3. QED BY <1>2, <2>1, <2>2
<1>3. QED BY <1>1, <1>2

(* Two slots have one object when they have one pointer.                   *)
LEMMA ObjectShared ==
  ASSUME NEW L, L \subseteq Slots, NEW p, NEW sh, Owning(L, p, sh), NEW s \in L, p[s] # Null,
         NEW u \in L
  PROVE  ObjectOf(L, p, sh, u) = ObjectOf(L, p, sh, s) <=> p[u] = p[s]
<1>1. PICK t \in L : p[t] = p[s] /\ ~ sh[t] /\ ObjectOf(L, p, sh, s) = t BY OwnerExists
<1>2. ASSUME p[u] = p[s] PROVE ObjectOf(L, p, sh, u) = t BY <1>1, <1>2, ObjectIs
<1>3. ASSUME ObjectOf(L, p, sh, u) = t PROVE p[u] = p[s]
  <2>1. p[u] # Null
    <3>1. t # 0 BY Sizes
    <3>2. QED BY <1>3, <3>1, ObjectTyped
  <2>2. QED BY <1>1, <1>3, <2>1, OwnerExists
<1>4. QED BY <1>1, <1>2, <1>3

LEMMA ObjectSame ==
  ASSUME NEW L, NEW p, NEW sh, NEW q, NEW sq, \A u \in L : q[u] = p[u] /\ sq[u] = sh[u],
         NEW s \in L
  PROVE  ObjectOf(L, q, sq, s) = ObjectOf(L, p, sh, s)
<1>1. OwnersOf(L, q, sq, s) = OwnersOf(L, p, sh, s) BY DEF OwnersOf
<1>2. QED BY <1>1 DEF ObjectOf

LEMMA ObjectLoaded ==
  ASSUME NEW L, NEW p, NEW sh, NEW q, NEW sq, NEW n, n \notin L,
         \A u \in L : q[u] = p[u] /\ sq[u] = sh[u], q[n] = Null, NEW s \in L \cup {n}
  PROVE  /\ s = n => ObjectOf(L \cup {n}, q, sq, s) = 0
         /\ s # n => ObjectOf(L \cup {n}, q, sq, s) = ObjectOf(L, p, sh, s)
<1>1. CASE s = n BY <1>1 DEF ObjectOf
<1>2. CASE s # n /\ p[s] = Null BY <1>2 DEF ObjectOf
<1>3. CASE s # n /\ p[s] # Null
  <2>1. OwnersOf(L \cup {n}, q, sq, s) = OwnersOf(L, p, sh, s) BY <1>3 DEF OwnersOf
  <2>2. QED BY <1>3, <2>1 DEF ObjectOf
<1>4. QED BY <1>1, <1>2, <1>3

(* s gets a copy of what t has.                                            *)
LEMMA ObjectLinked ==
  ASSUME NEW L, L \subseteq Slots, NEW p, NEW sh, NEW q, NEW sq, NEW s \in L, NEW t \in L,
         Owning(L, p, sh), \A u \in L : u # s => q[u] = p[u] /\ sq[u] = sh[u],
         p[s] = Null, p[t] # Null, q[s] = p[t], sq[s], NEW u \in L
  PROVE  ObjectOf(L, q, sq, u) = IF u = s THEN ObjectOf(L, p, sh, t) ELSE ObjectOf(L, p, sh, u)
<1>1. Owning(L, q, sq) BY OwningLinked
<1>2. CASE u = s
  <2>1. PICK w \in L : p[w] = p[t] /\ ~ sh[w] /\ ObjectOf(L, p, sh, t) = w BY OwnerExists
  <2>2. w # s BY <2>1
  <2>3. q[w] = q[s] /\ ~ sq[w] /\ q[s] # Null BY <2>1, <2>2
  <2>4. QED BY <1>1, <1>2, <2>1, <2>3, ObjectIs
<1>3. CASE u # s /\ p[u] = Null BY <1>3 DEF ObjectOf
<1>4. CASE u # s /\ p[u] # Null
  <2>1. PICK w \in L : p[w] = p[u] /\ ~ sh[w] /\ ObjectOf(L, p, sh, u) = w BY <1>4, OwnerExists
  <2>2. w # s BY <1>4, <2>1
  <2>3. q[w] = q[u] /\ ~ sq[w] /\ q[u] # Null BY <1>4, <2>1, <2>2
  <2>4. QED BY <1>1, <1>4, <2>1, <2>3, ObjectIs
<1>5. QED BY <1>2, <1>3, <1>4

(* s gets a block of its own.                                              *)
LEMMA ObjectMade ==
  ASSUME NEW L, L \subseteq Slots, NEW p, NEW sh, NEW q, NEW sq, NEW s \in L, NEW a, a # Null,
         Owning(L, p, sh), \A u \in L : u # s => q[u] = p[u] /\ sq[u] = sh[u],
         \A u \in L : p[u] # a, p[s] = Null, q[s] = a, ~ sq[s], NEW u \in L
  PROVE  ObjectOf(L, q, sq, u) = IF u = s THEN s ELSE ObjectOf(L, p, sh, u)
<1>1. Owning(L, q, sq) BY OwningAllocated
<1>2. CASE u = s BY <1>1, <1>2, ObjectIs
<1>3. CASE u # s /\ p[u] = Null BY <1>3 DEF ObjectOf
<1>4. CASE u # s /\ p[u] # Null
  <2>1. PICK w \in L : p[w] = p[u] /\ ~ sh[w] /\ ObjectOf(L, p, sh, u) = w BY <1>4, OwnerExists
  <2>2. w # s BY <1>4, <2>1
  <2>3. q[w] = q[u] /\ ~ sq[w] /\ q[u] # Null BY <1>4, <2>1, <2>2
  <2>4. QED BY <1>1, <1>4, <2>1, <2>3, ObjectIs
<1>5. QED BY <1>2, <1>3, <1>4

-----------------------------------------------------------------------------
(* What the store sees of a slot.                                          *)
MemoryObject(s) == ObjectOf(Loaded, MemoryPtrs, MemoryCopies, s)
TableObject(s) == ObjectOf(Loaded, TablePtrs, TableCopies, s)
TableSize(s) == IF TablePtrs[s] = Null THEN 0 ELSE modules[s].table.size

LEMMA LoadedSlots == Loaded \subseteq Slots /\ Loaded' \subseteq Slots
BY DEF Loaded

LEMMA ObjectOfLoaded ==
  ASSUME NEW s \in Loaded
  PROVE  /\ Object(s) = [memory |-> MemoryObject(s), table |-> TableObject(s)]
         /\ Size(s) = [memory |-> modules[s].memory.size, table |-> TableSize(s)]
<1>1. OwnersOf(Loaded, MemoryPtrs, MemoryCopies, s) = Owners(s, "memory")
  BY DEF OwnersOf, Owners, MemoryPtrs, MemoryCopies
<1>2. OwnersOf(Loaded, TablePtrs, TableCopies, s) = Owners(s, "table")
  BY DEF OwnersOf, Owners, TablePtrs, TableCopies
<1>3. MemoryPtrs[s] = modules[s].memory.ptr /\ TablePtrs[s] = modules[s].table.ptr
  BY PtrValues
<1>4. QED BY <1>1, <1>2, <1>3 DEF Object, Size, MemoryObject, TableObject, ObjectOf, TableSize

LEMMA ObjectOfLoadedNext ==
  ASSUME NEW s \in Loaded'
  PROVE  /\ Object(s)' = [memory |-> MemoryObject(s)', table |-> TableObject(s)']
         /\ Size(s)' = [memory |-> modules'[s].memory.size, table |-> TableSize(s)']
<1>1. OwnersOf(Loaded', MemoryPtrs', MemoryCopies', s) = Owners(s, "memory")'
  BY DEF OwnersOf, Owners, MemoryPtrs, MemoryCopies
<1>2. OwnersOf(Loaded', TablePtrs', TableCopies', s) = Owners(s, "table")'
  BY DEF OwnersOf, Owners, TablePtrs, TableCopies
<1>3. MemoryPtrs'[s] = modules'[s].memory.ptr /\ TablePtrs'[s] = modules'[s].table.ptr
  BY PtrValuesNext
<1>4. QED BY <1>1, <1>2, <1>3 DEF Object, Size, MemoryObject, TableObject, ObjectOf, TableSize

LEMMA ObjectOfNone ==
  ASSUME NEW s, s \notin Loaded
  PROVE  /\ Object(s) = [memory |-> 0, table |-> 0] /\ Size(s) = [memory |-> 0, table |-> 0]
         /\ Status(s) = "none"
<1>1. [k \in {"memory", "table"} |-> 0] = [memory |-> 0, table |-> 0] OBVIOUS
<1>2. QED BY <1>1 DEF Object, Size, Status

LEMMA ObjectOfNoneNext ==
  ASSUME NEW s, s \notin Loaded'
  PROVE  /\ Object(s)' = [memory |-> 0, table |-> 0] /\ Size(s)' = [memory |-> 0, table |-> 0]
         /\ Status(s)' = "none"
<1>1. [k \in {"memory", "table"} |-> 0] = [memory |-> 0, table |-> 0] OBVIOUS
<1>2. QED BY <1>1 DEF Object, Size, Status

(* What a step changes for the store, one slot and one kind at a time.     *)
SameMemory(s) == MemoryObject(s)' = MemoryObject(s) /\ modules'[s].memory.size = modules[s].memory.size
SameTable(s) == TableObject(s)' = TableObject(s) /\ TableSize(s)' = TableSize(s)

LEMMA SameSlots ==
  ASSUME Loaded' = Loaded, NEW s \in Slots, s \in Loaded => SameMemory(s) /\ SameTable(s)
  PROVE  Object(s)' = Object(s) /\ Size(s)' = Size(s)
<1>1. CASE s \in Loaded
  <2>1. SameMemory(s) /\ SameTable(s) BY <1>1
  <2>2. QED BY <1>1, <2>1, ObjectOfLoaded, ObjectOfLoadedNext DEF SameMemory, SameTable
<1>2. CASE s \notin Loaded BY <1>2, ObjectOfNone, ObjectOfNoneNext
<1>3. QED BY <1>1, <1>2

LEMMA SameStatus ==
  ASSUME Loaded' = Loaded, KeepsState
  PROVE  [s \in Slots |-> Status(s)]' = [s \in Slots |-> Status(s)]
<1>1. \A s \in Slots : Status(s)' = Status(s) BY DEF Status, KeepsState
<1>2. QED BY <1>1

LEMMA StoreSame ==
  ASSUME KeepsShape, KeepsState, \A s \in Loaded : SameMemory(s) /\ SameTable(s)
  PROVE  UNCHANGED <<[s \in Slots |-> Status(s)], [s \in Slots |-> Object(s)], [s \in Slots |-> Size(s)]>>
<1>1. Loaded' = Loaded BY DEF KeepsShape
<1>2. \A s \in Slots : Object(s)' = Object(s) /\ Size(s)' = Size(s) BY <1>1, SameSlots
<1>3. QED BY <1>1, <1>2, SameStatus

MadeMemory(s) == MemoryObject(s) = 0 /\ MemoryObject(s)' = s
MadeTable(s) == TableObject(s) = 0 /\ TableObject(s)' = s

LinkedMemory(s) ==
  /\ MemoryObject(s) = 0
  /\ \E t \in Loaded \ {s} : /\ MemoryObject(t) # 0 /\ MemoryObject(s)' = MemoryObject(t)
                             /\ modules'[s].memory.size = modules[t].memory.size

LinkedTable(s) ==
  /\ TableObject(s) = 0
  /\ \E t \in Loaded \ {s} : /\ TableObject(t) # 0 /\ TableObject(s)' = TableObject(t)
                             /\ TableSize(s)' = TableSize(t)

LEMMA ObjectsTypedNext ==
  ASSUME OwnInv', NEW s \in Slots
  PROVE  Object(s)' \in [Abstract!Shared -> Slots \cup {0}]
<1>1. CASE s \in Loaded'
  <2>1. MemoryObject(s)' \in Loaded' \cup {0}
    BY <1>1, LoadedSlots, ObjectTyped DEF OwnInv, MemoryObject
  <2>2. TableObject(s)' \in Loaded' \cup {0}
    BY <1>1, LoadedSlots, ObjectTyped DEF OwnInv, TableObject
  <2>3. QED BY <1>1, <2>1, <2>2, ObjectOfLoadedNext, LoadedSlots DEF Abstract!Shared
<1>2. CASE s \notin Loaded' BY <1>2, ObjectOfNoneNext DEF Abstract!Shared
<1>3. QED BY <1>1, <1>2

LEMMA Attaches ==
  ASSUME OwnInv', KeepsShape, KeepsState, NEW s \in Loaded,
         \A u \in Loaded : u # s => SameMemory(u) /\ SameTable(u),
         SameMemory(s) \/ MadeMemory(s) \/ LinkedMemory(s),
         SameTable(s) \/ MadeTable(s) \/ LinkedTable(s)
  PROVE  Abstract!Attach(s)
<1> DEFINE status == [u \in Slots |-> Status(u)]
           object == [u \in Slots |-> Object(u)]
           size == [u \in Slots |-> Size(u)]
<1>1. Loaded' = Loaded /\ s \in Slots BY LoadedSlots DEF KeepsShape
<1>2. status' = status BY <1>1, SameStatus
<1>3. status[s] # "none" BY <1>1 DEF Status
<1>4. object' \in [Slots -> [Abstract!Shared -> Slots \cup {0}]] BY ObjectsTypedNext
<1>5. \A u \in Slots \ {s} : object'[u] = object[u] /\ size'[u] = size[u]
  <2>1. TAKE u \in Slots \ {s}
  <2>2. Object(u)' = Object(u) /\ Size(u)' = Size(u) BY <1>1, SameSlots
  <2>3. QED BY <2>2
<1>6. \A u \in Loaded : /\ object[u]["memory"] = MemoryObject(u) /\ object[u]["table"] = TableObject(u)
                        /\ size[u]["memory"] = modules[u].memory.size
                        /\ size[u]["table"] = TableSize(u)
  BY LoadedSlots, ObjectOfLoaded
<1>7. /\ object'[s]["memory"] = MemoryObject(s)' /\ object'[s]["table"] = TableObject(s)'
      /\ size'[s]["memory"] = modules'[s].memory.size
      /\ size'[s]["table"] = TableSize(s)'
  BY <1>1, ObjectOfLoadedNext
<1> HIDE DEF status, object, size
<1>8. \/ object'[s]["memory"] = object[s]["memory"] /\ size'[s]["memory"] = size[s]["memory"]
      \/ (/\ object[s]["memory"] = 0
          /\ \/ object'[s]["memory"] = s
             \/ \E t \in Slots \ {s} : /\ object[t]["memory"] # 0
                                       /\ object'[s]["memory"] = object[t]["memory"]
                                       /\ size'[s]["memory"] = size[t]["memory"])
  BY <1>6, <1>7, LoadedSlots DEF SameMemory, MadeMemory, LinkedMemory
<1>9. \/ object'[s]["table"] = object[s]["table"] /\ size'[s]["table"] = size[s]["table"]
      \/ (/\ object[s]["table"] = 0
          /\ \/ object'[s]["table"] = s
             \/ \E t \in Slots \ {s} : /\ object[t]["table"] # 0
                                       /\ object'[s]["table"] = object[t]["table"]
                                       /\ size'[s]["table"] = size[t]["table"])
  BY <1>6, <1>7, LoadedSlots DEF SameTable, MadeTable, LinkedTable
<1>10. \A k \in Abstract!Shared :
         \/ object'[s][k] = object[s][k] /\ size'[s][k] = size[s][k]
         \/ (/\ object[s][k] = 0
             /\ \/ object'[s][k] = s
                \/ \E t \in Slots \ {s} : /\ object[t][k] # 0
                                          /\ object'[s][k] = object[t][k]
                                          /\ size'[s][k] = size[t][k])
  BY <1>8, <1>9 DEF Abstract!Shared
<1>11. QED
  BY <1>2, <1>3, <1>4, <1>5, <1>10 DEF Abstract!Attach, Abstract!Makes, Abstract!Links, status, object, size

LEMMA MemorySame ==
  ASSUME KeepsShape, KeepsMemory
  PROVE  \A s \in Loaded : SameMemory(s)
<1>1. Loaded' = Loaded BY DEF KeepsShape
<1>2. \A u \in Loaded : MemoryPtrs'[u] = MemoryPtrs[u] /\ MemoryCopies'[u] = MemoryCopies[u]
  BY PtrsSame
<1>3. ASSUME NEW s \in Loaded PROVE MemoryObject(s)' = MemoryObject(s)
  BY <1>1, <1>2, ObjectSame DEF MemoryObject
<1>4. QED BY <1>3 DEF SameMemory, KeepsMemory

LEMMA TableSame ==
  ASSUME KeepsShape, KeepsTable
  PROVE  \A s \in Loaded : SameTable(s)
<1>1. Loaded' = Loaded BY DEF KeepsShape
<1>2. \A u \in Loaded : TablePtrs'[u] = TablePtrs[u] /\ TableCopies'[u] = TableCopies[u]
  BY TablePtrsSame
<1>3. ASSUME NEW s \in Loaded PROVE TableObject(s)' = TableObject(s)
  BY <1>1, <1>2, ObjectSame DEF TableObject
<1>4. \A s \in Loaded : TableSize(s)' = TableSize(s) BY <1>2 DEF TableSize, KeepsTable
<1>5. QED BY <1>3, <1>4 DEF SameTable

LEMMA StoreStutters ==
  ASSUME KeepsShape, KeepsState, KeepsMemory, KeepsTable
  PROVE  UNCHANGED <<[s \in Slots |-> Status(s)], [s \in Slots |-> Object(s)], [s \in Slots |-> Size(s)]>>
BY MemorySame, TableSame, StoreSame

-----------------------------------------------------------------------------
(* The steps of the registry.                                              *)
LEMMA StoreLoad ==
  ASSUME Typed, NEW load \in Binaries, LoadModule(load.name, load.binary)
  PROVE  \E s \in Slots : Abstract!Load(s)
<1> DEFINE status == [u \in Slots |-> Status(u)]
           object == [u \in Slots |-> Object(u)]
           size == [u \in Slots |-> Size(u)]
           n == NewInstance(load.name, load.binary)
<1>1. PICK s \in Slots : /\ s \notin Loaded /\ Loaded' = Loaded \cup {s}
                         /\ modules'[s] = n
                         /\ \A t \in Slots : t # s => modules'[t] = modules[t]
  BY LoadEffect
<1>2. /\ n.memory.ptr = Null /\ n.memory.size = 0 /\ n.table.ptr = Null
      /\ n.is_instantiated = FALSE
  BY DEF NewInstance
<1> HIDE DEF n
<1>3. \A u \in Loaded : u # s /\ u \in Slots /\ modules'[u] = modules[u] /\ u \in Loaded'
  BY <1>1 DEF Loaded
<1>4. s \in Loaded' BY <1>1
<1>5. \A u \in Loaded : /\ MemoryPtrs'[u] = MemoryPtrs[u] /\ MemoryCopies'[u] = MemoryCopies[u]
                        /\ TablePtrs'[u] = TablePtrs[u] /\ TableCopies'[u] = TableCopies[u]
  BY <1>3, PtrValues, PtrValuesNext
<1>6. MemoryPtrs'[s] = Null /\ TablePtrs'[s] = Null
  BY <1>1, <1>2, <1>4, PtrValuesNext
<1>7. ASSUME NEW u \in Loaded'
      PROVE  /\ u = s => MemoryObject(u)' = 0 /\ TableObject(u)' = 0
             /\ u # s => MemoryObject(u)' = MemoryObject(u) /\ TableObject(u)' = TableObject(u)
  <2>1. u \in Loaded \cup {s} /\ s \notin Loaded BY <1>1, <1>7
  <2>2. /\ u = s => ObjectOf(Loaded \cup {s}, MemoryPtrs', MemoryCopies', u) = 0
        /\ u # s => ObjectOf(Loaded \cup {s}, MemoryPtrs', MemoryCopies', u)
                     = ObjectOf(Loaded, MemoryPtrs, MemoryCopies, u)
    <3>1. \A w \in Loaded : MemoryPtrs'[w] = MemoryPtrs[w] /\ MemoryCopies'[w] = MemoryCopies[w]
      BY <1>5
    <3>2. MemoryPtrs'[s] = Null BY <1>6
    <3>3. QED BY <2>1, <3>1, <3>2, ObjectLoaded
  <2>3. /\ u = s => ObjectOf(Loaded \cup {s}, TablePtrs', TableCopies', u) = 0
        /\ u # s => ObjectOf(Loaded \cup {s}, TablePtrs', TableCopies', u)
                     = ObjectOf(Loaded, TablePtrs, TableCopies, u)
    <3>1. \A w \in Loaded : TablePtrs'[w] = TablePtrs[w] /\ TableCopies'[w] = TableCopies[w]
      BY <1>5
    <3>2. TablePtrs'[s] = Null BY <1>6
    <3>3. QED BY <2>1, <3>1, <3>2, ObjectLoaded
  <2>4. QED BY <1>1, <2>2, <2>3 DEF MemoryObject, TableObject
<1>8. /\ Object(s)' = [memory |-> 0, table |-> 0] /\ Size(s)' = [memory |-> 0, table |-> 0]
      /\ Status(s)' = "loaded"
  <2>1. TableSize(s)' = 0 BY <1>6 DEF TableSize
  <2>2. Status(s)' = "loaded" BY <1>1, <1>2, <1>4 DEF Status
  <2>3. QED BY <1>1, <1>2, <1>4, <1>7, <2>1, <2>2, ObjectOfLoadedNext
<1>9. ASSUME NEW u \in Slots, u # s
      PROVE  Object(u)' = Object(u) /\ Size(u)' = Size(u) /\ Status(u)' = Status(u)
  <2>1. CASE u \in Loaded
    <3>1. TableSize(u)' = TableSize(u) BY <1>3, <1>5, <2>1 DEF TableSize
    <3>2. Status(u)' = Status(u) BY <1>3, <2>1 DEF Status
    <3>3. u \in Loaded' /\ modules'[u] = modules[u] BY <1>3, <2>1
    <3>4. QED BY <1>7, <1>9, <2>1, <3>1, <3>2, <3>3, ObjectOfLoaded, ObjectOfLoadedNext
  <2>2. CASE u \notin Loaded
    <3>1. u \notin Loaded' BY <1>1, <1>9, <2>2
    <3>2. QED BY <2>2, <3>1, ObjectOfNone, ObjectOfNoneNext
  <2>3. QED BY <2>1, <2>2
<1>10. Object(s)' = Object(s) /\ Size(s)' = Size(s) /\ Status(s) = "none"
  BY <1>1, <1>8, ObjectOfNone
<1>11. object' = object /\ size' = size
  <2>1. \A u \in Slots : Object(u)' = Object(u) /\ Size(u)' = Size(u) BY <1>9, <1>10
  <2>2. QED BY <2>1
<1>12. status' = [status EXCEPT ![s] = "loaded"] /\ status[s] = "none"
  BY <1>8, <1>9, <1>10
<1>13. QED BY <1>11, <1>12 DEF Abstract!Load

LEMMA StoreUnload ==
  ASSUME UnloadAllModules
  PROVE  Abstract!Unload
<1>1. Loaded' = {} BY DEF UnloadAllModules, Loaded
<1>2. \A s \in Slots : /\ Object(s)' = [k \in Abstract!Shared |-> 0]
                       /\ Size(s)' = [k \in Abstract!Shared |-> 0]
                       /\ Status(s)' = "none"
  BY <1>1 DEF Object, Size, Status, Abstract!Shared
<1>3. QED BY <1>2 DEF Abstract!Unload, Abstract!Nothing

LEMMA StoreInstantiated ==
  ASSUME Typed, Instantiated
  PROVE  \E s \in Slots : Abstract!Instantiate(s)
<1> DEFINE status == [u \in Slots |-> Status(u)]
           object == [u \in Slots |-> Object(u)]
           size == [u \in Slots |-> Size(u)]
<1>1. PICK s \in Loaded : s = call.slot BY InstantiatedEffect
<1>2. /\ KeepsShape /\ KeepsMemory /\ KeepsTable
      /\ modules'[s].is_instantiated /\ ~ modules[s].is_instantiated
      /\ \A t \in Slots : t # s => modules'[t] = modules[t]
  <2>1. ~ modules[s].is_instantiated BY <1>1, LoopSlot DEF Instantiated, At, LoopOps, Mod
  <2>2. QED BY <1>1, <2>1, InstantiatedEffect
<1>3. Loaded' = Loaded /\ s \in Slots BY <1>2, LoadedSlots DEF KeepsShape
<1>4. object' = object /\ size' = size
  <2>1. \A u \in Loaded : SameMemory(u) /\ SameTable(u) BY <1>2, MemorySame, TableSame
  <2>2. \A u \in Slots : Object(u)' = Object(u) /\ Size(u)' = Size(u) BY <1>3, <2>1, SameSlots
  <2>3. QED BY <2>2
<1>5. status[s] = "loaded" /\ status' = [status EXCEPT ![s] = "instantiated"]
  <2>1. Status(s) = "loaded" /\ Status(s)' = "instantiated" BY <1>2, <1>3 DEF Status
  <2>2. \A u \in Slots : u # s => Status(u)' = Status(u) BY <1>2, <1>3 DEF Status
  <2>3. QED BY <1>3, <2>1, <2>2
<1>6. QED BY <1>3, <1>4, <1>5 DEF Abstract!Instantiate

LEMMA OtherSlots ==
  ASSUME Loaded' = Loaded, NEW s \in Loaded, \A u \in Slots : u # s => modules'[u] = modules[u]
  PROVE  \A u \in Loaded : u # s =>
           /\ MemoryPtrs'[u] = MemoryPtrs[u] /\ MemoryCopies'[u] = MemoryCopies[u]
           /\ TablePtrs'[u] = TablePtrs[u] /\ TableCopies'[u] = TableCopies[u]
           /\ modules'[u] = modules[u]
<1>1. \A u \in Loaded : u # s => modules'[u] = modules[u] BY DEF Loaded
<1>2. QED BY <1>1, PtrValues, PtrValuesNext

(* ResolveImports links what its sources have, whether or not it succeeds. *)
LEMMA StoreImports ==
  ASSUME Typed, Views, NewInv, OwnInv, OwnInv', ImportsOk \/ ImportsFail
  PROVE  \E s \in Slots : Abstract!Attach(s)
<1>1. PICK s \in Loaded : s = call.slot BY ImportsEffect
<1>2. /\ Mod = modules[s] /\ Loaded' = Loaded /\ KeepsShape /\ KeepsState
      /\ \A t \in Slots : t # s => modules'[t] = modules[t]
      /\ LinksMemory(modules[s], modules'[s]) /\ LinksTable(modules[s], modules'[s])
  BY <1>1, ImportsEffect
<1>3. IsNew(modules[s])
  <2>1. call.op = "imports" /\ ~ Mod.is_instantiated
    BY LoopSlot DEF ImportsOk, ImportsFail, At, LoopOps
  <2>2. QED BY <1>1, <1>2, <2>1 DEF NewInv, Untouched
<1>4. MemoryPtrs[s] = Null /\ TablePtrs[s] = Null BY <1>3, PtrValues DEF IsNew
<1>5. MemoryObject(s) = 0 /\ TableObject(s) = 0 BY <1>4 DEF MemoryObject, TableObject, ObjectOf
<1>6. \A u \in Loaded : u # s =>
        /\ MemoryPtrs'[u] = MemoryPtrs[u] /\ MemoryCopies'[u] = MemoryCopies[u]
        /\ TablePtrs'[u] = TablePtrs[u] /\ TableCopies'[u] = TableCopies[u]
        /\ modules'[u] = modules[u]
  BY <1>2, OtherSlots
<1>7. /\ \A u \in Loaded : u # s => SameMemory(u)
      /\ SameMemory(s) \/ LinkedMemory(s)
  <2>1. CASE modules'[s].memory = modules[s].memory
    <3>1. MemoryPtrs'[s] = MemoryPtrs[s] /\ MemoryCopies'[s] = MemoryCopies[s]
      BY <1>2, <2>1, PtrValues, PtrValuesNext
    <3>2. \A u \in Loaded : MemoryObject(u)' = MemoryObject(u)
      BY <1>2, <1>6, <3>1, ObjectSame DEF MemoryObject
    <3>3. QED BY <1>6, <2>1, <3>2 DEF SameMemory
  <2>2. CASE modules'[s].memory # modules[s].memory
    <3>1. PICK t \in Loaded :
            /\ modules[t].memory.ptr # Null
            /\ modules'[s].memory = [modules[t].memory EXCEPT !.shared = TRUE, !.from = t]
      BY <1>2, <2>2 DEF LinksMemory
    <3>2. modules[t].memory \in Memory BY LoadedInstance, InstanceFields
    <3>3. /\ modules'[s].memory.ptr = modules[t].memory.ptr /\ modules'[s].memory.shared
          /\ modules'[s].memory.size = modules[t].memory.size
      BY <3>1, <3>2 DEF Memory
    <3>4. MemoryPtrs'[s] = MemoryPtrs[t] /\ MemoryPtrs[t] # Null /\ MemoryCopies'[s]
      BY <1>2, <3>1, <3>3, PtrValues, PtrValuesNext
    <3>5. t # s BY <1>4, <3>4
    <3>6. \A u \in Loaded :
            ObjectOf(Loaded, MemoryPtrs', MemoryCopies', u)
            = IF u = s THEN MemoryObject(t) ELSE MemoryObject(u)
      <4>1. Owning(Loaded, MemoryPtrs, MemoryCopies) BY DEF OwnInv
      <4>2. \A u \in Loaded : u # s =>
              MemoryPtrs'[u] = MemoryPtrs[u] /\ MemoryCopies'[u] = MemoryCopies[u]
        BY <1>6
      <4>3. QED BY <1>4, <3>4, <4>1, <4>2, LoadedSlots, ObjectLinked DEF MemoryObject
    <3>7. \A u \in Loaded : MemoryObject(u)' = IF u = s THEN MemoryObject(t) ELSE MemoryObject(u)
      BY <1>2, <3>6 DEF MemoryObject
    <3>8. MemoryObject(t) # 0 BY <3>4, LoadedSlots, ObjectTyped DEF OwnInv, MemoryObject
    <3>9. LinkedMemory(s) BY <1>5, <3>3, <3>5, <3>7, <3>8 DEF LinkedMemory
    <3>10. QED BY <1>6, <3>7, <3>9 DEF SameMemory
  <2>3. QED BY <2>1, <2>2
<1>8. /\ \A u \in Loaded : u # s => SameTable(u)
      /\ SameTable(s) \/ LinkedTable(s)
  <2>0. \A u \in Loaded : u # s => TableSize(u)' = TableSize(u)
    BY <1>6 DEF TableSize
  <2>1. CASE modules'[s].table = modules[s].table
    <3>1. TablePtrs'[s] = TablePtrs[s] /\ TableCopies'[s] = TableCopies[s]
      BY <1>2, <2>1, PtrValues, PtrValuesNext
    <3>2. \A u \in Loaded : TableObject(u)' = TableObject(u)
      BY <1>2, <1>6, <3>1, ObjectSame DEF TableObject
    <3>3. TableSize(s)' = TableSize(s) BY <2>1, <3>1 DEF TableSize
    <3>4. QED BY <2>0, <3>2, <3>3 DEF SameTable
  <2>2. CASE modules'[s].table # modules[s].table
    <3>1. PICK t \in Loaded :
            /\ modules[t].table.ptr # Null
            /\ modules'[s].table = [modules[t].table EXCEPT !.shared = TRUE, !.from = t]
      BY <1>2, <2>2 DEF LinksTable
    <3>2. modules[t].table \in Table BY LoadedInstance, InstanceFields
    <3>3. /\ modules'[s].table.ptr = modules[t].table.ptr /\ modules'[s].table.shared
          /\ modules'[s].table.size = modules[t].table.size
      BY <3>1, <3>2 DEF Table
    <3>4. TablePtrs'[s] = TablePtrs[t] /\ TablePtrs[t] # Null /\ TableCopies'[s]
      BY <1>2, <3>1, <3>3, PtrValues, PtrValuesNext
    <3>5. t # s BY <1>4, <3>4
    <3>6. \A u \in Loaded :
            ObjectOf(Loaded, TablePtrs', TableCopies', u)
            = IF u = s THEN TableObject(t) ELSE TableObject(u)
      <4>1. Owning(Loaded, TablePtrs, TableCopies) BY DEF OwnInv
      <4>2. \A u \in Loaded : u # s =>
              TablePtrs'[u] = TablePtrs[u] /\ TableCopies'[u] = TableCopies[u]
        BY <1>6
      <4>3. QED BY <1>4, <3>4, <4>1, <4>2, LoadedSlots, ObjectLinked DEF TableObject
    <3>7. \A u \in Loaded : TableObject(u)' = IF u = s THEN TableObject(t) ELSE TableObject(u)
      BY <1>2, <3>6 DEF TableObject
    <3>8. TableObject(t) # 0 BY <3>4, LoadedSlots, ObjectTyped DEF OwnInv, TableObject
    <3>9. TableSize(s)' = TableSize(t) BY <3>3, <3>4 DEF TableSize
    <3>10. LinkedTable(s) BY <1>5, <3>5, <3>7, <3>8, <3>9 DEF LinkedTable
    <3>11. QED BY <2>0, <3>7, <3>10 DEF SameTable
  <2>3. QED BY <2>1, <2>2
<1>9. QED BY <1>2, <1>7, <1>8, Attaches, LoadedSlots

LEMMA StoreMemory ==
  ASSUME Typed, Views, OwnInv, OwnInv', MemoryOk
  PROVE  \E s \in Slots : Abstract!Attach(s)
<1>1. PICK s \in Loaded : s = call.slot BY MemoryEffect
<1>2. /\ Mod = modules[s] /\ KeepsShape /\ KeepsTable /\ KeepsState
      /\ \A t \in Slots : t # s => modules'[t] = modules[t]
  BY <1>1, MemoryEffect
<1>3. Loaded' = Loaded BY <1>2 DEF KeepsShape
<1>4. \A u \in Loaded : SameTable(u) BY <1>2, TableSame
<1>5. CASE modules' = modules
  <2>1. \A u \in Loaded : SameMemory(u) BY <1>5, KeptAll, MemorySame
  <2>2. QED BY <1>2, <1>4, <2>1, Attaches, LoadedSlots
<1>6. CASE modules' # modules
  <2>1. PICK a \in Free :
          modules'[s].memory = [modules[s].memory EXCEPT !.ptr = a, !.size = Mod.binary.min,
                                                         !.capacity = Mod.binary.min]
    BY <1>1, <1>2, <1>6, MemoryEffect
  <2>2. modules[s].memory \in Memory /\ modules[s].memory.ptr = Null /\ ~ modules[s].memory.shared
    BY <1>1, <1>2, <1>6, MemoryEffect, LoadedInstance, InstanceFields DEF Views, MemoryInv
  <2>3. modules'[s].memory.ptr = a /\ ~ modules'[s].memory.shared
    BY <2>1, <2>2 DEF Memory
  <2>4. MemoryPtrs[s] = Null /\ MemoryPtrs'[s] = a /\ ~ MemoryCopies'[s]
    BY <1>3, <2>2, <2>3, PtrValues, PtrValuesNext
  <2>5. \A u \in Loaded : u # s =>
          /\ MemoryPtrs'[u] = MemoryPtrs[u] /\ MemoryCopies'[u] = MemoryCopies[u]
          /\ modules'[u] = modules[u]
    BY <1>2, <1>3, OtherSlots
  <2>6. a # Null /\ \A u \in Loaded : MemoryPtrs[u] # a BY FreshBlock, NotHeld
  <2>7. \A u \in Loaded :
          ObjectOf(Loaded, MemoryPtrs', MemoryCopies', u) = IF u = s THEN s ELSE MemoryObject(u)
    BY <2>4, <2>5, <2>6, LoadedSlots, ObjectMade DEF OwnInv, MemoryObject
  <2>8. \A u \in Loaded : MemoryObject(u)' = IF u = s THEN s ELSE MemoryObject(u)
    BY <1>3, <2>7 DEF MemoryObject
  <2>9. MadeMemory(s) BY <2>4, <2>8 DEF MadeMemory, MemoryObject, ObjectOf
  <2>10. \A u \in Loaded : u # s => SameMemory(u) BY <2>5, <2>8 DEF SameMemory
  <2>11. QED BY <1>2, <1>4, <2>9, <2>10, Attaches, LoadedSlots
<1>7. QED BY <1>5, <1>6

(* The running module, or the one of the loop, gets a table.               *)
LEMMA StoreMakesTable ==
  ASSUME Typed, Views, OwnInv, OwnInv', KeepsShape, KeepsMemory, KeepsState,
         NEW s \in Loaded, TablePtrs[s] = Null, NEW a \in Free,
         TablePtrs'[s] = a, ~ TableCopies'[s],
         \A u \in Loaded : u # s =>
           /\ TablePtrs'[u] = TablePtrs[u] /\ TableCopies'[u] = TableCopies[u]
           /\ modules'[u].table = modules[u].table
  PROVE  Abstract!Attach(s)
<1>1. Loaded' = Loaded BY DEF KeepsShape
<1>2. a # Null /\ \A u \in Loaded : TablePtrs[u] # a BY FreshBlock, NotHeld
<1>3. \A u \in Loaded :
        ObjectOf(Loaded, TablePtrs', TableCopies', u) = IF u = s THEN s ELSE TableObject(u)
  BY <1>2, LoadedSlots, ObjectMade DEF OwnInv, TableObject
<1>4. \A u \in Loaded : TableObject(u)' = IF u = s THEN s ELSE TableObject(u)
  BY <1>1, <1>3 DEF TableObject
<1>5. MadeTable(s) BY <1>4 DEF MadeTable, TableObject, ObjectOf
<1>6. \A u \in Loaded : u # s => TableSize(u)' = TableSize(u) BY DEF TableSize
<1>7. \A u \in Loaded : u # s => SameTable(u) BY <1>4, <1>6 DEF SameTable
<1>8. \A u \in Loaded : SameMemory(u) BY MemorySame
<1>9. QED BY <1>5, <1>7, <1>8, Attaches

LEMMA StoreTables ==
  ASSUME Typed, Views, OwnInv, OwnInv', TablesOk
  PROVE  \E s \in Slots : Abstract!Attach(s)
<1>1. PICK s \in Loaded : s = call.slot BY TableEffect
<1>2. /\ Mod = modules[s] /\ KeepsShape /\ KeepsMemory /\ KeepsState
      /\ \A t \in Slots : t # s => modules'[t] = modules[t]
  BY <1>1, TableEffect
<1>3. Loaded' = Loaded BY <1>2 DEF KeepsShape
<1>4. CASE modules' = modules
  <2>1. \A u \in Loaded : SameMemory(u) /\ SameTable(u) BY <1>4, KeptAll, MemorySame, TableSame
  <2>2. QED BY <1>2, <2>1, Attaches, LoadedSlots
<1>5. CASE modules' # modules
  <2>1. PICK a \in Free : modules'[s].table = [modules[s].table EXCEPT !.ptr = a]
    BY <1>1, <1>2, <1>5, TableEffect
  <2>2. modules[s].table \in Table /\ modules[s].table.ptr = Null /\ ~ modules[s].table.shared
    BY <1>1, <1>2, <1>5, TableEffect, LoadedInstance, InstanceFields
    DEF Views, TableInv, NeedsTable
  <2>3. modules'[s].table.ptr = a /\ ~ modules'[s].table.shared BY <2>1, <2>2 DEF Table
  <2>4. TablePtrs[s] = Null /\ TablePtrs'[s] = a /\ ~ TableCopies'[s]
    BY <1>3, <2>2, <2>3, PtrValues, PtrValuesNext
  <2>5. \A u \in Loaded : u # s =>
          /\ TablePtrs'[u] = TablePtrs[u] /\ TableCopies'[u] = TableCopies[u]
          /\ modules'[u].table = modules[u].table
    BY <1>2, <1>3, OtherSlots
  <2>6. QED BY <1>2, <2>4, <2>5, StoreMakesTable, LoadedSlots
<1>6. QED BY <1>4, <1>5

-----------------------------------------------------------------------------
(* The grows: all that have the object see its new size, whoever of them   *)
(* runs.                                                                   *)
LEMMA StoreGrowsMemory ==
  ASSUME Typed, Views, OwnInv, KeepsShape, KeepsTable, KeepsState,
         NEW s \in Loaded, MemoryPtrs[s] # Null, NEW n \in Nat, n > modules[s].memory.size,
         \A u \in Loaded :
           /\ MemoryObject(u)' = MemoryObject(u)
           /\ modules'[u].memory.size = IF MemoryPtrs[u] = MemoryPtrs[s] THEN n
                                        ELSE modules[u].memory.size
  PROVE  \E o \in Slots : Abstract!Grow("memory", o)
<1> DEFINE status == [u \in Slots |-> Status(u)]
           object == [u \in Slots |-> Object(u)]
           size == [u \in Slots |-> Size(u)]
<1>1. Owning(Loaded, MemoryPtrs, MemoryCopies) /\ Loaded' = Loaded
  BY DEF OwnInv, KeepsShape
<1>2. PICK o \in Loaded : MemoryPtrs[o] = MemoryPtrs[s] /\ MemoryObject(s) = o
  BY <1>1, LoadedSlots, OwnerExists DEF MemoryObject
<1>3. \A u \in Loaded : MemoryObject(u) = o <=> MemoryPtrs[u] = MemoryPtrs[s]
  BY <1>1, <1>2, LoadedSlots, ObjectShared DEF MemoryObject
<1>4. o \in Slots /\ o # 0 BY LoadedSlots, Sizes
<1>5. modules[o].memory.size = modules[s].memory.size
  BY <1>2, PtrValues DEF Views, MemoryInv
<1>6. \A u \in Loaded : TableObject(u)' = TableObject(u) /\ TableSize(u)' = TableSize(u)
  BY TableSame DEF SameTable
<1>7. \A u \in Slots : Object(u)' = Object(u)
  <2>1. TAKE u \in Slots
  <2>2. CASE u \in Loaded BY <1>1, <1>6, <2>2, ObjectOfLoaded, ObjectOfLoadedNext
  <2>3. CASE u \notin Loaded BY <1>1, <2>3, ObjectOfNone, ObjectOfNoneNext
  <2>4. QED BY <2>2, <2>3
<1>8. \A u \in Slots : Size(u)' = IF Object(u)["memory"] = o THEN [Size(u) EXCEPT !["memory"] = n]
                                  ELSE Size(u)
  <2>1. TAKE u \in Slots
  <2>2. CASE u \in Loaded
    <3>1. Object(u)["memory"] = MemoryObject(u) BY <2>2, ObjectOfLoaded
    <3>2. /\ Size(u) = [memory |-> modules[u].memory.size, table |-> TableSize(u)]
          /\ Size(u)' = [memory |-> modules'[u].memory.size, table |-> TableSize(u)]
      BY <1>1, <1>6, <2>2, ObjectOfLoaded, ObjectOfLoadedNext
    <3>3. QED BY <1>3, <2>2, <3>1, <3>2
  <2>3. CASE u \notin Loaded BY <1>1, <1>4, <2>3, ObjectOfNone, ObjectOfNoneNext
  <2>4. QED BY <2>2, <2>3
<1>9. object' = object /\ status' = status
  <2>1. object' = object BY <1>7
  <2>2. QED BY <1>1, <2>1, SameStatus
<1>10. object[o]["memory"] = o BY <1>3, <1>2, <1>4, ObjectOfLoaded
<1>11. size[o]["memory"] = modules[s].memory.size BY <1>4, <1>5, ObjectOfLoaded
<1>12. size' = [u \in Slots |-> IF object[u]["memory"] = o THEN [size[u] EXCEPT !["memory"] = n]
                                ELSE size[u]]
  BY <1>8
<1>13. size'[o]["memory"] = n
  <2>1. o \in Loaded' /\ modules'[o].memory.size = n BY <1>1, <1>2
  <2>2. Size(o)'["memory"] = n BY <2>1, ObjectOfLoadedNext
  <2>3. QED BY <1>4, <2>2
<1> HIDE DEF status, object, size
<1>14. \E m \in {size'[o]["memory"]} :
         /\ m > size[o]["memory"]
         /\ size' = [u \in Slots |-> IF object[u]["memory"] = o THEN [size[u] EXCEPT !["memory"] = m]
                                     ELSE size[u]]
  BY <1>11, <1>12, <1>13
<1>15. Abstract!Grow("memory", o)
  BY <1>9, <1>10, <1>14 DEF Abstract!Grow, status, object, size
<1>16. QED BY <1>4, <1>15

LEMMA StoreGrowsTable ==
  ASSUME Typed, Views, OwnInv, KeepsShape, KeepsMemory, KeepsState,
         NEW s \in Loaded, TablePtrs[s] # Null, NEW n \in Nat, n > modules[s].table.size,
         \A u \in Loaded :
           /\ TableObject(u)' = TableObject(u)
           /\ TableSize(u)' = IF TablePtrs[u] = TablePtrs[s] THEN n ELSE TableSize(u)
  PROVE  \E o \in Slots : Abstract!Grow("table", o)
<1> DEFINE status == [u \in Slots |-> Status(u)]
           object == [u \in Slots |-> Object(u)]
           size == [u \in Slots |-> Size(u)]
<1>1. Owning(Loaded, TablePtrs, TableCopies) /\ Loaded' = Loaded
  BY DEF OwnInv, KeepsShape
<1>2. PICK o \in Loaded : TablePtrs[o] = TablePtrs[s] /\ TableObject(s) = o
  BY <1>1, LoadedSlots, OwnerExists DEF TableObject
<1>3. \A u \in Loaded : TableObject(u) = o <=> TablePtrs[u] = TablePtrs[s]
  BY <1>1, <1>2, LoadedSlots, ObjectShared DEF TableObject
<1>4. o \in Slots /\ o # 0 BY LoadedSlots, Sizes
<1>5. TableSize(o) = modules[s].table.size
  <2>1. /\ modules[s].table.ptr = TablePtrs[s] /\ modules[o].table.ptr = TablePtrs[s]
    BY <1>2, PtrValues
  <2>2. modules[o].table.size = modules[s].table.size BY <2>1 DEF Views, TableInv
  <2>3. QED BY <1>2, <2>2 DEF TableSize
<1>6. \A u \in Loaded : /\ MemoryObject(u)' = MemoryObject(u)
                        /\ modules'[u].memory.size = modules[u].memory.size
  BY MemorySame DEF SameMemory
<1>7. \A u \in Slots : Object(u)' = Object(u)
  <2>1. TAKE u \in Slots
  <2>2. CASE u \in Loaded BY <1>1, <1>6, <2>2, ObjectOfLoaded, ObjectOfLoadedNext
  <2>3. CASE u \notin Loaded BY <1>1, <2>3, ObjectOfNone, ObjectOfNoneNext
  <2>4. QED BY <2>2, <2>3
<1>8. \A u \in Slots : Size(u)' = IF Object(u)["table"] = o THEN [Size(u) EXCEPT !["table"] = n]
                                  ELSE Size(u)
  <2>1. TAKE u \in Slots
  <2>2. CASE u \in Loaded
    <3>1. Object(u)["table"] = TableObject(u) BY <2>2, ObjectOfLoaded
    <3>2. /\ Size(u) = [memory |-> modules[u].memory.size, table |-> TableSize(u)]
          /\ Size(u)' = [memory |-> modules[u].memory.size, table |-> TableSize(u)']
      BY <1>1, <1>6, <2>2, ObjectOfLoaded, ObjectOfLoadedNext
    <3>3. QED BY <1>3, <2>2, <3>1, <3>2
  <2>3. CASE u \notin Loaded BY <1>1, <1>4, <2>3, ObjectOfNone, ObjectOfNoneNext
  <2>4. QED BY <2>2, <2>3
<1>9. object' = object /\ status' = status
  <2>1. object' = object BY <1>7
  <2>2. QED BY <1>1, <2>1, SameStatus
<1>10. object[o]["table"] = o BY <1>3, <1>2, <1>4, ObjectOfLoaded
<1>11. size[o]["table"] = modules[s].table.size BY <1>4, <1>5, ObjectOfLoaded
<1>12. size' = [u \in Slots |-> IF object[u]["table"] = o THEN [size[u] EXCEPT !["table"] = n]
                                ELSE size[u]]
  BY <1>8
<1>13. size'[o]["table"] = n
  <2>1. o \in Loaded' /\ TableSize(o)' = n BY <1>1, <1>2
  <2>2. Size(o)'["table"] = n BY <2>1, ObjectOfLoadedNext
  <2>3. QED BY <1>4, <2>2
<1> HIDE DEF status, object, size
<1>14. \E m \in {size'[o]["table"]} :
         /\ m > size[o]["table"]
         /\ size' = [u \in Slots |-> IF object[u]["table"] = o THEN [size[u] EXCEPT !["table"] = m]
                                     ELSE size[u]]
  BY <1>11, <1>12, <1>13
<1>15. Abstract!Grow("table", o)
  BY <1>9, <1>10, <1>14 DEF Abstract!Grow, status, object, size
<1>16. QED BY <1>4, <1>15

LEMMA StoreGrowInPlace ==
  ASSUME Typed, Views, CacheFresh, LinkInv, RunsInstantiated, OwnInv,
         NEW delta \in 1 .. kMaxLinearMemory, GrowInPlace(delta)
  PROVE  \E o \in Slots : Abstract!Grow("memory", o)
<1> DEFINE n == regs.size + delta
<1>1. /\ KeepsShape /\ KeepsTable /\ KeepsState /\ n \in Nat /\ n > regs.size
      /\ \A u \in Loaded :
           modules'[u].memory = IF u \in Sharing(regs.ptr) THEN [modules[u].memory EXCEPT !.size = n]
                                ELSE modules[u].memory
  BY GrowInPlaceEffect
<1> HIDE DEF n
<1>2. PICK s \in Loaded : s = Top /\ regs = Regs(modules[s])
  BY RunningTop DEF GrowInPlace, CacheFresh
<1>3. regs.ptr # Null BY TopMemory DEF GrowInPlace
<1>4. Loaded' = Loaded BY <1>1 DEF KeepsShape
<1>5. MemoryPtrs[s] = regs.ptr /\ modules[s].memory.size = regs.size
  BY <1>2, PtrValues DEF Regs
<1>6. \A u \in Loaded : /\ MemoryPtrs'[u] = MemoryPtrs[u] /\ MemoryCopies'[u] = MemoryCopies[u]
                        /\ modules'[u].memory.size = IF MemoryPtrs[u] = MemoryPtrs[s] THEN n
                                                     ELSE modules[u].memory.size
  <2>1. TAKE u \in Loaded
  <2>2. modules[u].memory \in Memory BY LoadedInstance, InstanceFields
  <2>3. u \in Sharing(regs.ptr) <=> MemoryPtrs[u] = MemoryPtrs[s] BY <1>5, PtrValues DEF Sharing
  <2>4. /\ modules'[u].memory.ptr = modules[u].memory.ptr
        /\ modules'[u].memory.shared = modules[u].memory.shared
        /\ modules'[u].memory.size = IF MemoryPtrs[u] = MemoryPtrs[s] THEN n
                                     ELSE modules[u].memory.size
    BY <1>1, <2>2, <2>3 DEF Memory
  <2>5. QED BY <1>4, <2>4, PtrValues, PtrValuesNext
<1>7. \A u \in Loaded : MemoryObject(u)' = MemoryObject(u)
  BY <1>4, <1>6, ObjectSame DEF MemoryObject
<1>8. QED BY <1>1, <1>3, <1>5, <1>6, <1>7, StoreGrowsMemory

LEMMA StoreGrowMoves ==
  ASSUME Typed, Views, CacheFresh, LinkInv, RunsInstantiated, OwnInv,
         NEW delta \in 1 .. kMaxLinearMemory, GrowMoves(delta)
  PROVE  \E o \in Slots : Abstract!Grow("memory", o)
<1> DEFINE n == regs.size + delta
           capacity == NewCapacity(n)
<1>1. KeepsShape /\ KeepsTable /\ KeepsState /\ n \in Nat /\ n > regs.size
  BY GrowMovesEffect
<1>2. PICK a \in Free :
        \A u \in Loaded :
          modules'[u].memory =
            IF u \in Sharing(regs.ptr)
              THEN [modules[u].memory EXCEPT !.ptr = a, !.size = n, !.capacity = capacity]
              ELSE modules[u].memory
  BY GrowMovesEffect
<1> HIDE DEF n, capacity
<1>3. PICK s \in Loaded : s = Top /\ regs = Regs(modules[s])
  BY RunningTop DEF GrowMoves, CacheFresh
<1>4. regs.ptr # Null BY TopMemory DEF GrowMoves
<1>5. Loaded' = Loaded BY <1>1 DEF KeepsShape
<1>6. MemoryPtrs[s] = regs.ptr /\ modules[s].memory.size = regs.size
  BY <1>3, PtrValues DEF Regs
<1>7. \A u \in Loaded : /\ MemoryPtrs'[u] = IF MemoryPtrs[u] = regs.ptr THEN a ELSE MemoryPtrs[u]
                        /\ MemoryCopies'[u] = MemoryCopies[u]
                        /\ modules'[u].memory.size = IF MemoryPtrs[u] = MemoryPtrs[s] THEN n
                                                     ELSE modules[u].memory.size
  <2>1. TAKE u \in Loaded
  <2>2. modules[u].memory \in Memory BY LoadedInstance, InstanceFields
  <2>3. u \in Sharing(regs.ptr) <=> MemoryPtrs[u] = regs.ptr BY PtrValues DEF Sharing
  <2>4. /\ modules'[u].memory.ptr = IF MemoryPtrs[u] = regs.ptr THEN a ELSE modules[u].memory.ptr
        /\ modules'[u].memory.shared = modules[u].memory.shared
        /\ modules'[u].memory.size = IF MemoryPtrs[u] = regs.ptr THEN n
                                     ELSE modules[u].memory.size
    BY <1>2, <2>2, <2>3 DEF Memory
  <2>5. QED BY <1>5, <1>6, <2>4, PtrValues, PtrValuesNext
<1>8. a # Null /\ \A u \in Loaded : MemoryPtrs[u] # a BY FreshBlock, NotHeld
<1>9. \A u \in Loaded : ObjectOf(Loaded, MemoryPtrs', MemoryCopies', u) = MemoryObject(u)
  <2>1. \A u \in Loaded : MemoryPtrs'[u] = IF MemoryPtrs[u] = regs.ptr THEN a ELSE MemoryPtrs[u]
    BY <1>7
  <2>2. \A u \in Loaded : MemoryCopies'[u] = MemoryCopies[u] /\ MemoryPtrs[u] # a BY <1>7, <1>8
  <2>3. TAKE u \in Loaded
  <2>4. OwnersOf(Loaded, MemoryPtrs', MemoryCopies', u) = OwnersOf(Loaded, MemoryPtrs, MemoryCopies, u)
    BY <2>1, <2>2 DEF OwnersOf
  <2>5. MemoryPtrs'[u] = Null <=> MemoryPtrs[u] = Null BY <1>4, <1>8, <2>1
  <2>6. QED BY <2>4, <2>5 DEF MemoryObject, ObjectOf
<1>10. \A u \in Loaded : MemoryObject(u)' = MemoryObject(u) BY <1>5, <1>9 DEF MemoryObject
<1>11. QED BY <1>1, <1>4, <1>6, <1>7, <1>10, StoreGrowsMemory

(* A table nobody has yet is made, the others grow.                        *)
LEMMA StoreTableGrow ==
  ASSUME Typed, Views, OwnInv, OwnInv', TableGrow
  PROVE  \E o \in Slots : Abstract!Grow("table", o) \/ Abstract!Attach(o)
<1> DEFINE n == modules[Top].table.size + 1
           old == modules[Top].table.ptr
           T == IF old = Null THEN {Top} ELSE {u \in Loaded : modules[u].table.ptr = old}
<1>1. KeepsShape /\ KeepsMemory /\ KeepsState /\ Top \in Loaded BY TableGrowEffect
<1>2. PICK a \in Free :
        \A u \in Loaded :
          modules'[u].table = IF u \in T THEN [modules[u].table EXCEPT !.ptr = a, !.size = n]
                              ELSE modules[u].table
  BY TableGrowEffect
<1>3. PICK s \in Loaded : s = Top BY <1>1
<1>4. Loaded' = Loaded BY <1>1 DEF KeepsShape
<1>5. TablePtrs[s] = old BY <1>3, PtrValues
<1>6. n \in Nat /\ n > modules[s].table.size
  BY <1>3, LoadedInstance, InstanceFields DEF Table
<1> HIDE DEF n
<1>7. \A u \in Loaded : /\ TablePtrs'[u] = IF u \in T THEN a ELSE TablePtrs[u]
                        /\ TableCopies'[u] = TableCopies[u]
                        /\ modules'[u].table.size = IF u \in T THEN n ELSE modules[u].table.size
  <2>1. TAKE u \in Loaded
  <2>2. modules[u].table \in Table BY LoadedInstance, InstanceFields
  <2> HIDE DEF T
  <2>3. /\ modules'[u].table.ptr = IF u \in T THEN a ELSE modules[u].table.ptr
        /\ modules'[u].table.shared = modules[u].table.shared
        /\ modules'[u].table.size = IF u \in T THEN n ELSE modules[u].table.size
    BY <1>2, <2>2 DEF Table
  <2>4. QED BY <1>4, <2>3, PtrValues, PtrValuesNext
<1>8. a # Null /\ \A u \in Loaded : TablePtrs[u] # a BY FreshBlock, NotHeld
<1>9. CASE old = Null
  <2>1. T = {s} BY <1>3, <1>9
  <2>2. \A u \in Loaded : u # s =>
          /\ TablePtrs'[u] = TablePtrs[u] /\ TableCopies'[u] = TableCopies[u]
          /\ modules'[u].table = modules[u].table
    <3> HIDE DEF T
    <3>1. QED BY <1>2, <1>7, <2>1
  <2>3. TablePtrs'[s] = a BY <1>7, <2>1
  <2>4. ~ TableCopies'[s]
    <3>1. ~ modules[s].table.shared BY <1>3, <1>9 DEF Views, TableInv
    <3>2. QED BY <1>7, <3>1, PtrValues
  <2>5. Abstract!Attach(s) BY <1>1, <1>5, <1>9, <2>2, <2>3, <2>4, StoreMakesTable
  <2>6. QED BY <2>5, LoadedSlots
<1>10. CASE old # Null
  <2>1. \A u \in Loaded : u \in T <=> TablePtrs[u] = old BY <1>10, PtrValues
  <2> HIDE DEF T, old
  <2>2. \A u \in Loaded : TablePtrs'[u] = IF TablePtrs[u] = old THEN a ELSE TablePtrs[u]
    BY <1>7, <2>1
  <2>3. \A u \in Loaded : TableCopies'[u] = TableCopies[u] /\ TablePtrs[u] # a BY <1>7, <1>8
  <2>4. \A u \in Loaded : ObjectOf(Loaded, TablePtrs', TableCopies', u) = TableObject(u)
    <3>1. TAKE u \in Loaded
    <3>2. OwnersOf(Loaded, TablePtrs', TableCopies', u) = OwnersOf(Loaded, TablePtrs, TableCopies, u)
      BY <2>2, <2>3 DEF OwnersOf
    <3>3. TablePtrs'[u] = Null <=> TablePtrs[u] = Null BY <1>8, <1>10, <2>2
    <3>4. QED BY <3>2, <3>3 DEF TableObject, ObjectOf
  <2>5. \A u \in Loaded : TableObject(u)' = TableObject(u) BY <1>4, <2>4 DEF TableObject
  <2>6. \A u \in Loaded : TableSize(u)' = IF TablePtrs[u] = TablePtrs[s] THEN n ELSE TableSize(u)
    <3>1. TAKE u \in Loaded
    <3>2. CASE TablePtrs[u] = old
      <4>1. TablePtrs'[u] = a /\ modules'[u].table.size = n BY <1>7, <2>1, <2>2, <3>2
      <4>2. QED BY <1>5, <1>8, <3>2, <4>1 DEF TableSize
    <3>3. CASE TablePtrs[u] # old
      <4>1. TablePtrs'[u] = TablePtrs[u] /\ modules'[u].table.size = modules[u].table.size
        BY <1>7, <2>1, <2>2, <3>3
      <4>2. QED BY <1>5, <3>3, <4>1 DEF TableSize
    <3>4. QED BY <3>2, <3>3
  <2>7. QED BY <1>1, <1>5, <1>6, <1>10, <2>5, <2>6, StoreGrowsTable
<1>11. QED BY <1>9, <1>10

-----------------------------------------------------------------------------
LEMMA StoreStep ==
  ASSUME CoreInv, Careful, OwnInv, OwnInv', Next
  PROVE  \/ Abstract!Next
         \/ UNCHANGED <<[s \in Slots |-> Status(s)], [s \in Slots |-> Object(s)],
                        [s \in Slots |-> Size(s)]>>
<1> DEFINE Stutters == UNCHANGED <<[s \in Slots |-> Status(s)], [s \in Slots |-> Object(s)],
                                   [s \in Slots |-> Size(s)]>>
<1> SUFFICES Abstract!Next \/ Stutters OBVIOUS
<1>0. Typed /\ Views /\ CacheFresh /\ NewInv /\ LinkInv /\ RunsInstantiated
  BY DEF CoreInv, Careful
<1>1. ASSUME modules' = modules PROVE Stutters BY <1>0, <1>1, KeptAll, StoreStutters
<1>2. ASSUME \E s \in Slots : Abstract!Load(s) \/ Abstract!Attach(s) \/ Abstract!Instantiate(s)
      PROVE  Abstract!Next
  BY <1>2 DEF Abstract!Next
<1>3. ASSUME \/ \E o \in Slots : Abstract!Grow("memory", o)
             \/ \E o \in Slots : Abstract!Grow("table", o)
      PROVE  Abstract!Next
  BY <1>3 DEF Abstract!Next, Abstract!Shared
<1> HIDE DEF Stutters
<1>4. CASE HostStep
  <2>1. ASSUME NEW load \in Binaries, LoadModule(load.name, load.binary) PROVE Abstract!Next
    BY <1>0, <1>2, <2>1, StoreLoad
  <2>2. CASE UnloadAllModules BY <2>2, StoreUnload DEF Abstract!Next
  <2>3. QED BY <1>1, <1>4, <2>1, <2>2
        DEF HostStep, RegisterAlias, InstantiateModules, Execute, ExecuteByIndex
<1>5. CASE InstantiateStep
  <2>1. CASE ImportsOk \/ ImportsFail BY <1>0, <1>2, <2>1, StoreImports
  <2>2. CASE MemoryOk BY <1>0, <1>2, <2>2, StoreMemory
  <2>3. CASE TablesOk BY <1>0, <1>2, <2>3, StoreTables
  <2>4. CASE ApplyElements \/ ApplyData
    BY <1>0, <2>4, FlagEffect, StoreStutters DEF Stutters
  <2>5. CASE Instantiated BY <1>0, <1>2, <2>5, StoreInstantiated
  <2>6. QED BY <1>1, <1>5, <2>1, <2>2, <2>3, <2>4, <2>5
        DEF InstantiateStep, MemoryFails, TablesFail, RunStart, InstantiateReturns, Enter
<1>6. CASE GuestStep
  <2>1. CASE TableGrow BY <1>0, <1>2, <1>3, <2>1, StoreTableGrow
  <2>2. ASSUME NEW delta \in 1 .. kMaxLinearMemory, GrowInPlace(delta) PROVE Abstract!Next
    BY <1>0, <1>3, <2>2, StoreGrowInPlace
  <2>3. ASSUME NEW delta \in 1 .. kMaxLinearMemory, GrowMoves(delta) PROVE Abstract!Next
    BY <1>0, <1>3, <2>3, StoreGrowMoves
  <2>4. ASSUME NEW v \in 0 .. 1, GlobalSet(v) PROVE Stutters
    BY <1>0, <2>4, GlobalEffect, StoreStutters DEF Stutters
  <2>5. QED BY <1>1, <1>6, <2>1, <2>2, <2>3, <2>4 DEF GuestStep, Trap, CallImport, Return
<1>7. QED BY <1>4, <1>5, <1>6 DEF Next

(* With a host that handles errors the registry implements the store: a    *)
(* memory or table is one object, made by one module and seen alike by all *)
(* that import it, however often linking copied its pointer and size and   *)
(* the grows of any of them moved it.                                      *)
THEOREM StoreImplemented == ASSUME CarefulHost PROVE Spec => StoreRefined
<1> DEFINE I == CoreInv /\ Careful /\ OwnInv
<1>1. Init => Abstract!Init
  <2> SUFFICES ASSUME Init PROVE Abstract!Init OBVIOUS
  <2>1. Loaded = {} BY DEF Init, Loaded
  <2>2. \A s \in Slots : /\ Object(s) = [k \in Abstract!Shared |-> 0]
                         /\ Size(s) = [k \in Abstract!Shared |-> 0]
                         /\ Status(s) = "none"
    BY <2>1 DEF Object, Size, Status, Abstract!Shared
  <2>3. QED BY <2>2 DEF Abstract!Init, Abstract!Nothing
<1>2. I /\ I' /\ [Next]_vars =>
        [Abstract!Next]_(<<[s \in Slots |-> Status(s)], [s \in Slots |-> Object(s)],
                           [s \in Slots |-> Size(s)]>>)
  <2>1. I /\ I' /\ Next => \/ Abstract!Next
                           \/ UNCHANGED <<[s \in Slots |-> Status(s)], [s \in Slots |-> Object(s)],
                                          [s \in Slots |-> Size(s)]>>
    BY StoreStep
  <2>2. I /\ UNCHANGED vars => UNCHANGED <<[s \in Slots |-> Status(s)], [s \in Slots |-> Object(s)],
                                           [s \in Slots |-> Size(s)]>>
    <3> SUFFICES ASSUME I, UNCHANGED vars
                 PROVE  UNCHANGED <<[s \in Slots |-> Status(s)], [s \in Slots |-> Object(s)],
                                    [s \in Slots |-> Size(s)]>>
      OBVIOUS
    <3>1. modules' = modules BY DEF vars
    <3>2. QED BY <3>1, KeptAll, StoreStutters DEF CoreInv
  <2>3. QED BY <2>1, <2>2
<1>3. Spec => []I BY OwnAlways
<1> HIDE DEF I
<1>4. QED BY <1>1, <1>2, <1>3, PTL DEF Spec, StoreRefined, Abstract!Spec
=============================================================================
