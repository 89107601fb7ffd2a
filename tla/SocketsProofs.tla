---------------------------- MODULE SocketsProofs ----------------------------
(***************************************************************************)
(* Proofs about Sockets, for any number of handles, slots, descriptors and *)
(* guest threads, whatever the network and the guests do.                  *)
(***************************************************************************)
EXTENDS Sockets, LinkedListLemmas, FiniteSetTheorems, TLAPS

-----------------------------------------------------------------------------
(* Types, for every choice of Windows.                                     *)

Busy == {"run", "wake", "wait", "store", "block"}

(* An operation somebody asked for. *)
Real(o) == o.fd \in Fds /\ o.thread \in Threads

(* The engine thread has a thread in hand exactly while it is busy with it;
   what is in a slot, in flight or blocks was asked for by a thread. *)
Places ==
  /\ engine.pc \in Busy <=> Cur \in Threads
  /\ \A i \in Handles : Active(i) => Real(ops[i])
  /\ InFlight => Real(io.op)
  /\ At("block") => Real(engine.call)

(* What RunLoop stores as stack_top was there when it read it. *)
SpBound == At("store") => engine.sp <= Len(threads[Cur].stack)

TypeInv == TypeOK /\ Places /\ SpBound /\ ContextsOutliveIo

LEMMA Sizes ==
  /\ kMaxSockets \in Nat \ {0} /\ kMaxThreads \in Nat /\ kMaxFiles \in Nat
  /\ None \notin Fds /\ None \notin Handles /\ None \notin Threads
  /\ Handles \subseteq Nat /\ Fds \subseteq Nat /\ Threads \subseteq Nat
BY SocketsAssumption DEF None, Fds, Handles, Threads

LEMMA LowestIn == ASSUME NEW S \in SUBSET Nat, S # {} PROVE Lowest(S) \in S
<1>1. \E n \in S : \A k \in S : n <= k BY SmallestExists
<1>2. QED BY <1>1 DEF Lowest

LEMMA LowestFd == ASSUME FreeFds # {} PROVE Lowest(FreeFds) \in FreeFds
BY Sizes, LowestIn DEF FreeFds

LEMMA LowestHandle == ASSUME FreeHandles # {} PROVE Lowest(FreeHandles) \in FreeHandles
BY Sizes, LowestIn DEF FreeHandles

LEMMA LowestSlot == ASSUME FreeSlots # {} PROVE Lowest(FreeSlots) \in FreeSlots
BY Sizes, LowestIn DEF FreeSlots

LEMMA NoOpFits ==
  /\ NoOp \in Ops /\ NoOp.fd = None /\ NoOp.thread = None /\ ~ Real(NoOp)
BY Sizes DEF NoOp, Ops, Modes, Real

LEMMA OperationFits ==
  ASSUME NEW fd \in Fds, NEW mode \in {"accept", "recv"}, Cur \in Threads,
         memory \in Nat \cup {None}
  PROVE  /\ Operation(fd, mode) \in Ops /\ Real(Operation(fd, mode))
         /\ Operation(fd, mode).thread = Cur /\ Operation(fd, mode).fd = fd
BY DEF Operation, Ops, Modes, Real

LEMMA IoAtFits ==
  ASSUME NEW pc \in {"down", "top", "select", "drain", "scan"}
  PROVE  /\ IoAt(pc) \in IoStates /\ IoAt(pc).pc = pc /\ IoAt(pc).set = {}
         /\ IoAt(pc).next = 0 /\ IoAt(pc).new = None
BY Sizes, NoOpFits DEF IoAt, IoStates

LEMMA EngineAtFits ==
  ASSUME NEW pc \in {"off", "idle", "run", "stop", "join"}
  PROVE  EngineAt(pc) \in EngineStates /\ EngineAt(pc).pc = pc /\ EngineAt(pc).cur = None
BY Sizes, NoOpFits DEF EngineAt, EngineStates

LEMMA ContextFits ==
  /\ Context \in Contexts /\ ~ Context.waiting /\ ~ Context.pending
  /\ Context.stack = << >> /\ Context.due = NoOp
BY NoOpFits DEF Context, Contexts

LEMMA RunsThread ==
  ASSUME NEW e \in EngineStates, NEW t \in Threads, NEW r, r = [e EXCEPT !.cur = t]
  PROVE  r \in EngineStates /\ r.pc = e.pc /\ r.cur = t /\ r.call = e.call
BY DEF EngineStates

LEMMA EngineMoves ==
  ASSUME NEW e \in EngineStates, NEW pc \in {"wake", "wait"}, NEW r, r = [e EXCEPT !.pc = pc]
  PROVE  r \in EngineStates /\ r.pc = pc /\ r.cur = e.cur
BY DEF EngineStates

LEMMA IoMoves ==
  ASSUME NEW x \in IoStates, NEW pc \in {"scan", "push", "notify"},
         NEW r, r = [x EXCEPT !.pc = pc]
  PROVE  /\ r \in IoStates /\ r.pc = pc /\ r.op = x.op /\ r.set = x.set /\ r.next = x.next
         /\ r.new = x.new /\ r.handle = x.handle
BY DEF IoStates

LEMMA IoWatches ==
  ASSUME NEW x \in IoStates, NEW S \in SUBSET Fds, NEW r, r = [x EXCEPT !.set = S]
  PROVE  /\ r \in IoStates /\ r.pc = x.pc /\ r.op = x.op /\ r.set = S /\ r.new = x.new
BY DEF IoStates

LEMMA IoPushFits ==
  ASSUME io \in IoStates
  PROVE  /\ IoPush \in IoStates /\ IoPush.pc = "push" /\ IoPush.op = io.op
         /\ IoPush.new = None
BY DEF IoPush, IoStates

(* The kernel's table. *)
FilesOK(F) == DOMAIN F \subseteq Fds /\ \A fd \in DOMAIN F : F[fd] \in Nat

LEMMA FilesFit ==
  ASSUME NEW F, FilesOK(F)
  PROVE  /\ \A fd \in Fds : /\ FilesOK(Opened(F, fd))
                            /\ DOMAIN Opened(F, fd) = DOMAIN F \cup {fd}
         /\ \A S : FilesOK(Closed(F, S)) /\ DOMAIN Closed(F, S) = DOMAIN F \ S
         /\ \A fd \in DOMAIN F : F[fd] > 0 =>
              FilesOK(Taken(F, fd)) /\ DOMAIN Taken(F, fd) = DOMAIN F
BY DEF FilesOK, Opened, Closed, Taken

LEMMA AllocFits ==
  ASSUME NEW F, FilesOK(F), NEW fd \in Fds, table \in [Handles -> Fds \cup {None}],
         AllocHandle(F, fd)
  PROVE  FilesOK(files') /\ table' \in [Handles -> Fds \cup {None}]
<1>1. CASE FreeHandles = {} BY <1>1 DEF AllocHandle
<1>2. CASE FreeHandles # {}
  <2>1. Lowest(FreeHandles) \in Handles BY <1>2, LowestHandle DEF FreeHandles
  <2>2. files' = Opened(F, fd) /\ table' = [table EXCEPT ![Lowest(FreeHandles)] = fd]
    BY <1>2 DEF AllocHandle
  <2>3. FilesOK(Opened(F, fd)) BY FilesFit
  <2>4. QED BY <2>1, <2>2, <2>3
<1>3. QED BY <1>1, <1>2

(* The engine thread. *)

LEMMA PickTypes == ASSUME TypeInv, Pick PROVE TypeInv'
<1>1. Head(ready) \in Threads /\ Tail(ready) \in Seq(Threads)
  BY DEF Pick, TypeInv, TypeOK
<1>2. /\ engine' \in EngineStates /\ engine'.pc = "run" /\ engine'.cur \in Threads
      /\ ready' \in Seq(Threads)
      /\ UNCHANGED <<table, ops, pipe, running, files, io, threads, memory>>
  BY <1>1, EngineAtFits, RunsThread DEF Pick
<1>3. QED
  BY <1>2
  DEF TypeInv, TypeOK, Places, ContextsOutliveIo, SpBound, At, Cur, Busy, Active, InFlight

LEMMA UseResultTypes == ASSUME TypeInv, UseResult PROVE TypeInv'
<1>1. threads' \in [Threads -> Contexts]
  <2>1. Cur \in Threads BY DEF UseResult, At, TypeInv, Places, Busy
  <2>2. << >> \in Seq(Ops) OBVIOUS
  <2>3. QED BY <2>1, <2>2, NoOpFits DEF UseResult, TypeInv, TypeOK, Contexts
<1>2. /\ engine.pc = "run"
      /\ UNCHANGED <<table, ops, pipe, running, files, io, engine, ready, memory>>
  BY DEF UseResult, At
<1>3. QED
  BY <1>1, <1>2
  DEF TypeInv, TypeOK, Places, ContextsOutliveIo, SpBound, At, Cur, Active, InFlight

LEMMA GuestYieldTypes == ASSUME TypeInv, GuestYield PROVE TypeInv'
<1>1. Cur \in Threads BY DEF GuestYield, Guest, At, TypeInv, Places, Busy
<1>2. /\ engine' \in EngineStates /\ engine'.pc = "idle" /\ engine'.cur = None
      /\ ready' \in Seq(Threads)
      /\ UNCHANGED <<table, ops, pipe, running, files, io, threads, memory>>
  BY <1>1, EngineAtFits DEF GuestYield, TypeInv, TypeOK
<1>3. QED
  BY <1>2, Sizes
  DEF TypeInv, TypeOK, Places, ContextsOutliveIo, SpBound, At, Cur, Busy, Active, InFlight

LEMMA MemoryGrowTypes == ASSUME TypeInv, MemoryGrow PROVE TypeInv'
<1>1. memory' \in Nat \cup {None}
  BY DEF MemoryGrow, TypeInv, TypeOK, None
<1>2. UNCHANGED <<table, ops, pipe, running, files, io, engine, ready, threads>>
  BY DEF MemoryGrow
<1>3. QED
  BY <1>1, <1>2
  DEF TypeInv, TypeOK, Places, ContextsOutliveIo, SpBound, At, Cur, Active, InFlight

LEMMA SocketCreateTypes == ASSUME TypeInv, socket_create PROVE TypeInv'
<1>1. Lowest(FreeFds) \in Fds
  BY LowestFd DEF socket_create, FreeFds
<1>2. FilesOK(files') /\ table' \in [Handles -> Fds \cup {None}]
  <2>1. FilesOK(files) /\ table \in [Handles -> Fds \cup {None}]
    BY DEF FilesOK, TypeInv, TypeOK
  <2>2. QED BY <1>1, <2>1, AllocFits DEF socket_create
<1>3. UNCHANGED <<ops, pipe, running, io, engine, ready, threads, memory>>
  BY DEF socket_create
<1>4. QED
  BY <1>2, <1>3
  DEF TypeInv, TypeOK, Places, ContextsOutliveIo, SpBound, At, Cur, Active, InFlight, FilesOK

LEMMA SocketCloseTypes ==
  ASSUME TypeInv, NEW h \in Handles, socket_close(h) PROVE TypeInv'
<1>1. FilesOK(files') /\ table' \in [Handles -> Fds \cup {None}]
  <2>1. FilesOK(files) /\ table \in [Handles -> Fds \cup {None}]
    BY DEF FilesOK, TypeInv, TypeOK
  <2>2. QED BY <2>1, FilesFit DEF socket_close, FreeHandle
<1>2. UNCHANGED <<ops, pipe, running, io, engine, ready, threads, memory>>
  BY DEF socket_close
<1>3. QED
  BY <1>1, <1>2
  DEF TypeInv, TypeOK, Places, ContextsOutliveIo, SpBound, At, Cur, Active, InFlight, FilesOK

LEMMA RegisterTypes ==
  ASSUME TypeInv, NEW h \in Handles, NEW mode \in {"accept", "recv"}, Register(h, mode)
  PROVE  TypeInv'
<1> DEFINE o == Operation(table[h], mode)
<1>1. Cur \in Threads /\ table[h] \in Fds /\ Lowest(FreeSlots) \in Handles
  BY LowestSlot DEF Register, Guest, At, TypeInv, TypeOK, Places, Busy, FreeSlots
<1>2. o \in Ops /\ Real(o)
  BY <1>1, OperationFits DEF TypeInv, TypeOK
<1>3. /\ ops' = [ops EXCEPT ![Lowest(FreeSlots)] = o]
      /\ threads' = [threads EXCEPT ![Cur].due = o]
      /\ UNCHANGED <<table, pipe, running, files, io, ready, memory>>
  BY DEF Register
<1>4. engine' \in EngineStates /\ engine'.pc = "wake" /\ engine'.cur = Cur
  BY EngineMoves DEF Register, TypeInv, TypeOK, Cur
<1> HIDE DEF o
<1>5. TypeOK'
  <2>1. ops' \in [Handles -> Ops] BY <1>1, <1>2, <1>3 DEF TypeInv, TypeOK
  <2>2. threads' \in [Threads -> Contexts]
    BY <1>1, <1>2, <1>3 DEF TypeInv, TypeOK, Contexts
  <2>3. QED BY <1>3, <1>4, <2>1, <2>2 DEF TypeInv, TypeOK
<1>6. Places'
  <2>1. \A i \in Handles : ops'[i] # NoOp => Real(ops'[i])
    BY <1>1, <1>2, <1>3 DEF TypeInv, TypeOK, Places, Active
  <2>2. QED BY <1>1, <1>3, <1>4, <2>1 DEF TypeInv, Places, At, Cur, Busy, Active, InFlight
<1>7. QED BY <1>4, <1>5, <1>6 DEF TypeInv, ContextsOutliveIo, SpBound, At

LEMMA WithByteFits ==
  ASSUME NEW p \in Nat \cup {None}
  PROVE  WithByte(p) \in Nat \cup {None} /\ (p # None => WithByte(p) \in Nat)
BY DEF WithByte, None

LEMMA WakeTypes == ASSUME TypeInv, WakeIoManager PROVE TypeInv'
<1>1. engine' \in EngineStates /\ engine'.pc = "wait" /\ engine'.cur = Cur
  BY EngineMoves DEF WakeIoManager, TypeInv, TypeOK, Cur
<1>2. pipe' \in Nat \cup {None}
  BY WithByteFits DEF WakeIoManager, TypeInv, TypeOK
<1>3. /\ Cur \in Threads
      /\ UNCHANGED <<table, ops, running, files, io, ready, threads, memory>>
  BY DEF WakeIoManager, At, TypeInv, Places, Busy
<1>4. QED
  BY <1>1, <1>2, <1>3
  DEF TypeInv, TypeOK, Places, ContextsOutliveIo, SpBound, At, Cur, Busy, Active, InFlight

LEMMA ThreadWaitTypes == ASSUME TypeInv, ThreadWait PROVE TypeInv'
<1>1. /\ Cur \in Threads /\ threads \in [Threads -> Contexts] /\ engine \in EngineStates
      /\ UNCHANGED <<table, ops, pipe, running, files, io, ready, memory>>
  BY DEF ThreadWait, At, TypeInv, TypeOK, Places, Busy
<1>2. threads[Cur] \in Contexts /\ Len(threads[Cur].stack) \in Nat
  BY <1>1 DEF Contexts
<1>3. threads' \in [Threads -> Contexts]
  <2>1. threads' = [threads EXCEPT ![Cur] = [threads[Cur] EXCEPT
                      !.waiting = ~ threads[Cur].pending, !.pending = FALSE]]
    BY <1>1 DEF ThreadWait
  <2>2. [threads[Cur] EXCEPT !.waiting = ~ threads[Cur].pending, !.pending = FALSE]
          \in Contexts
    BY <1>2 DEF Contexts
  <2>3. QED BY <1>1, <2>1, <2>2
<1>4. /\ engine' \in EngineStates /\ engine'.pc = "store" /\ engine'.cur = Cur
      /\ engine'.sp = Len(threads[Cur].stack) /\ threads'[Cur].stack = threads[Cur].stack
  <2>1. engine' = [engine EXCEPT !.pc = "store", !.sp = Len(threads[Cur].stack)]
    BY DEF ThreadWait
  <2>2. threads'[Cur].stack = threads[Cur].stack
    BY <1>1, <1>2 DEF ThreadWait, Contexts
  <2>3. QED BY <1>1, <1>2, <2>1, <2>2 DEF EngineStates, Cur
<1>5. QED
  BY <1>1, <1>3, <1>4
  DEF TypeInv, TypeOK, Places, ContextsOutliveIo, SpBound, At, Cur, Busy, Active, InFlight

LEMMA Restacked ==
  ASSUME NEW c \in Contexts, NEW s \in Seq(Ops), NEW r, r = [c EXCEPT !.stack = s]
  PROVE  /\ r \in Contexts /\ r.stack = s /\ r.due = c.due
         /\ r.pending = c.pending /\ r.waiting = c.waiting
BY DEF Contexts

LEMMA StoreTypes == ASSUME TypeInv, StoreStackTop PROVE TypeInv'
<1>1. /\ Cur \in Threads /\ threads \in [Threads -> Contexts] /\ engine.sp \in Nat
      /\ UNCHANGED <<table, ops, pipe, running, files, io, memory>>
      /\ ready \in Seq(Threads)
  BY DEF StoreStackTop, At, TypeInv, TypeOK, Places, Busy, EngineStates
<1>2. threads[Cur] \in Contexts /\ threads[Cur].stack \in Seq(Ops)
  BY <1>1 DEF Contexts
<1>3. SubSeq(threads[Cur].stack, 1, engine.sp) \in Seq(Ops)
  <2>1. engine.sp <= Len(threads[Cur].stack)
    BY DEF StoreStackTop, TypeInv, SpBound
  <2>2. QED BY <1>1, <1>2, <2>1
<1>4. threads' \in [Threads -> Contexts]
  <2>1. threads' = [threads EXCEPT ![Cur] = [threads[Cur] EXCEPT
                      !.stack = SubSeq(threads[Cur].stack, 1, engine.sp)]]
    BY <1>1 DEF StoreStackTop
  <2>2. [threads[Cur] EXCEPT !.stack = SubSeq(threads[Cur].stack, 1, engine.sp)] \in Contexts
    BY <1>2, <1>3, Restacked
  <2>3. QED BY <1>1, <2>1, <2>2
<1>5. ready' \in Seq(Threads)
  BY <1>1, AppendLinks DEF StoreStackTop
<1>6. engine' \in EngineStates /\ engine'.pc = "idle" /\ engine'.cur = None
  BY EngineAtFits DEF StoreStackTop
<1>7. QED
  BY <1>1, <1>4, <1>5, <1>6, Sizes
  DEF TypeInv, TypeOK, Places, ContextsOutliveIo, SpBound, At, Cur, Busy, Active, InFlight

LEMMA FallBackTypes ==
  ASSUME TypeInv, NEW h \in Handles, NEW mode \in {"accept", "recv"}, FallBack(h, mode)
  PROVE  TypeInv'
<1> DEFINE o == Operation(table[h], mode)
<1>1. Cur \in Threads /\ table[h] \in Fds
  BY DEF FallBack, Guest, At, TypeInv, TypeOK, Places, Busy
<1>2. o \in Ops /\ Real(o)
  BY <1>1, OperationFits DEF TypeInv, TypeOK
<1>3. /\ engine' = [engine EXCEPT !.pc = "block", !.call = o]
      /\ UNCHANGED <<table, ops, pipe, running, files, io, ready, threads, memory>>
  BY DEF FallBack
<1> HIDE DEF o
<1>4. /\ engine' \in EngineStates /\ engine'.pc = "block" /\ engine'.cur = Cur
      /\ engine'.call = o
  BY <1>2, <1>3 DEF TypeInv, TypeOK, Cur, EngineStates
<1>5. QED
  BY <1>1, <1>2, <1>3, <1>4
  DEF TypeInv, TypeOK, Places, ContextsOutliveIo, SpBound, At, Cur, Busy, Active, InFlight

LEMMA BlockedCallTypes == ASSUME TypeInv, BlockedCall PROVE TypeInv'
<1> DEFINE fd == engine.call.fd
<1>1. /\ Cur \in Threads /\ FilesOK(files) /\ table \in [Handles -> Fds \cup {None}]
      /\ UNCHANGED <<ops, pipe, running, io, ready, threads, memory>>
  BY DEF BlockedCall, At, TypeInv, TypeOK, Places, Busy, FilesOK
<1>2. FilesOK(files') /\ table' \in [Handles -> Fds \cup {None}]
  <2>1. HasArrival(fd) => FilesOK(Taken(files, fd))
    BY <1>1, FilesFit DEF HasArrival
  <2>2. CASE files' = Taken(files, fd) /\ HasArrival(fd) /\ UNCHANGED table
    BY <1>1, <2>1, <2>2
  <2>3. CASE /\ HasArrival(fd) /\ FreeFds # {}
             /\ AllocHandle(Taken(files, fd), Lowest(FreeFds))
    <3>1. Lowest(FreeFds) \in Fds BY <2>3, LowestFd DEF FreeFds
    <3>2. QED BY <1>1, <2>1, <2>3, <3>1, AllocFits
  <2>4. CASE UNCHANGED <<files, table>> BY <1>1, <2>4
  <2>5. QED BY <2>2, <2>3, <2>4 DEF BlockedCall
<1>3. engine' \in EngineStates /\ engine'.pc = "run" /\ engine'.cur = Cur
  BY <1>1, EngineAtFits, RunsThread DEF BlockedCall
<1>4. QED
  BY <1>1, <1>2, <1>3
  DEF TypeInv, TypeOK, Places, ContextsOutliveIo, SpBound, At, Cur, Busy, Active, InFlight,
      FilesOK

LEMMA UnloadTypes == ASSUME TypeInv, UnloadAllModules PROVE TypeInv'
<1>1. engine' \in EngineStates /\ engine'.pc = "stop" /\ engine'.cur = None
  BY EngineAtFits DEF UnloadAllModules
<1>2. /\ memory' = None
      /\ UNCHANGED <<table, ops, pipe, running, files, io, ready, threads>>
  BY DEF UnloadAllModules
<1>3. QED
  BY <1>1, <1>2, Sizes
  DEF TypeInv, TypeOK, Places, ContextsOutliveIo, SpBound, At, Cur, Busy, Active, InFlight

LEMMA StopIoTypes == ASSUME TypeInv, StopIoManager PROVE TypeInv'
<1>1. engine' \in EngineStates /\ engine'.pc = "join" /\ engine'.cur = None
  BY EngineAtFits DEF StopIoManager
<1>2. pipe' \in Nat \cup {None} /\ running' \in BOOLEAN
  BY WithByteFits DEF StopIoManager, Stopped, TypeInv, TypeOK
<1>3. UNCHANGED <<table, ops, files, io, ready, threads, memory>>
  BY DEF StopIoManager
<1>4. QED
  BY <1>1, <1>2, <1>3, Sizes
  DEF TypeInv, TypeOK, Places, ContextsOutliveIo, SpBound, At, Cur, Busy, Active, InFlight

LEMMA DeinitTypes == ASSUME TypeInv, Deinit PROVE TypeInv'
<1>1. engine' \in EngineStates /\ engine'.pc = "off" /\ engine'.cur = None
  BY EngineAtFits DEF Deinit
<1>2. /\ pipe' = None /\ table' = [h \in Handles |-> None] /\ ready' = << >>
      /\ threads' = [t \in Threads |-> Context] /\ io.pc = "down"
      /\ UNCHANGED <<ops, running, io, memory>>
  BY DEF Deinit, Joined
<1>3. FilesOK(files')
  <2>1. FilesOK(files) BY DEF FilesOK, TypeInv, TypeOK
  <2>2. QED BY <2>1, FilesFit DEF Deinit
<1>4. TypeOK'
  BY <1>1, <1>2, <1>3, ContextFits DEF TypeInv, TypeOK, FilesOK
<1>5. QED
  BY <1>1, <1>2, <1>4, Sizes
  DEF TypeInv, Places, ContextsOutliveIo, SpBound, At, Cur, Busy, Active, InFlight

LEMMA InitializeTypes == ASSUME TypeInv, Initialize PROVE TypeInv'
<1>1. /\ engine' \in EngineStates /\ engine'.pc = "idle" /\ engine'.cur = None
      /\ io' \in IoStates /\ io'.pc = "top"
  BY EngineAtFits, IoAtFits DEF Initialize
<1>2. /\ table' = [h \in Handles |-> None] /\ ops' = [i \in Handles |-> NoOp] /\ pipe' = 0
      /\ running' = TRUE /\ memory' = 0
      /\ UNCHANGED <<files, threads>>
  BY DEF Initialize, Cleared
<1>3. ready' \in Seq(Threads)
  BY Sizes DEF Initialize, RunQueue, Threads
<1>4. TypeOK'
  BY <1>1, <1>2, <1>3, NoOpFits DEF TypeInv, TypeOK
<1>5. QED
  BY <1>1, <1>2, <1>4, Sizes
  DEF TypeInv, Places, ContextsOutliveIo, SpBound, At, Cur, Busy, Active, InFlight

LEMMA ArriveTypes == ASSUME TypeInv, Arrive PROVE TypeInv'
<1>1. FilesOK(files')
  BY DEF Arrive, TypeInv, TypeOK, FilesOK
<1>2. UNCHANGED <<table, ops, pipe, running, io, engine, ready, threads, memory>>
  BY DEF Arrive
<1>3. QED
  BY <1>1, <1>2
  DEF TypeInv, TypeOK, Places, ContextsOutliveIo, SpBound, At, Cur, Active, InFlight, FilesOK

(* The I/O thread. *)

(* A step that only moves the I/O thread. *)
LEMMA IoKeepsTypes ==
  ASSUME TypeInv, ~ At("off"), io' \in IoStates, FilesOK(files'),
         io'.pc \in {"io", "alloc", "claim", "push", "notify"} => Real(io'.op),
         pipe' \in Nat \cup {None}, table' \in [Handles -> Fds \cup {None}],
         UNCHANGED <<ops, running, engine, ready, threads, memory>>
  PROVE  TypeInv'
BY DEF TypeInv, TypeOK, Places, ContextsOutliveIo, SpBound, At, Cur, Active, InFlight, FilesOK

LEMMA IoRuns == ASSUME TypeInv, io.pc # "down" PROVE
  /\ ~ At("off") /\ io \in IoStates /\ FilesOK(files)
  /\ table \in [Handles -> Fds \cup {None}] /\ pipe \in Nat \cup {None}
BY DEF TypeInv, TypeOK, ContextsOutliveIo, FilesOK

LEMMA IoWaitTypes == ASSUME TypeInv, IoTop \/ IoSelect \/ IoSelectNone \/ IoDrain PROVE TypeInv'
<1>1. io.pc # "down" BY DEF IoTop, IoSelect, IoSelectNone, IoDrain
<1>2. UNCHANGED <<table, ops, running, files, engine, ready, threads, memory>>
  BY DEF IoTop, IoSelect, IoSelectNone, IoDrain
<1>3. CASE IoTop
  <2>1. Watched \in SUBSET Fds
    BY DEF Watched, TypeInv, Places, Real
  <2>2. io' \in IoStates /\ io'.pc \in {"select", "down"}
    BY <1>3, <2>1, IoAtFits, IoWatches DEF IoTop
  <2>3. QED BY <1>1, <1>2, <1>3, <2>2, IoRuns, IoKeepsTypes DEF IoTop
<1>4. CASE IoSelect
  <2>1. PICK S \in SUBSET Fds, pc \in {"drain", "scan"} : IoWake(pc, S)
    BY <1>4 DEF IoSelect, TypeInv, TypeOK, IoStates
  <2>2. io' \in IoStates /\ io'.pc \in {"drain", "scan"}
    BY <2>1, IoAtFits, IoWatches DEF IoWake
  <2>3. QED BY <1>1, <1>2, <1>4, <2>2, IoRuns, IoKeepsTypes DEF IoSelect
<1>5. CASE IoSelectNone
  <2>1. io' \in IoStates /\ io'.pc = "top" BY <1>5, IoAtFits DEF IoSelectNone
  <2>2. QED BY <1>1, <1>2, <1>5, <2>1, IoRuns, IoKeepsTypes DEF IoSelectNone
<1>6. CASE IoDrain
  <2>1. pipe' \in Nat \cup {None}
    BY <1>6 DEF IoDrain, TypeInv, TypeOK, None
  <2>2. io' \in IoStates /\ io'.pc = "scan"
    BY <1>1, <1>6, IoRuns, IoMoves DEF IoDrain
  <2>3. QED BY <1>1, <1>2, <2>1, <2>2, IoRuns, IoKeepsTypes
<1>7. QED BY <1>3, <1>4, <1>5, <1>6

LEMMA IoScanTypes == ASSUME TypeInv, IoScan PROVE TypeInv'
<1>1. /\ io.pc = "scan" /\ io \in IoStates /\ ops \in [Handles -> Ops]
      /\ UNCHANGED <<table, pipe, running, files, engine, ready, threads, memory>>
  BY DEF IoScan, TypeInv, TypeOK
<1>2. CASE Hits = {}
  <2>1. io' \in IoStates /\ io'.pc = "top" /\ UNCHANGED ops
    BY <1>2, IoAtFits DEF IoScan
  <2>2. QED BY <1>1, <2>1, IoRuns, IoKeepsTypes
<1>3. CASE Hits # {}
  <2> DEFINE i == Lowest(Hits)
  <2>1. i \in Hits
    <3>1. Hits \in SUBSET Nat BY <1>1, Sizes DEF Hits, IoStates
    <3>2. QED BY <1>3, <3>1, LowestIn
  <2>2. i \in Handles /\ i + 1 \in 0 .. kMaxSockets /\ Active(i)
    BY <1>1, <2>1, Sizes DEF Hits, Handles, IoStates
  <2>3. /\ io' = [io EXCEPT !.pc = "io", !.next = i + 1, !.op = ops[i]]
        /\ ops' = [ops EXCEPT ![i] = NoOp]
    BY <1>3 DEF IoScan
  <2> HIDE DEF i
  <2>4. ops[i] \in Ops /\ Real(ops[i])
    BY <1>1, <2>2 DEF TypeInv, Places
  <2>5. io' \in IoStates /\ io'.pc = "io" /\ io'.op = ops[i]
    BY <1>1, <2>2, <2>3, <2>4 DEF IoStates
  <2>6. ops' \in [Handles -> Ops] /\ \A k \in Handles : ops'[k] # NoOp => Real(ops'[k])
    BY <1>1, <2>2, <2>3, NoOpFits DEF TypeInv, Places, Active
  <2>7. QED
    BY <1>1, <2>4, <2>5, <2>6
    DEF TypeInv, TypeOK, Places, ContextsOutliveIo, SpBound, At, Cur, Active, InFlight
<1>4. QED BY <1>2, <1>3

LEMMA IoCallTypes == ASSUME TypeInv, IoCall PROVE TypeInv'
<1>1. /\ io.pc = "io" /\ io \in IoStates /\ FilesOK(files) /\ Real(io.op)
      /\ UNCHANGED <<table, ops, pipe, running, engine, ready, threads, memory>>
  BY DEF IoCall, TypeInv, TypeOK, Places, InFlight, FilesOK
<1> DEFINE fd == io.op.fd
<1>2. HasArrival(fd) => FilesOK(Taken(files, fd))
  BY <1>1, FilesFit DEF HasArrival
<1>3. CASE io' = [io EXCEPT !.pc = "push"] /\ (files' = files \/
                    (HasArrival(fd) /\ files' = Taken(files, fd)))
  <2>1. io' \in IoStates /\ io'.pc = "push" /\ io'.op = io.op
    BY <1>1, <1>3, IoMoves
  <2>2. FilesOK(files') BY <1>1, <1>2, <1>3
  <2>3. QED BY <1>1, <2>1, <2>2, IoRuns, IoKeepsTypes
<1>4. CASE /\ HasArrival(fd) /\ FreeFds # {}
           /\ files' = Opened(Taken(files, fd), Lowest(FreeFds))
           /\ io' = [io EXCEPT !.pc = "alloc", !.new = Lowest(FreeFds)]
  <2>1. Lowest(FreeFds) \in Fds BY <1>4, LowestFd DEF FreeFds
  <2>2. io' \in IoStates /\ io'.pc = "alloc" /\ io'.op = io.op
    BY <1>1, <1>4, <2>1 DEF IoStates
  <2>3. FilesOK(files') BY <1>2, <1>4, <2>1, FilesFit
  <2>4. QED BY <1>1, <2>2, <2>3, IoRuns, IoKeepsTypes
<1>5. QED BY <1>3, <1>4 DEF IoCall

LEMMA IoAllocTypes == ASSUME TypeInv, IoAlloc PROVE TypeInv'
<1>1. /\ io.pc = "alloc" /\ io \in IoStates /\ FilesOK(files) /\ Real(io.op)
      /\ UNCHANGED <<table, ops, pipe, running, engine, ready, threads, memory>>
  BY DEF IoAlloc, TypeInv, TypeOK, Places, InFlight, FilesOK
<1>2. CASE FreeHandles = {}
  <2>1. io' = IoPush /\ files' = Closed(files, {io.new})
    BY <1>2 DEF IoAlloc
  <2>2. FilesOK(files') BY <1>1, <2>1, FilesFit
  <2>3. QED BY <1>1, <2>1, <2>2, IoPushFits, IoRuns, IoKeepsTypes
<1>3. CASE FreeHandles # {}
  <2>1. Lowest(FreeHandles) \in Handles BY <1>3, LowestHandle DEF FreeHandles
  <2>2. io' \in IoStates /\ io'.pc = "claim" /\ io'.op = io.op /\ files' = files
    BY <1>1, <1>3, <2>1 DEF IoAlloc, IoStates
  <2>3. QED BY <1>1, <2>2, IoRuns, IoKeepsTypes
<1>4. QED BY <1>2, <1>3

LEMMA IoClaimTypes == ASSUME TypeInv, IoClaim PROVE TypeInv'
<1>1. /\ io.pc = "claim" /\ io \in IoStates /\ Real(io.op) /\ io' = IoPush
      /\ table' = [table EXCEPT ![io.handle] = io.new]
      /\ UNCHANGED <<ops, pipe, running, files, engine, ready, threads, memory>>
  BY DEF IoClaim, TypeInv, TypeOK, Places, InFlight
<1>2. table' \in [Handles -> Fds \cup {None}]
  BY <1>1, IoRuns DEF IoStates
<1>3. QED BY <1>1, <1>2, IoPushFits, IoRuns, IoKeepsTypes

LEMMA PushTypes == ASSUME TypeInv, Push PROVE TypeInv'
<1> DEFINE t == io.op.thread
<1>1. /\ io.pc = "push" /\ io \in IoStates /\ Real(io.op) /\ io.op \in Ops
      /\ t \in Threads /\ threads \in [Threads -> Contexts]
      /\ threads' = [threads EXCEPT ![t] = [threads[t] EXCEPT
                       !.stack = Append(threads[t].stack, io.op)]]
      /\ UNCHANGED <<table, ops, pipe, running, files, engine, ready, memory>>
  BY DEF Push, TypeInv, TypeOK, Places, InFlight, IoStates, Real
<1>2. io' \in IoStates /\ io'.pc = "notify" /\ io'.op = io.op
  BY <1>1, IoMoves DEF Push
<1> HIDE DEF t
<1>3. /\ threads[t] \in Contexts /\ threads[t].stack \in Seq(Ops)
      /\ Append(threads[t].stack, io.op) \in Seq(Ops)
      /\ Len(Append(threads[t].stack, io.op)) = Len(threads[t].stack) + 1
      /\ Len(threads[t].stack) \in Nat
  BY <1>1 DEF Contexts
<1> DEFINE r == [threads[t] EXCEPT !.stack = Append(threads[t].stack, io.op)]
<1>4. r \in Contexts /\ r.stack = Append(threads[t].stack, io.op)
  BY <1>3, Restacked, ZenonT(40)
<1>5. threads' = [threads EXCEPT ![t] = r] BY <1>1
<1> HIDE DEF r
<1>6. threads' \in [Threads -> Contexts] BY <1>1, <1>4, <1>5
<1>7. SpBound'
  <2>1. SUFFICES ASSUME At("store") PROVE engine.sp <= Len(threads'[Cur].stack)
    BY <1>1 DEF SpBound, At, Cur
  <2>2. engine.sp <= Len(threads[Cur].stack) /\ engine.sp \in Nat /\ Cur \in Threads
    BY <2>1 DEF TypeInv, TypeOK, SpBound, Places, At, Busy, EngineStates
  <2>3. CASE Cur = t BY <1>1, <1>3, <1>4, <1>5, <2>2, <2>3
  <2>4. CASE Cur # t BY <1>1, <1>5, <2>2, <2>4
  <2>5. QED BY <2>3, <2>4
<1>8. QED
  BY <1>1, <1>2, <1>6, <1>7
  DEF TypeInv, TypeOK, Places, ContextsOutliveIo, At, Cur, Active, InFlight

LEMMA ThreadNotifyTypes == ASSUME TypeInv, ThreadNotify PROVE TypeInv'
<1> DEFINE t == io.op.thread
<1>1. /\ io.pc = "notify" /\ io \in IoStates /\ t \in Threads
      /\ threads \in [Threads -> Contexts] /\ ready \in Seq(Threads)
      /\ UNCHANGED <<table, ops, pipe, running, files, engine, memory>>
  BY DEF ThreadNotify, TypeInv, TypeOK, Places, InFlight, IoStates, Real
<1>2. io' \in IoStates /\ io'.pc = "scan"
  BY <1>1, NoOpFits DEF ThreadNotify, IoStates
<1>3. /\ threads' \in [Threads -> Contexts]
      /\ \A u \in Threads : threads'[u].stack = threads[u].stack
  <2>1. CASE threads[t].waiting
    <3> DEFINE r == [threads[t] EXCEPT !.waiting = FALSE]
    <3>1. threads' = [threads EXCEPT ![t] = r]
      BY <1>1, <2>1 DEF ThreadNotify
    <3>2. r \in Contexts /\ r.stack = threads[t].stack BY <1>1 DEF Contexts
    <3> HIDE DEF r
    <3>3. QED BY <1>1, <3>1, <3>2
  <2>2. CASE ~ threads[t].waiting
    <3>1. threads' = [threads EXCEPT ![t] = Early(t)]
      BY <1>1, <2>2 DEF ThreadNotify
    <3>2. Early(t) \in Contexts /\ Early(t).stack = threads[t].stack
      BY <1>1 DEF Contexts, Early
    <3>3. QED BY <1>1, <3>1, <3>2
  <2>3. QED BY <2>1, <2>2
<1>4. ready' \in Seq(Threads)
  BY <1>1, AppendLinks DEF ThreadNotify
<1>5. SpBound'
  BY <1>1, <1>3 DEF TypeInv, SpBound, Places, At, Cur, Busy
<1>6. QED
  BY <1>1, <1>2, <1>3, <1>4, <1>5
  DEF TypeInv, TypeOK, Places, ContextsOutliveIo, At, Cur, Active, InFlight

LEMMA TypeInit == ASSUME Init PROVE TypeInv
<1>1. /\ IoAt("down") \in IoStates /\ IoAt("down").pc = "down"
      /\ EngineAt("off") \in EngineStates /\ EngineAt("off").pc = "off"
      /\ EngineAt("off").cur = None
  BY IoAtFits, EngineAtFits
<1>2. TypeOK
  <2>1. table \in [Handles -> Fds \cup {None}] BY DEF Init
  <2>2. ops \in [Handles -> Ops] BY NoOpFits DEF Init
  <2>3. threads \in [Threads -> Contexts] BY ContextFits DEF Init
  <2>4. DOMAIN files = {} BY DEF Init
  <2>5. ready \in Seq(Threads) BY DEF Init
  <2>6. pipe = None /\ memory = None /\ running \in BOOLEAN BY DEF Init
  <2>7. io \in IoStates /\ engine \in EngineStates BY <1>1 DEF Init
  <2>8. QED BY <2>1, <2>2, <2>3, <2>4, <2>5, <2>6, <2>7 DEF TypeOK
<1>3. QED
  BY <1>1, <1>2, Sizes
  DEF Init, TypeInv, Places, ContextsOutliveIo, SpBound, At, Cur, Busy, Active, InFlight

LEMMA TypeStep == ASSUME TypeInv, [Next]_vars PROVE TypeInv'
<1>1. CASE EngineStep
  BY <1>1, PickTypes, UseResultTypes, WakeTypes, ThreadWaitTypes, StoreTypes,
     BlockedCallTypes, StopIoTypes, DeinitTypes DEF EngineStep
<1>2. CASE GuestCall
  BY <1>2, MemoryGrowTypes, SocketCreateTypes, SocketCloseTypes, RegisterTypes,
     FallBackTypes DEF GuestCall
<1>3. CASE IoStep
  BY <1>3, IoWaitTypes, IoScanTypes, IoCallTypes, IoAllocTypes, IoClaimTypes, PushTypes,
     ThreadNotifyTypes DEF IoStep
<1>4. CASE GuestYield \/ UnloadAllModules \/ Initialize \/ Arrive
  BY <1>4, GuestYieldTypes, UnloadTypes, InitializeTypes, ArriveTypes
<1>5. CASE UNCHANGED vars
  BY <1>5
  DEF TypeInv, TypeOK, Places, ContextsOutliveIo, SpBound, At, Cur, Active, InFlight, vars
<1>6. QED BY <1>1, <1>2, <1>3, <1>4, <1>5 DEF Next

LEMMA TypeInvariant == Spec => []TypeInv
BY TypeInit, TypeStep, PTL DEF Spec

(* Tables, contexts and both OS threads keep their types, with all windows
   between the two open. *)
THEOREM TypeCorrect == Spec => []TypeOK
<1>1. TypeInv => TypeOK BY DEF TypeInv
<1>2. QED BY <1>1, TypeInvariant, PTL

(* ContextsOutliveIo: no I/O thread outlives the contexts it pushes results
   to, in any number of lives of the engine. *)
THEOREM OutliveCorrect == Spec => []ContextsOutliveIo
<1>1. TypeInv => ContextsOutliveIo BY DEF TypeInv
<1>2. QED BY <1>1, TypeInvariant, PTL

-----------------------------------------------------------------------------
(* Handles and descriptors.  The argument needs that nothing comes between *)
(* the search of the handle table and its assignment: with the window      *)
(* "alloc" two descriptors do end in one handle.                           *)

NoAllocGap == "alloc" \notin Windows

Accepted == io.pc \in {"alloc", "claim"}

(* The descriptor accept() returned is open, and the handle found for it is
   still free; every other open descriptor has a handle, and only one. *)
HandleInv ==
  /\ io.new # None <=> Accepted
  /\ io.pc = "claim" => io.handle \in FreeHandles
  /\ Accepted => io.new \in DOMAIN files
  /\ \A g, h \in Handles : g # h /\ table[g] # None => table[g] # table[h]
  /\ \A h \in Handles : table[h] # None => table[h] \in DOMAIN files /\ table[h] # io.new
  /\ \A fd \in DOMAIN files : fd = io.new \/ \E h \in Handles : table[h] = fd
  /\ At("off") => \A h \in Handles : table[h] = None

(* A step that leaves handles and descriptors alone. *)
LEMMA KeepsHandles ==
  ASSUME HandleInv, UNCHANGED table, DOMAIN files' = DOMAIN files, io'.new = io.new,
         Accepted' <=> Accepted, io'.pc = "claim" => io.pc = "claim" /\ io'.handle = io.handle,
         At("off")' => At("off")
  PROVE  HandleInv'
BY DEF HandleInv, FreeHandles

(* A step of the engine thread that gives a new descriptor a handle. *)
LEMMA AllocKeepsHandles ==
  ASSUME HandleInv, TypeInv, NEW F, FilesOK(F), DOMAIN F = DOMAIN files, FreeFds # {},
         AllocHandle(F, Lowest(FreeFds)), UNCHANGED io, io.pc # "claim", ~ At("off")'
  PROVE  HandleInv'
<1> DEFINE fd == Lowest(FreeFds)
<1>1. fd \in Fds /\ fd \notin DOMAIN files /\ fd # None
  BY LowestFd, Sizes DEF FreeFds
<1>2. \A h \in Handles : table[h] # fd
  BY <1>1 DEF HandleInv
<1>3. io.new # fd
  BY <1>1, Sizes DEF HandleInv, Accepted
<1>4. CASE FreeHandles = {}
  <2>1. DOMAIN files' = DOMAIN files /\ UNCHANGED table
    BY <1>4 DEF AllocHandle
  <2>2. QED BY <2>1, KeepsHandles DEF Accepted
<1>5. CASE FreeHandles # {}
  <2> DEFINE n == Lowest(FreeHandles)
  <2>1. n \in Handles /\ table[n] = None
    BY <1>5, LowestHandle DEF FreeHandles
  <2>2. /\ files' = Opened(F, fd) /\ table' = [table EXCEPT ![n] = fd]
        /\ table \in [Handles -> Fds \cup {None}]
    BY <1>5 DEF AllocHandle, TypeInv, TypeOK
  <2> HIDE DEF fd, n
  <2>3. DOMAIN files' = DOMAIN files \cup {fd}
    BY <2>2 DEF Opened
  <2>4. /\ table'[n] = fd /\ \A h \in Handles : h # n => table'[h] = table[h]
    BY <2>1, <2>2
  <2>5. \A d \in DOMAIN files' : d = io'.new \/ \E h \in Handles : table'[h] = d
    <3>1. TAKE d \in DOMAIN files'
    <3>2. CASE d = fd BY <2>1, <2>4, <3>2
    <3>3. CASE d # fd
      <4>1. d = io.new \/ \E h \in Handles : table[h] = d
        BY <2>3, <3>3 DEF HandleInv
      <4>2. ASSUME NEW h \in Handles, table[h] = d PROVE table'[h] = d
        <5>1. d # None BY <2>3, <3>3, Sizes DEF TypeInv, TypeOK
        <5>2. QED BY <2>1, <2>4, <4>2, <5>1
      <4>3. QED BY <4>1, <4>2
    <3>4. QED BY <3>2, <3>3
  <2>6. \A h \in Handles : table'[h] # None => table'[h] \in DOMAIN files' /\ table'[h] # io'.new
    BY <1>3, <2>3, <2>4 DEF HandleInv
  <2>7. \A g, h \in Handles : g # h /\ table'[g] # None => table'[g] # table'[h]
    BY <1>2, <2>1, <2>4 DEF HandleInv
  <2>8. QED
    BY <2>3, <2>5, <2>6, <2>7 DEF HandleInv, Accepted
<1>6. QED BY <1>4, <1>5

LEMMA GuestKeepsHandles ==
  ASSUME HandleInv, TypeInv, NoAllocGap, GuestCall PROVE HandleInv'
<1>1. CASE MemoryGrow BY <1>1, KeepsHandles DEF MemoryGrow, Accepted, At
<1>2. CASE socket_create
  <2>1. io.pc # "claim" /\ ~ At("off")' /\ UNCHANGED io /\ FreeFds # {}
    BY <1>2 DEF socket_create, EngineMayAlloc, Open, NoAllocGap, Guest, At
  <2>2. FilesOK(files) /\ AllocHandle(files, Lowest(FreeFds))
    BY <1>2 DEF socket_create, TypeInv, TypeOK, FilesOK
  <2>3. QED BY <2>1, <2>2, AllocKeepsHandles
<1>3. ASSUME NEW h \in Handles, socket_close(h) PROVE HandleInv'
  <2>1. /\ table[h] # None /\ table \in [Handles -> Fds \cup {None}] /\ ~ At("off")
        /\ table' = [table EXCEPT ![h] = None] /\ UNCHANGED <<io, engine>>
    BY <1>3 DEF socket_close, FreeHandle, Guest, At, TypeInv, TypeOK
  <2>2. DOMAIN files' = DOMAIN files \ {table[h]}
    <3>1. FilesOK(files) BY DEF TypeInv, TypeOK, FilesOK
    <3>2. QED BY <1>3, <3>1, FilesFit DEF socket_close
  <2>3. table'[h] = None /\ \A g \in Handles : g # h => table'[g] = table[g]
    BY <2>1
  <2>4. \A d \in DOMAIN files' : d = io'.new \/ \E g \in Handles : table'[g] = d
    <3>1. TAKE d \in DOMAIN files'
    <3>2. d = io.new \/ \E g \in Handles \ {h} : table[g] = d
      BY <2>2 DEF HandleInv
    <3>3. QED BY <2>1, <2>3, <3>2
  <2>5. \A g \in Handles : table'[g] # None => table'[g] \in DOMAIN files' /\ table'[g] # io'.new
    BY <2>1, <2>2, <2>3 DEF HandleInv
  <2>6. \A f, g \in Handles : f # g /\ table'[f] # None => table'[f] # table'[g]
    BY <2>1, <2>3 DEF HandleInv
  <2>7. io.pc = "claim" => io.handle \in FreeHandles'
    BY <2>1, <2>3 DEF HandleInv, FreeHandles
  <2>8. Accepted => io.new \in DOMAIN files'
    BY <2>1, <2>2 DEF HandleInv
  <2>9. QED
    BY <2>1, <2>4, <2>5, <2>6, <2>7, <2>8 DEF HandleInv, Accepted, At
<1>4. ASSUME NEW h \in Handles, NEW mode \in {"accept", "recv"},
             Register(h, mode) \/ FallBack(h, mode)
      PROVE  HandleInv'
  <2>1. UNCHANGED <<table, files, io>> /\ ~ At("off")'
    <3>1. engine \in EngineStates BY DEF TypeInv, TypeOK
    <3>2. CASE Register(h, mode) BY <3>1, <3>2, EngineMoves DEF Register, At
    <3>3. CASE FallBack(h, mode)
      <4>1. engine' = [engine EXCEPT !.pc = "block", !.call = Operation(table[h], mode)]
        BY <3>3 DEF FallBack
      <4>2. engine'.pc = "block" BY <3>1, <4>1 DEF EngineStates
      <4>3. QED BY <3>3, <4>2 DEF FallBack, At
    <3>4. QED BY <1>4, <3>2, <3>3
  <2>2. QED BY <2>1, KeepsHandles DEF Accepted
<1>5. QED BY <1>1, <1>2, <1>3, <1>4 DEF GuestCall

LEMMA EngineKeepsHandles ==
  ASSUME HandleInv, TypeInv, NoAllocGap, EngineStep \/ GuestYield \/ UnloadAllModules
  PROVE  HandleInv'
<1>1. CASE UseResult \/ GuestYield \/ UnloadAllModules \/ StopIoManager \/ Pick \/ StoreStackTop
  <2>1. UNCHANGED <<table, files, io>>
    BY <1>1 DEF UseResult, GuestYield, UnloadAllModules, StopIoManager, Pick, StoreStackTop
  <2>2. ~ At("off")'
    <3>1. CASE UseResult BY <3>1 DEF UseResult, At
    <3>2. CASE Pick BY <3>2, EngineAtFits, RunsThread, PickTypes
                    DEF Pick, At, TypeInv, TypeOK
    <3>3. CASE GuestYield \/ UnloadAllModules \/ StopIoManager \/ StoreStackTop
      BY <3>3, EngineAtFits DEF GuestYield, UnloadAllModules, StopIoManager, StoreStackTop, At
    <3>4. QED BY <1>1, <3>1, <3>2, <3>3
  <2>3. QED BY <2>1, <2>2, KeepsHandles DEF Accepted
<1>2. CASE WakeIoManager \/ ThreadWait
  <2>1. UNCHANGED <<table, files, io>>
    BY <1>2 DEF WakeIoManager, ThreadWait
  <2>2. ~ At("off")'
    <3>1. engine \in EngineStates BY DEF TypeInv, TypeOK
    <3>2. CASE WakeIoManager BY <3>1, <3>2, EngineMoves DEF WakeIoManager, At
    <3>3. CASE ThreadWait
      <4>1. engine' = [engine EXCEPT !.pc = "store", !.sp = Len(threads[Cur].stack)]
        BY <3>3 DEF ThreadWait
      <4>2. QED BY <3>1, <4>1 DEF EngineStates, At
    <3>4. QED BY <1>2, <3>2, <3>3
  <2>3. QED BY <2>1, <2>2, KeepsHandles DEF Accepted
<1>3. CASE BlockedCall
  <2> DEFINE fd == engine.call.fd
  <2>1. /\ Cur \in Threads /\ FilesOK(files) /\ UNCHANGED io
    BY <1>3 DEF BlockedCall, At, TypeInv, TypeOK, Places, Busy, FilesOK
  <2>2. ~ At("off")'
    <3>1. engine' = [EngineAt("run") EXCEPT !.cur = Cur] BY <1>3 DEF BlockedCall
    <3>2. engine'.pc = "run" BY <2>1, <3>1, EngineAtFits, RunsThread
    <3>3. QED BY <3>2 DEF At
  <2>3. HasArrival(fd) => FilesOK(Taken(files, fd)) /\ DOMAIN Taken(files, fd) = DOMAIN files
    BY <2>1, FilesFit DEF HasArrival
  <2>4. CASE HasArrival(fd) /\ files' = Taken(files, fd) /\ UNCHANGED table
    BY <2>1, <2>2, <2>3, <2>4, KeepsHandles DEF Accepted
  <2>5. CASE /\ HasArrival(fd) /\ FreeFds # {} /\ EngineMayAlloc
             /\ AllocHandle(Taken(files, fd), Lowest(FreeFds))
    <3>1. io.pc # "claim" BY <2>5 DEF EngineMayAlloc, Open, NoAllocGap
    <3>2. QED BY <2>1, <2>2, <2>3, <2>5, <3>1, AllocKeepsHandles
  <2>6. CASE UNCHANGED <<files, table>>
    BY <2>1, <2>2, <2>6, KeepsHandles DEF Accepted
  <2>7. QED BY <1>3, <2>4, <2>5, <2>6 DEF BlockedCall
<1>4. CASE Deinit
  <2>1. /\ table' = [h \in Handles |-> None] /\ io.pc = "down" /\ UNCHANGED io
        /\ files' = Closed(files, {table[h] : h \in Handles})
    BY <1>4 DEF Deinit, Joined
  <2>2. \A fd \in DOMAIN files : fd \in {table[h] : h \in Handles}
    BY <2>1, Sizes DEF HandleInv, Accepted, TypeInv, TypeOK
  <2>3. DOMAIN files' = {}
    BY <2>1, <2>2 DEF Closed
  <2>4. QED BY <2>1, <2>3 DEF HandleInv, Accepted
<1>5. QED BY <1>1, <1>2, <1>3, <1>4 DEF EngineStep

LEMMA LifeKeepsHandles == ASSUME HandleInv, TypeInv, Initialize \/ Arrive PROVE HandleInv'
<1>1. CASE Initialize
  <2>1. /\ table' = [h \in Handles |-> None] /\ UNCHANGED files
        /\ io'.pc = "top" /\ io'.new = None
    BY <1>1, IoAtFits DEF Initialize
  <2>2. DOMAIN files = {}
    <3>1. io.new = None /\ \A h \in Handles : table[h] = None
      BY <1>1 DEF Initialize, TypeInv, ContextsOutliveIo, HandleInv, Accepted
    <3>2. QED BY <3>1, Sizes, ZenonT(40) DEF HandleInv, TypeInv, TypeOK
  <2>3. QED BY <2>1, <2>2 DEF HandleInv, Accepted
<1>2. CASE Arrive
  <2>1. DOMAIN files' = DOMAIN files /\ UNCHANGED <<table, io, engine>>
    BY <1>2 DEF Arrive
  <2>2. QED BY <2>1, KeepsHandles DEF Accepted, At
<1>3. QED BY <1>1, <1>2

LEMMA IoKeepsHandles == ASSUME HandleInv, TypeInv, IoStep PROVE HandleInv'
<1>1. io \in IoStates /\ FilesOK(files) /\ table \in [Handles -> Fds \cup {None}]
  BY DEF TypeInv, TypeOK, FilesOK
<1>2. CASE IoTop \/ IoSelect \/ IoSelectNone \/ IoDrain
  <2>1. UNCHANGED <<table, files, engine>> /\ ~ Accepted /\ io.new = None
    BY <1>2 DEF IoTop, IoSelect, IoSelectNone, IoDrain, Accepted, HandleInv
  <2>2. io'.new = None /\ io'.pc \notin {"alloc", "claim"}
    <3>1. CASE IoTop
      <4>1. Watched \in SUBSET Fds BY DEF Watched, TypeInv, Places, Real
      <4>2. QED BY <3>1, <4>1, IoAtFits, IoWatches DEF IoTop
    <3>2. CASE IoSelect
      <4>1. PICK S \in SUBSET Fds, pc \in {"drain", "scan"} : IoWake(pc, S)
        BY <3>2 DEF IoSelect, TypeInv, TypeOK, IoStates
      <4>2. QED BY <4>1, IoAtFits, IoWatches DEF IoWake
    <3>3. CASE IoSelectNone BY <3>3, IoAtFits DEF IoSelectNone
    <3>4. CASE IoDrain BY <1>1, <2>1, <3>4, IoMoves DEF IoDrain
    <3>5. QED BY <1>2, <3>1, <3>2, <3>3, <3>4
  <2>3. QED BY <2>1, <2>2, KeepsHandles DEF Accepted, At
<1>3. CASE IoScan
  <2>1. UNCHANGED <<table, files, engine>> /\ ~ Accepted /\ io.new = None
    BY <1>3 DEF IoScan, Accepted, HandleInv
  <2>2. io'.new = None /\ io'.pc \notin {"alloc", "claim"}
    <3>1. CASE Hits = {} BY <1>3, <3>1, IoAtFits DEF IoScan
    <3>2. CASE Hits # {}
      <4>1. io' = [io EXCEPT !.pc = "io", !.next = Lowest(Hits) + 1, !.op = ops[Lowest(Hits)]]
        BY <1>3, <3>2 DEF IoScan
      <4>2. QED BY <1>1, <2>1, <4>1 DEF IoStates
    <3>3. QED BY <3>1, <3>2
  <2>3. QED BY <2>1, <2>2, KeepsHandles DEF Accepted, At
<1>4. CASE IoCall
  <2> DEFINE fd == io.op.fd
             new == Lowest(FreeFds)
  <2>1. UNCHANGED <<table, engine>> /\ ~ Accepted /\ io.new = None
    BY <1>4 DEF IoCall, Accepted, HandleInv
  <2>2. HasArrival(fd) => FilesOK(Taken(files, fd)) /\ DOMAIN Taken(files, fd) = DOMAIN files
    BY <1>1, FilesFit DEF HasArrival
  <2>3. CASE /\ io' = [io EXCEPT !.pc = "push"]
             /\ UNCHANGED files \/ (HasArrival(fd) /\ files' = Taken(files, fd))
    <3>1. io'.new = None /\ io'.pc = "push" BY <1>1, <2>1, <2>3, IoMoves
    <3>2. DOMAIN files' = DOMAIN files BY <2>2, <2>3
    <3>3. QED BY <2>1, <3>1, <3>2, KeepsHandles DEF Accepted, At
  <2>4. CASE /\ HasArrival(fd) /\ FreeFds # {} /\ files' = Opened(Taken(files, fd), new)
             /\ io' = [io EXCEPT !.pc = "alloc", !.new = new]
    <3>1. new \in Fds /\ new \notin DOMAIN files /\ new # None
      BY <2>4, LowestFd, Sizes DEF FreeFds
    <3>2. io'.pc = "alloc" /\ io'.new = new BY <1>1, <2>4 DEF IoStates
    <3>3. DOMAIN files' = DOMAIN files \cup {new}
      <4>1. files' = Opened(Taken(files, fd), new) /\ DOMAIN Taken(files, fd) = DOMAIN files
        BY <2>2, <2>4
      <4> HIDE DEF fd, new
      <4>2. QED BY <4>1 DEF Opened
    <3> HIDE DEF new
    <3>4. \A h \in Handles : table[h] # new BY <3>1 DEF HandleInv
    <3>5. QED BY <1>1, <2>1, <3>1, <3>2, <3>3, <3>4, Sizes DEF HandleInv, Accepted, At,
                                                         TypeInv, TypeOK
  <2>5. QED BY <1>4, <2>3, <2>4 DEF IoCall
<1>5. CASE IoAlloc
  <2>1. /\ io.pc = "alloc" /\ io.new \in DOMAIN files /\ io.new # None
        /\ UNCHANGED <<table, engine>>
    BY <1>5 DEF IoAlloc, HandleInv, Accepted
  <2>2. CASE FreeHandles = {}
    <3>1. /\ files' = Closed(files, {io.new})
          /\ io' \in IoStates /\ io'.pc = "push" /\ io'.new = None
      BY <1>1, <1>5, <2>2, IoPushFits DEF IoAlloc
    <3>2. DOMAIN files' = DOMAIN files \ {io.new} BY <1>1, <3>1, FilesFit
    <3>3. \A h \in Handles : table[h] # io.new BY <2>1 DEF HandleInv
    <3>4. QED BY <2>1, <3>1, <3>2, <3>3 DEF HandleInv, Accepted, At
  <2>3. CASE FreeHandles # {}
    <3>1. io' = [io EXCEPT !.pc = "claim", !.handle = Lowest(FreeHandles)] /\ UNCHANGED files
      BY <1>5, <2>3 DEF IoAlloc
    <3>2. io'.pc = "claim" /\ io'.handle \in FreeHandles /\ io'.new = io.new
      BY <1>1, <2>3, <3>1, LowestHandle DEF IoStates, FreeHandles
    <3>3. QED BY <2>1, <3>1, <3>2 DEF HandleInv, Accepted, At, FreeHandles
  <2>4. QED BY <2>2, <2>3
<1>6. CASE IoClaim
  <2>1. /\ io.pc = "claim" /\ io.handle \in Handles /\ table[io.handle] = None
        /\ io.new \in DOMAIN files /\ io.new # None /\ UNCHANGED <<files, engine>>
        /\ table' = [table EXCEPT ![io.handle] = io.new]
    BY <1>6 DEF IoClaim, HandleInv, Accepted, FreeHandles
  <2>2. io'.pc = "push" /\ io'.new = None
    BY <1>1, <1>6, IoPushFits DEF IoClaim
  <2>3. /\ table'[io.handle] = io.new
        /\ \A h \in Handles : h # io.handle => table'[h] = table[h]
    BY <1>1, <2>1
  <2>4. ~ At("off")
    BY <2>1 DEF TypeInv, ContextsOutliveIo
  <2>5. \A fd \in DOMAIN files : \E h \in Handles : table'[h] = fd
    <3>1. TAKE fd \in DOMAIN files
    <3>2. CASE fd = io.new BY <2>1, <2>3, <3>2
    <3>3. CASE fd # io.new
      <4>1. PICK h \in Handles : table[h] = fd BY <3>3 DEF HandleInv
      <4>2. fd # None BY <1>1, Sizes DEF FilesOK
      <4>3. QED BY <2>1, <2>3, <4>1, <4>2
    <3>4. QED BY <3>2, <3>3
  <2>6. \A g, h \in Handles : g # h /\ table'[g] # None => table'[g] # table'[h]
    BY <2>1, <2>3 DEF HandleInv
  <2>7. \A h \in Handles : table'[h] # None => table'[h] \in DOMAIN files /\ table'[h] # io'.new
    BY <2>1, <2>2, <2>3 DEF HandleInv
  <2>8. QED BY <2>1, <2>2, <2>4, <2>5, <2>6, <2>7 DEF HandleInv, Accepted, At
<1>7. CASE Push
  <2>1. UNCHANGED <<table, files, engine>> /\ ~ Accepted /\ io.new = None
    BY <1>7 DEF Push, Accepted, HandleInv
  <2>2. io'.new = None /\ io'.pc = "notify" BY <1>1, <1>7, <2>1, IoMoves DEF Push
  <2>3. QED BY <2>1, <2>2, KeepsHandles DEF Accepted, At
<1>8. CASE ThreadNotify
  <2>1. UNCHANGED <<table, files, engine>> /\ ~ Accepted /\ io.new = None
    BY <1>8 DEF ThreadNotify, Accepted, HandleInv
  <2>2. io'.new = None /\ io'.pc = "scan"
    BY <1>1, <1>8, <2>1 DEF ThreadNotify, IoStates
  <2>3. QED BY <2>1, <2>2, KeepsHandles DEF Accepted, At
<1>9. QED BY <1>2, <1>3, <1>4, <1>5, <1>6, <1>7, <1>8 DEF IoStep

LEMMA HandleInvariant == ASSUME NoAllocGap PROVE Spec => []HandleInv
<1>1. Init => HandleInv
  BY IoAtFits DEF Init, HandleInv, Accepted, At
<1>2. TypeInv /\ HandleInv /\ [Next]_vars => HandleInv'
  <2> SUFFICES ASSUME TypeInv, HandleInv, [Next]_vars PROVE HandleInv'
    OBVIOUS
  <2>1. CASE UNCHANGED vars
    BY <2>1, KeepsHandles DEF vars, Accepted, At
  <2>2. QED
    BY <2>1, GuestKeepsHandles, EngineKeepsHandles, LifeKeepsHandles, IoKeepsHandles DEF Next
<1>3. QED BY <1>1, <1>2, TypeInvariant, PTL DEF Spec

(* HandlesOwnFiles, for any size of the table and any number of descriptors:
   no socket leaks, and none is reached by two handles. *)
THEOREM HandlesCorrect == ASSUME NoAllocGap PROVE Spec => []HandlesOwnFiles
<1>1. TypeInv /\ HandleInv => HandlesOwnFiles
  <2> SUFFICES ASSUME TypeInv, HandleInv PROVE HandlesOwnFiles
    OBVIOUS
  <2>1. {table[h] : h \in Handles \ FreeHandles} \cup ({io.new} \ {None}) = DOMAIN files
    <3>1. ASSUME NEW fd \in DOMAIN files
          PROVE  (\E h \in Handles : table[h] # None /\ table[h] = fd)
                    \/ (fd = io.new /\ io.new # None)
      <4>1. fd # None BY Sizes DEF TypeInv, TypeOK
      <4>2. QED BY <4>1 DEF HandleInv
    <3>2. io.new # None => io.new \in DOMAIN files BY DEF HandleInv, Accepted
    <3>3. \A h \in Handles : table[h] # None => table[h] \in DOMAIN files BY DEF HandleInv
    <3>4. QED BY <3>1, <3>2, <3>3 DEF FreeHandles
  <2>2. QED BY <2>1 DEF HandlesOwnFiles, HandleInv
<1>2. QED BY <1>1, HandleInvariant, TypeInvariant, PTL

-----------------------------------------------------------------------------
(* Results.  The argument needs that RunLoop's copy of stack_top is not    *)
(* made stale: with the window "result" the pushed result is lost.         *)

NoResultGap == "result" \notin Windows

(* The operation of thread t is in a slot, in the I/O thread's hands, ... *)
InSlot(t) == \E i \in Handles : ops[i].thread = t
Flying(t) == InFlight /\ io.op.thread = t

(* ... and its result is not yet, or is, on the stack. *)
Asked(t) == InSlot(t) \/ (Flying(t) /\ io.pc # "notify")
Out(t) == InSlot(t) \/ Flying(t)

(* A thread has at most one operation. *)
OneOp ==
  \A t \in Threads :
    /\ \A i, j \in Handles : ops[i].thread = t /\ ops[j].thread = t => i = j
    /\ Flying(t) => ~ InSlot(t)

(* The thread has made a call and has not come to ThreadWait's test. *)
Calling(t) == engine.pc \in {"wake", "wait"} /\ Cur = t

(* A thread's operation is the one it expects the result of, and the result
   is on its stack from the push on; while the operation is out the thread
   is about to wait or waits, and a notification stands for one that came
   first.  A thread that waits is in no list and does not run. *)
ThreadInv(t) ==
  LET c == threads[t]
  IN  /\ \A i \in Handles : ops[i].thread = t => ops[i] = c.due
      /\ Flying(t) => io.op = c.due
      /\ c.stack = IF Asked(t) \/ c.due = NoOp THEN << >> ELSE <<c.due>>
      /\ Out(t) => Calling(t) \/ c.waiting
      /\ Calling(t) => Out(t) \/ c.pending
      /\ c.pending => Calling(t) /\ ~ Out(t)
      /\ c.waiting => Out(t) /\ ~ Linked(t, ready) /\ (Cur = t => At("store"))
      /\ Cur = t => ~ Linked(t, ready)
      /\ At("store") /\ Cur = t => engine.sp = Len(c.stack)

ResultInv ==
  /\ OneOp /\ NoDuplicates(ready)
  /\ ~ At("off") => \A t \in Threads : ThreadInv(t)
  /\ At("off") => \A t \in Threads : threads[t] = Context

(* Threads a step does not touch. *)
LEMMA ThreadUnmoved ==
  ASSUME NEW t \in Threads, ThreadInv(t), threads'[t] = threads[t],
         \A i \in Handles : ops'[i] = ops[i] \/ (ops[i].thread # t /\ ops'[i].thread # t),
         Flying(t)' <=> Flying(t),
         Flying(t) => io'.op = io.op /\ (io'.pc = "notify" <=> io.pc = "notify"),
         engine' = engine \/ (Cur # t /\ Cur' # t),
         Linked(t, ready') => Linked(t, ready)
  PROVE  ThreadInv(t)'
<1>1. /\ InSlot(t)' <=> InSlot(t)
      /\ \A i \in Handles : ops'[i].thread = t => ops'[i] = threads'[t].due
  BY DEF ThreadInv, InSlot
<1>2. (Asked(t)' <=> Asked(t)) /\ (Out(t)' <=> Out(t)) /\ (Calling(t)' <=> Calling(t))
  BY <1>1 DEF Asked, Out, Calling, Cur
<1>3. QED BY <1>1, <1>2 DEF ThreadInv, At, Cur

(* A step that does not touch operations, contexts and their lists. *)
LEMMA QuietKeeps ==
  ASSUME ResultInv, UNCHANGED <<ops, io, engine, ready, threads>> PROVE ResultInv'
BY DEF ResultInv, OneOp, InSlot, Flying, InFlight, ThreadInv, Asked, Out, Calling, At, Cur

LEMMA EngineQuiet ==
  ASSUME ResultInv, UNCHANGED <<ops, io, ready, threads>>, Cur' = Cur,
         engine.pc \notin {"wake", "wait", "store", "off"},
         engine'.pc \notin {"wake", "wait", "store", "off"}
  PROVE  ResultInv'
<1>1. OneOp' BY DEF ResultInv, OneOp, InSlot, Flying, InFlight
<1>2. ASSUME NEW t \in Threads PROVE ThreadInv(t)'
  <2>1. ThreadInv(t) BY DEF ResultInv, At
  <2>2. /\ (Flying(t)' <=> Flying(t)) /\ (InSlot(t)' <=> InSlot(t))
        /\ (Asked(t)' <=> Asked(t)) /\ (Out(t)' <=> Out(t))
        /\ ~ Calling(t) /\ ~ Calling(t)'
    BY DEF Asked, Out, Calling, InSlot, Flying, InFlight
  <2>3. QED BY <2>1, <2>2 DEF ThreadInv, At
<1>3. QED BY <1>1, <1>2 DEF ResultInv, At

LEMMA IoQuiet ==
  ASSUME ResultInv, TypeInv, UNCHANGED <<ops, engine, ready, threads>>, InFlight' <=> InFlight,
         InFlight => io'.op = io.op /\ io.pc # "notify" /\ io'.pc # "notify"
  PROVE  ResultInv'
<1>1. \A t \in Threads : Flying(t)' <=> Flying(t) BY DEF Flying
<1>2. OneOp' BY <1>1 DEF ResultInv, OneOp, InSlot
<1>3. ASSUME NEW t \in Threads, ThreadInv(t) PROVE ThreadInv(t)'
  BY <1>1, <1>3, ThreadUnmoved DEF Flying
<1>4. QED BY <1>2, <1>3 DEF ResultInv, At

LEMMA PickKeeps == ASSUME ResultInv, TypeInv, Pick PROVE ResultInv'
<1>0. PICK n \in Threads : n = Head(ready)
  BY DEF Pick, TypeInv, TypeOK
<1>1. /\ Linked(n, ready) /\ NoDuplicates(ready')
      /\ \A u : Linked(u, ready') <=> Linked(u, ready) /\ u # n
  BY <1>0, TailUnlinks DEF Pick, ResultInv, TypeInv, TypeOK
<1>2. /\ engine.pc = "idle" /\ Cur \notin Threads /\ UNCHANGED <<ops, io, threads>>
  BY DEF Pick, At, TypeInv, Places, Busy
<1>3. engine'.pc = "run" /\ Cur' = n
  <2>1. engine' = [EngineAt("run") EXCEPT !.cur = n] BY <1>0 DEF Pick
  <2>2. QED BY <1>1, <2>1, EngineAtFits, RunsThread DEF Cur
<1>4. \A t \in Threads : ThreadInv(t) BY <1>2 DEF ResultInv, At
<1>5. \A t \in Threads : Flying(t)' <=> Flying(t)
  BY <1>2 DEF Flying, InFlight
<1>6. OneOp' BY <1>2, <1>5 DEF ResultInv, OneOp, InSlot
<1>7. ASSUME NEW t \in Threads, t # n PROVE ThreadInv(t)'
  BY <1>1, <1>2, <1>3, <1>4, <1>5, <1>7, ThreadUnmoved
<1>8. ThreadInv(n)'
  <2>1. ThreadInv(n) /\ ~ Calling(n) BY <1>1, <1>2, <1>4 DEF Calling
  <2>2. ~ threads[n].waiting /\ ~ threads[n].pending /\ ~ Out(n)
    BY <1>1, <2>1 DEF ThreadInv
  <2>3. ~ Out(n)' /\ ~ Asked(n)' /\ ~ Asked(n) /\ ~ Calling(n)'
    BY <1>1, <1>2, <1>3, <1>5, <2>2 DEF Out, Asked, InSlot, Calling
  <2>4. \A i \in Handles : ops'[i].thread # n
    BY <2>3 DEF Out, InSlot
  <2>5. QED BY <1>1, <1>2, <1>3, <1>5, <2>1, <2>2, <2>3, <2>4 DEF ThreadInv, At, Out
<1>9. QED BY <1>1, <1>3, <1>6, <1>7, <1>8 DEF ResultInv, At

(* A thread that runs guest code has no operation, and none has notified
   it. *)
LEMMA RunnerFree ==
  ASSUME ResultInv, TypeInv, engine.pc \in {"run", "block"}
  PROVE  /\ Cur \in Threads /\ ThreadInv(Cur) /\ ~ Calling(Cur)
         /\ ~ threads[Cur].waiting /\ ~ threads[Cur].pending
         /\ ~ Out(Cur) /\ ~ Asked(Cur) /\ ~ InSlot(Cur) /\ ~ Flying(Cur)
         /\ ~ Linked(Cur, ready)
<1>1. Cur \in Threads /\ ThreadInv(Cur) /\ ~ Calling(Cur)
  BY DEF ResultInv, TypeInv, Places, Busy, At, Calling
<1>2. QED BY <1>1 DEF ThreadInv, At, Out, Asked

LEMMA UseResultKeeps == ASSUME ResultInv, TypeInv, UseResult PROVE ResultInv'
<1>1. /\ engine.pc = "run" /\ threads \in [Threads -> Contexts]
      /\ UNCHANGED <<ops, io, engine, ready>>
  BY DEF UseResult, At, TypeInv, TypeOK
<1>2. /\ threads'[Cur].stack = << >> /\ threads'[Cur].due = NoOp
      /\ threads'[Cur].waiting = threads[Cur].waiting
      /\ threads'[Cur].pending = threads[Cur].pending
      /\ \A t \in Threads : t # Cur => threads'[t] = threads[t]
  BY <1>1, RunnerFree DEF UseResult, Contexts
<1>3. \A t \in Threads : Flying(t)' <=> Flying(t) BY <1>1 DEF Flying, InFlight
<1>4. OneOp' BY <1>1, <1>3 DEF ResultInv, OneOp, InSlot
<1>5. ASSUME NEW t \in Threads, t # Cur PROVE ThreadInv(t)'
  BY <1>1, <1>2, <1>3, <1>5, ThreadUnmoved DEF ResultInv, At
<1>6. ASSUME NEW t \in Threads, t = Cur PROVE ThreadInv(t)'
  <2>1. ~ InSlot(t) /\ ~ Flying(t) /\ ~ Linked(t, ready) /\ ~ Calling(t)
        /\ ~ threads[t].waiting /\ ~ threads[t].pending
    BY <1>1, <1>6, RunnerFree
  <2>2. ~ InSlot(t)' /\ ~ Flying(t)' /\ ~ Calling(t)'
    BY <1>1, <1>3, <2>1 DEF InSlot, Calling, Cur
  <2>3. QED
    BY <1>1, <1>2, <1>6, <2>1, <2>2 DEF ThreadInv, InSlot, Out, Asked, At
<1>7. QED
  BY <1>1, <1>4, <1>5, <1>6 DEF ResultInv, At

LEMMA GuestYieldKeeps == ASSUME ResultInv, TypeInv, GuestYield PROVE ResultInv'
<1>1. /\ engine.pc = "run" /\ ready \in Seq(Threads) /\ ready' = Append(ready, Cur)
      /\ UNCHANGED <<ops, io, threads>> /\ threads[Cur].due = NoOp
  BY DEF GuestYield, Guest, At, TypeInv, TypeOK
<1>2. /\ NoDuplicates(ready')
      /\ \A u : Linked(u, ready') <=> Linked(u, ready) \/ u = Cur
  BY <1>1, RunnerFree, AppendLinks DEF ResultInv
<1>3. engine'.pc = "idle" /\ Cur' \notin Threads
  BY EngineAtFits, Sizes DEF GuestYield, Cur
<1>4. \A t \in Threads : (Flying(t)' <=> Flying(t)) /\ (InSlot(t)' <=> InSlot(t))
  BY <1>1 DEF Flying, InFlight, InSlot
<1>5. OneOp' BY <1>1, <1>4 DEF ResultInv, OneOp, InSlot
<1>6. ASSUME NEW t \in Threads, t # Cur PROVE ThreadInv(t)'
  BY <1>1, <1>2, <1>3, <1>4, <1>6, ThreadUnmoved DEF ResultInv, At
<1>7. ASSUME NEW t \in Threads, t = Cur PROVE ThreadInv(t)'
  <2>1. /\ ThreadInv(t) /\ ~ InSlot(t) /\ ~ Flying(t) /\ ~ Calling(t) /\ ~ Asked(t)
        /\ ~ threads[t].waiting /\ ~ threads[t].pending
    BY <1>1, <1>7, RunnerFree
  <2>2. ~ InSlot(t)' /\ ~ Flying(t)' /\ ~ Calling(t)'
    BY <1>3, <1>4, <2>1 DEF Calling
  <2>3. QED
    BY <1>1, <1>3, <1>7, <2>1, <2>2 DEF ThreadInv, InSlot, Out, Asked, At
<1>8. QED BY <1>2, <1>3, <1>5, <1>6, <1>7 DEF ResultInv, At

LEMMA RegisterKeeps ==
  ASSUME ResultInv, TypeInv, NEW h \in Handles, NEW mode \in {"accept", "recv"},
         Register(h, mode)
  PROVE  ResultInv'
<1>1. PICK o : o = Operation(table[h], mode)
  OBVIOUS
<1>2. PICK t \in Threads : t = Cur
  BY RunnerFree DEF Register, Guest, At
<1>3. PICK n : n = Lowest(FreeSlots)
  OBVIOUS
<1>4. /\ engine.pc = "run" /\ table[h] \in Fds /\ n \in Handles /\ ops[n] = NoOp
      /\ threads[t].due = NoOp /\ threads \in [Threads -> Contexts] /\ ops \in [Handles -> Ops]
  BY <1>2, <1>3, LowestSlot
  DEF Register, Guest, At, TypeInv, TypeOK, FreeSlots, Active
<1>5. o \in Ops /\ Real(o) /\ o.thread = t /\ o # NoOp
  BY <1>1, <1>2, <1>4, OperationFits, NoOpFits DEF TypeInv, TypeOK
<1>6. /\ ops' = [ops EXCEPT ![n] = o] /\ threads' = [threads EXCEPT ![t].due = o]
      /\ UNCHANGED <<io, ready>>
  BY <1>1, <1>2, <1>3 DEF Register
<1>7. engine'.pc = "wake" /\ Cur' = t
  BY <1>2, EngineMoves DEF Register, TypeInv, TypeOK, Cur
<1>8. /\ threads'[t].due = o /\ threads'[t].stack = threads[t].stack
      /\ threads'[t].waiting = threads[t].waiting /\ threads'[t].pending = threads[t].pending
      /\ \A u \in Threads : u # t => threads'[u] = threads[u]
  BY <1>4, <1>6 DEF Contexts
<1>9. /\ ops'[n] = o /\ \A i \in Handles : i # n => ops'[i] = ops[i]
  BY <1>4, <1>6
<1>10. /\ ThreadInv(t) /\ ~ InSlot(t) /\ ~ Flying(t) /\ ~ Asked(t) /\ ~ Linked(t, ready)
       /\ ~ threads[t].waiting /\ ~ threads[t].pending
  BY <1>2, <1>4, RunnerFree
<1>11. /\ \A u \in Threads : Flying(u)' <=> Flying(u)
       /\ \A u \in Threads : u # t => (InSlot(u)' <=> InSlot(u))
       /\ \A i \in Handles : ops'[i].thread = t <=> i = n
  BY <1>4, <1>5, <1>6, <1>9, <1>10, NoOpFits, Sizes DEF Flying, InFlight, InSlot
<1>12. OneOp'
  <2>1. ASSUME NEW u \in Threads, u # t
        PROVE  \A i \in Handles : ops'[i].thread = u => ops[i].thread = u
    BY <1>5, <1>9, <2>1
  <2>2. QED BY <1>10, <1>11, <2>1 DEF ResultInv, OneOp
<1>13. ASSUME NEW u \in Threads, u # t PROVE ThreadInv(u)'
  <2>1. \A i \in Handles : ops'[i] = ops[i] \/ (ops[i].thread # u /\ ops'[i].thread # u)
    BY <1>4, <1>5, <1>9, <1>13, NoOpFits, Sizes
  <2>2. ThreadInv(u) /\ Cur # u /\ Cur' # u
    BY <1>2, <1>4, <1>7, <1>13 DEF ResultInv, At
  <2>3. QED BY <1>6, <1>8, <1>11, <1>13, <2>1, <2>2, ThreadUnmoved
<1>14. ThreadInv(t)'
  <2>1. InSlot(t)' /\ ~ Flying(t)' /\ Calling(t)' /\ Asked(t)'
    BY <1>4, <1>7, <1>10, <1>11 DEF InSlot, Calling, Asked
  <2>2. threads'[t].stack = << >>
    BY <1>4, <1>8, <1>10 DEF ThreadInv
  <2>3. QED
    BY <1>6, <1>7, <1>8, <1>9, <1>10, <1>11, <2>1, <2>2 DEF ThreadInv, Out, At
<1>15. QED
  BY <1>6, <1>7, <1>12, <1>13, <1>14 DEF ResultInv, At

LEMMA WakeKeeps == ASSUME ResultInv, TypeInv, WakeIoManager PROVE ResultInv'
<1>1. engine.pc = "wake" /\ engine'.pc = "wait" /\ Cur' = Cur
  BY EngineMoves DEF WakeIoManager, At, TypeInv, TypeOK, Cur
<1>2. UNCHANGED <<ops, io, ready, threads>> BY DEF WakeIoManager
<1>3. \A t \in Threads : /\ (Flying(t)' <=> Flying(t)) /\ (InSlot(t)' <=> InSlot(t))
                         /\ (Calling(t)' <=> Calling(t))
  BY <1>1, <1>2 DEF Flying, InFlight, InSlot, Calling
<1>4. OneOp' BY <1>2, <1>3 DEF ResultInv, OneOp
<1>5. ASSUME NEW t \in Threads, ThreadInv(t) PROVE ThreadInv(t)'
  <2>1. (Asked(t)' <=> Asked(t)) /\ (Out(t)' <=> Out(t))
    BY <1>2, <1>3 DEF Asked, Out
  <2>2. QED BY <1>1, <1>2, <1>3, <1>5, <2>1 DEF ThreadInv, At
<1>6. QED BY <1>1, <1>2, <1>4, <1>5 DEF ResultInv, At

LEMMA ThreadWaitKeeps == ASSUME ResultInv, TypeInv, ThreadWait PROVE ResultInv'
<1>1. PICK t \in Threads : t = Cur
  BY DEF ThreadWait, At, TypeInv, Places, Busy
<1>2. /\ engine.pc = "wait" /\ UNCHANGED <<ops, io, ready>>
      /\ threads \in [Threads -> Contexts] /\ engine \in EngineStates
  BY DEF ThreadWait, At, TypeInv, TypeOK
<1>3. threads[t] \in Contexts /\ Len(threads[t].stack) \in Nat
  BY <1>1, <1>2 DEF Contexts
<1>4. engine'.pc = "store" /\ Cur' = t /\ engine'.sp = Len(threads[t].stack)
  <2>1. engine' = [engine EXCEPT !.pc = "store", !.sp = Len(threads[t].stack)]
    BY <1>1 DEF ThreadWait
  <2>2. QED BY <1>1, <1>2, <1>3, <2>1 DEF EngineStates, Cur
<1>5. /\ threads'[t].waiting = ~ threads[t].pending /\ threads'[t].pending = FALSE
      /\ threads'[t].stack = threads[t].stack /\ threads'[t].due = threads[t].due
      /\ \A u \in Threads : u # t => threads'[u] = threads[u]
  <2>1. threads' = [threads EXCEPT ![t] = [threads[t] EXCEPT
                      !.waiting = ~ threads[t].pending, !.pending = FALSE]]
    BY <1>1, <1>2 DEF ThreadWait
  <2> DEFINE r == [threads[t] EXCEPT !.waiting = ~ threads[t].pending, !.pending = FALSE]
  <2>2. /\ r.waiting = ~ threads[t].pending /\ r.pending = FALSE
        /\ r.stack = threads[t].stack /\ r.due = threads[t].due
    BY <1>3 DEF Contexts
  <2>3. threads' = [threads EXCEPT ![t] = r] BY <2>1
  <2> HIDE DEF r
  <2>4. QED BY <1>1, <1>2, <2>2, <2>3
<1>6. \A u \in Threads : /\ (Flying(u)' <=> Flying(u)) /\ (InSlot(u)' <=> InSlot(u))
                         /\ (Asked(u)' <=> Asked(u)) /\ (Out(u)' <=> Out(u))
  BY <1>2 DEF Flying, InFlight, InSlot, Asked, Out
<1>7. OneOp' BY <1>2, <1>6 DEF ResultInv, OneOp
<1>8. ASSUME NEW u \in Threads, u # t PROVE ThreadInv(u)'
  BY <1>1, <1>2, <1>4, <1>5, <1>6, <1>8, ThreadUnmoved DEF ResultInv, At
<1>9. ThreadInv(t)'
  <2>1. ThreadInv(t) /\ Calling(t) BY <1>1, <1>2 DEF ResultInv, At, Calling
  <2>2. ~ threads[t].waiting /\ ~ Linked(t, ready) /\ (Out(t) \/ threads[t].pending)
    BY <1>1, <1>2, <2>1 DEF ThreadInv, At
  <2>3. threads[t].pending => ~ Out(t) BY <2>1 DEF ThreadInv
  <2>4. ~ Calling(t)' BY <1>4 DEF Calling
  <2>5. /\ \A i \in Handles : ops'[i].thread = t => ops'[i] = threads'[t].due
        /\ Flying(t)' => io'.op = threads'[t].due
        /\ threads'[t].stack = IF Asked(t)' \/ threads'[t].due = NoOp
                                 THEN << >> ELSE <<threads'[t].due>>
    BY <1>2, <1>5, <1>6, <2>1 DEF ThreadInv
  <2>6. /\ threads'[t].waiting <=> Out(t)'
        /\ ~ threads'[t].pending
    BY <1>5, <1>6, <2>2, <2>3, Zenon
  <2>7. QED
    BY <1>2, <1>4, <1>5, <2>2, <2>4, <2>5, <2>6 DEF ThreadInv, At
<1>10. QED BY <1>2, <1>4, <1>7, <1>8, <1>9 DEF ResultInv, At

LEMMA StoreKeeps == ASSUME ResultInv, TypeInv, StoreStackTop PROVE ResultInv'
<1>1. PICK t \in Threads : t = Cur
  BY DEF StoreStackTop, At, TypeInv, Places, Busy
<1>2. /\ engine.pc = "store" /\ UNCHANGED <<ops, io>> /\ ready \in Seq(Threads)
      /\ threads \in [Threads -> Contexts]
  BY DEF StoreStackTop, At, TypeInv, TypeOK
<1>3. /\ ThreadInv(t) /\ ~ Calling(t) /\ engine.sp = Len(threads[t].stack)
      /\ ~ Linked(t, ready) /\ threads[t].stack \in Seq(Ops)
  BY <1>1, <1>2 DEF ResultInv, ThreadInv, At, Calling, Contexts
<1>4. engine'.pc = "idle" /\ Cur' \notin Threads
  BY EngineAtFits, Sizes DEF StoreStackTop, Cur
<1>5. UNCHANGED threads
  <2>1. SubSeq(threads[t].stack, 1, engine.sp) = threads[t].stack
    BY <1>3
  <2>2. threads' = [threads EXCEPT ![t] = [threads[t] EXCEPT
                      !.stack = SubSeq(threads[t].stack, 1, engine.sp)]]
    BY <1>1, <1>2 DEF StoreStackTop
  <2>3. [threads[t] EXCEPT !.stack = threads[t].stack] = threads[t]
    BY <1>2 DEF Contexts
  <2>4. QED BY <1>2, <2>1, <2>2, <2>3
<1>6. \A u \in Threads : /\ (Flying(u)' <=> Flying(u)) /\ (InSlot(u)' <=> InSlot(u))
                         /\ (Asked(u)' <=> Asked(u)) /\ (Out(u)' <=> Out(u))
  BY <1>2 DEF Flying, InFlight, InSlot, Asked, Out
<1>7. OneOp' BY <1>2, <1>6 DEF ResultInv, OneOp
<1>8. /\ NoDuplicates(ready') /\ (threads[t].waiting => ready' = ready)
      /\ \A u : u # t => (Linked(u, ready') <=> Linked(u, ready))
  <2>1. CASE threads[t].waiting
    BY <1>1, <2>1 DEF StoreStackTop, ResultInv
  <2>2. CASE ~ threads[t].waiting
    <3>1. ready' = Append(ready, t) BY <1>1, <2>2 DEF StoreStackTop
    <3>2. QED BY <1>2, <1>3, <2>2, <3>1, AppendLinks DEF ResultInv
  <2>3. QED BY <2>1, <2>2
<1>9. ASSUME NEW u \in Threads, u # t PROVE ThreadInv(u)'
  BY <1>1, <1>2, <1>4, <1>5, <1>6, <1>8, <1>9, ThreadUnmoved DEF ResultInv, At
<1>10. ThreadInv(t)'
  <2>1. ~ Calling(t)' BY <1>4 DEF Calling
  <2>2. QED
    BY <1>2, <1>3, <1>4, <1>5, <1>6, <1>8, <2>1 DEF ThreadInv, At
<1>11. QED BY <1>4, <1>7, <1>8, <1>9, <1>10 DEF ResultInv, At

LEMMA DeinitKeeps == ASSUME ResultInv, TypeInv, Deinit PROVE ResultInv'
<1>1. /\ engine'.pc = "off" /\ ready' = << >> /\ threads' = [t \in Threads |-> Context]
      /\ UNCHANGED <<ops, io>>
  BY EngineAtFits DEF Deinit
<1>2. OneOp' BY <1>1 DEF ResultInv, OneOp, InSlot, Flying, InFlight
<1>3. NoDuplicates(ready') BY <1>1 DEF NoDuplicates
<1>4. QED BY <1>1, <1>2, <1>3 DEF ResultInv, At

LEMMA InitializeKeeps == ASSUME ResultInv, TypeInv, Initialize PROVE ResultInv'
<1>1. /\ engine'.pc = "idle" /\ engine'.cur \notin Threads /\ io'.pc = "top"
      /\ ops' = [i \in Handles |-> NoOp] /\ UNCHANGED threads
      /\ ready' = [t \in Threads |-> t]
  BY EngineAtFits, IoAtFits, Sizes DEF Initialize, Cleared, RunQueue
<1>2. \A t \in Threads : threads[t] = Context
  BY DEF Initialize, ResultInv
<1>3. \A t \in Threads : ~ InSlot(t)' /\ ~ Flying(t)'
  BY <1>1, NoOpFits, Sizes DEF InSlot, Flying, InFlight
<1>4. \A i \in Handles : ops'[i].thread \notin Threads
  BY <1>1, NoOpFits, Sizes
<1>5. OneOp' BY <1>3, <1>4 DEF OneOp
<1>6. NoDuplicates(ready') BY <1>1 DEF NoDuplicates
<1>7. ASSUME NEW t \in Threads PROVE ThreadInv(t)'
  <2>1. ~ Calling(t)' /\ Cur' # t BY <1>1 DEF Calling, Cur
  <2>2. QED
    BY <1>1, <1>2, <1>3, <1>4, <2>1, ContextFits DEF ThreadInv, Asked, Out, Cur
<1>8. QED BY <1>1, <1>5, <1>6, <1>7 DEF ResultInv, At

LEMMA IoScanKeeps == ASSUME ResultInv, TypeInv, IoScan PROVE ResultInv'
<1>1. /\ io.pc = "scan" /\ io \in IoStates /\ ops \in [Handles -> Ops]
      /\ UNCHANGED <<engine, ready, threads>>
  BY DEF IoScan, TypeInv, TypeOK
<1>2. ~ InFlight /\ ~ At("off")
  BY <1>1 DEF InFlight, TypeInv, ContextsOutliveIo
<1>3. CASE Hits = {}
  <2>1. io'.pc = "top" /\ UNCHANGED ops BY <1>3, IoAtFits DEF IoScan
  <2>2. QED BY <1>1, <1>2, <2>1, IoQuiet DEF InFlight
<1>4. CASE Hits # {}
  <2>1. PICK n \in Hits : n = Lowest(Hits)
    <3>1. Hits \in SUBSET Nat BY <1>1, Sizes DEF Hits, IoStates
    <3>2. QED BY <1>4, <3>1, LowestIn
  <2>2. n \in Handles /\ Active(n)
    BY <1>1, Sizes DEF Hits, Handles, IoStates
  <2>3. /\ io' = [io EXCEPT !.pc = "io", !.next = n + 1, !.op = ops[n]]
        /\ ops' = [ops EXCEPT ![n] = NoOp]
    BY <1>4, <2>1 DEF IoScan
  <2>4. io'.pc = "io" /\ io'.op = ops[n] BY <1>1, <2>3 DEF IoStates
  <2>5. PICK t \in Threads : t = ops[n].thread
    BY <2>2 DEF TypeInv, Places, Real
  <2>6. ops'[n] = NoOp /\ \A i \in Handles : i # n => ops'[i] = ops[i]
    BY <1>1, <2>2, <2>3
  <2>7. NoOp.thread \notin Threads BY NoOpFits, Sizes
  <2>8. /\ \A u \in Threads : Flying(u)' <=> u = t
        /\ \A u \in Threads : u # t => (InSlot(u)' <=> InSlot(u))
        /\ InSlot(t) /\ \A i \in Handles : ops'[i].thread # t
    BY <2>2, <2>4, <2>5, <2>6, <2>7 DEF Flying, InFlight, InSlot, ResultInv, OneOp
  <2>9. OneOp'
    <3>1. \A u \in Threads, i \in Handles : ops'[i].thread = u => ops[i].thread = u
      BY <2>6, <2>7
    <3>2. QED BY <2>8, <3>1 DEF ResultInv, OneOp, InSlot
  <2>10. ASSUME NEW u \in Threads, u # t PROVE ThreadInv(u)'
    <3>1. \A i \in Handles : ops'[i] = ops[i] \/ (ops[i].thread # u /\ ops'[i].thread # u)
      BY <2>5, <2>6, <2>7, <2>10
    <3>2. ~ Flying(u) /\ ~ Flying(u)' BY <1>2, <2>8, <2>10 DEF Flying
    <3>3. ThreadInv(u) BY <1>2 DEF ResultInv
    <3>4. QED BY <1>1, <3>1, <3>2, <3>3, ThreadUnmoved
  <2>11. ThreadInv(t)'
    <3>1. ThreadInv(t) /\ io'.op = threads[t].due /\ Asked(t) /\ Out(t)
      BY <1>2, <2>2, <2>4, <2>5, <2>8 DEF ResultInv, ThreadInv, Asked, Out
    <3>2. Asked(t)' /\ Out(t)' /\ (Calling(t)' <=> Calling(t))
      BY <1>1, <2>4, <2>8 DEF Asked, Out, Calling, Cur
    <3>3. QED BY <1>1, <2>8, <3>1, <3>2 DEF ThreadInv, At, Cur
  <2>12. QED BY <1>1, <1>2, <2>9, <2>10, <2>11 DEF ResultInv, At
<1>5. QED BY <1>3, <1>4

LEMMA PushKeeps == ASSUME ResultInv, TypeInv, NoResultGap, Push PROVE ResultInv'
<1>1. /\ io.pc = "push" /\ io \in IoStates /\ Real(io.op) /\ io.op # NoOp
      /\ threads \in [Threads -> Contexts] /\ ~ Leaving(io.op.thread)
      /\ UNCHANGED <<ops, engine, ready>> /\ ~ At("off")
  BY NoOpFits
  DEF Push, Open, NoResultGap, InFlight, TypeInv, TypeOK, Places, ContextsOutliveIo
<1>2. PICK t \in Threads : t = io.op.thread BY <1>1 DEF Real
<1>3. io'.pc = "notify" /\ io'.op = io.op BY <1>1, IoMoves DEF Push
<1>4. /\ \A u \in Threads : (Flying(u) <=> u = t) /\ (Flying(u)' <=> u = t)
      /\ \A u \in Threads : InSlot(u)' <=> InSlot(u)
  BY <1>1, <1>2, <1>3 DEF Flying, InFlight, InSlot
<1>5. OneOp' BY <1>1, <1>4 DEF ResultInv, OneOp
<1>6. /\ ThreadInv(t) /\ Asked(t) /\ Out(t) /\ ~ InSlot(t)
      /\ io.op = threads[t].due /\ threads[t].stack = << >>
  BY <1>1, <1>4 DEF ResultInv, ThreadInv, OneOp, Asked, Out
<1>7. /\ threads'[t].stack = <<threads[t].due>> /\ threads'[t].due = threads[t].due
      /\ threads'[t].waiting = threads[t].waiting /\ threads'[t].pending = threads[t].pending
      /\ \A u \in Threads : u # t => threads'[u] = threads[u]
  <2> DEFINE r == [threads[t] EXCEPT !.stack = Append(threads[t].stack, io.op)]
  <2>1. threads' = [threads EXCEPT ![t] = r] BY <1>1, <1>2 DEF Push
  <2>2. /\ r.stack = Append(threads[t].stack, io.op) /\ r.due = threads[t].due
        /\ r.waiting = threads[t].waiting /\ r.pending = threads[t].pending
    BY <1>1 DEF Contexts
  <2> HIDE DEF r
  <2>3. Append(<< >>, io.op) = <<io.op>> OBVIOUS
  <2>4. QED BY <1>1, <1>6, <2>1, <2>2, <2>3
<1>8. ASSUME NEW u \in Threads, u # t PROVE ThreadInv(u)'
  BY <1>1, <1>4, <1>7, <1>8, ThreadUnmoved DEF ResultInv
<1>9. ThreadInv(t)'
  <2>1. /\ ~ Asked(t)' /\ Out(t)' /\ (Calling(t)' <=> Calling(t)) /\ threads[t].due # NoOp
        /\ ~ (At("store") /\ Cur = t)
    BY <1>1, <1>2, <1>3, <1>4, <1>6 DEF Asked, Out, Calling, Cur, Leaving
  <2>2. QED BY <1>1, <1>3, <1>6, <1>7, <2>1 DEF ThreadInv, At, Cur
<1>10. QED BY <1>1, <1>5, <1>8, <1>9 DEF ResultInv, At

LEMMA ThreadNotifyKeeps == ASSUME ResultInv, TypeInv, ThreadNotify PROVE ResultInv'
<1>1. /\ io.pc = "notify" /\ io \in IoStates /\ Real(io.op) /\ ready \in Seq(Threads)
      /\ threads \in [Threads -> Contexts] /\ ~ Leaving(io.op.thread)
      /\ UNCHANGED <<ops, engine>> /\ ~ At("off")
  BY DEF ThreadNotify, InFlight, TypeInv, TypeOK, Places, ContextsOutliveIo
<1>2. PICK t \in Threads : t = io.op.thread BY <1>1 DEF Real
<1>3. io'.pc = "scan" BY <1>1 DEF ThreadNotify, IoStates
<1>4. /\ \A u \in Threads : (Flying(u) <=> u = t) /\ ~ Flying(u)'
      /\ \A u \in Threads : InSlot(u)' <=> InSlot(u)
  BY <1>1, <1>2, <1>3 DEF Flying, InFlight, InSlot
<1>5. OneOp' BY <1>1, <1>4 DEF ResultInv, OneOp
<1>6. ThreadInv(t) /\ ~ Asked(t) /\ Out(t) /\ ~ InSlot(t)
  BY <1>1, <1>4 DEF ResultInv, OneOp, Asked, Out
<1>7. /\ ~ Asked(t)' /\ ~ Out(t)' /\ (Calling(t)' <=> Calling(t))
      /\ \A i \in Handles : ops'[i].thread # t
  BY <1>1, <1>4, <1>6 DEF Asked, Out, Calling, Cur, InSlot
<1>8. /\ NoDuplicates(ready')
      /\ \A u : u # t => (Linked(u, ready') <=> Linked(u, ready))
      /\ \A u \in Threads : u # t => threads'[u] = threads[u]
      /\ ThreadInv(t)'
  <2>1. CASE threads[t].waiting
    <3>1. ~ Linked(t, ready) /\ Cur # t /\ ~ threads[t].pending /\ ~ Calling(t)
      BY <1>1, <1>2, <1>6, <2>1 DEF ThreadInv, Leaving, Calling
    <3>2. ready' = Append(ready, t) BY <1>2, <2>1 DEF ThreadNotify
    <3>3. /\ threads'[t].stack = threads[t].stack /\ threads'[t].due = threads[t].due
          /\ ~ threads'[t].waiting /\ threads'[t].pending = threads[t].pending
          /\ \A u \in Threads : u # t => threads'[u] = threads[u]
      <4> DEFINE r == [threads[t] EXCEPT !.waiting = FALSE]
      <4>1. threads' = [threads EXCEPT ![t] = r] BY <1>1, <1>2, <2>1 DEF ThreadNotify
      <4>2. /\ r.stack = threads[t].stack /\ r.due = threads[t].due
            /\ r.waiting = FALSE /\ r.pending = threads[t].pending
        BY <1>1 DEF Contexts
      <4> HIDE DEF r
      <4>3. QED BY <1>1, <4>1, <4>2
    <3>4. /\ NoDuplicates(ready')
          /\ \A u : u # t => (Linked(u, ready') <=> Linked(u, ready))
      BY <1>1, <3>1, <3>2, AppendLinks DEF ResultInv
    <3>5. Cur' # t BY <1>1, <3>1 DEF Cur
    <3>6. ThreadInv(t)'
      BY <1>4, <1>6, <1>7, <3>1, <3>3, <3>5 DEF ThreadInv
    <3>7. QED BY <3>3, <3>4, <3>6
  <2>2. CASE ~ threads[t].waiting
    <3>1. Calling(t) BY <1>6, <2>2 DEF ThreadInv
    <3>2. ready' = ready BY <1>2, <2>2 DEF ThreadNotify
    <3>3. /\ threads'[t].stack = threads[t].stack /\ threads'[t].due = threads[t].due
          /\ ~ threads'[t].waiting /\ threads'[t].pending
          /\ \A u \in Threads : u # t => threads'[u] = threads[u]
      <4>1. threads' = [threads EXCEPT ![t] = Early(t)]
        BY <1>1, <1>2, <2>2 DEF ThreadNotify
      <4>2. /\ Early(t).stack = threads[t].stack /\ Early(t).due = threads[t].due
            /\ Early(t).waiting = threads[t].waiting /\ Early(t).pending = TRUE
        BY <1>1 DEF Contexts, Early
      <4>3. QED BY <1>1, <2>2, <4>1, <4>2
    <3>4. ~ At("store") /\ ~ Linked(t, ready)
      BY <1>6, <3>1 DEF Calling, At, ThreadInv
    <3>5. ThreadInv(t)'
      BY <1>1, <1>4, <1>6, <1>7, <3>1, <3>2, <3>3, <3>4 DEF ThreadInv, At
    <3>6. QED BY <3>2, <3>3, <3>5 DEF ResultInv
  <2>3. QED BY <2>1, <2>2
<1>9. ASSUME NEW u \in Threads, u # t PROVE ThreadInv(u)'
  BY <1>1, <1>4, <1>8, <1>9, ThreadUnmoved DEF ResultInv
<1>10. QED BY <1>1, <1>5, <1>8, <1>9 DEF ResultInv, At

(* The other steps of the I/O thread are on its own state. *)
LEMMA IoStepKeeps == ASSUME ResultInv, TypeInv, NoResultGap, IoStep PROVE ResultInv'
<1>1. io \in IoStates BY DEF TypeInv, TypeOK
<1>2. CASE IoTop \/ IoSelect \/ IoSelectNone \/ IoDrain
  <2>1. UNCHANGED <<ops, engine, ready, threads>> /\ ~ InFlight
    BY <1>2 DEF IoTop, IoSelect, IoSelectNone, IoDrain, InFlight
  <2>2. io'.pc \notin {"io", "alloc", "claim", "push", "notify"}
    <3>1. CASE IoTop
      <4>1. Watched \in SUBSET Fds BY DEF Watched, TypeInv, Places, Real
      <4>2. QED BY <3>1, <4>1, IoAtFits, IoWatches DEF IoTop
    <3>2. CASE IoSelect
      <4>1. PICK S \in SUBSET Fds, pc \in {"drain", "scan"} : IoWake(pc, S)
        BY <3>2 DEF IoSelect, TypeInv, TypeOK, IoStates
      <4>2. QED BY <4>1, IoAtFits, IoWatches DEF IoWake
    <3>3. CASE IoSelectNone BY <3>3, IoAtFits DEF IoSelectNone
    <3>4. CASE IoDrain BY <1>1, <3>4, IoMoves DEF IoDrain
    <3>5. QED BY <1>2, <3>1, <3>2, <3>3, <3>4
  <2>3. QED BY <2>1, <2>2, IoQuiet DEF InFlight
<1>3. CASE IoCall
  <2>1. UNCHANGED <<ops, engine, ready, threads>> /\ io.pc = "io"
    BY <1>3 DEF IoCall
  <2>2. io'.pc \in {"push", "alloc"} /\ io'.op = io.op
    <3>1. CASE io' = [io EXCEPT !.pc = "push"] BY <1>1, <3>1, IoMoves
    <3>2. CASE io' = [io EXCEPT !.pc = "alloc", !.new = Lowest(FreeFds)]
      BY <1>1, <3>2 DEF IoStates
    <3>3. QED BY <1>3, <3>1, <3>2 DEF IoCall
  <2>3. QED BY <2>1, <2>2, IoQuiet DEF InFlight
<1>4. CASE IoAlloc
  <2>1. UNCHANGED <<ops, engine, ready, threads>> /\ io.pc = "alloc"
    BY <1>4 DEF IoAlloc
  <2>2. io'.pc \in {"push", "claim"} /\ io'.op = io.op
    <3>1. CASE io' = IoPush BY <1>1, <3>1, IoPushFits
    <3>2. CASE io' = [io EXCEPT !.pc = "claim", !.handle = Lowest(FreeHandles)]
      BY <1>1, <3>2 DEF IoStates
    <3>3. QED BY <1>4, <3>1, <3>2 DEF IoAlloc
  <2>3. QED BY <2>1, <2>2, IoQuiet DEF InFlight
<1>5. CASE IoClaim
  <2>1. /\ UNCHANGED <<ops, engine, ready, threads>> /\ io.pc = "claim"
        /\ io'.pc = "push" /\ io'.op = io.op
    BY <1>1, <1>5, IoPushFits DEF IoClaim
  <2>2. QED BY <2>1, IoQuiet DEF InFlight
<1>6. QED
  BY <1>2, <1>3, <1>4, <1>5, IoScanKeeps, PushKeeps, ThreadNotifyKeeps DEF IoStep

LEMMA ResultStep ==
  ASSUME ResultInv, TypeInv, NoResultGap, [Next]_vars PROVE ResultInv'
<1>1. CASE MemoryGrow \/ socket_create \/ Arrive \/ UNCHANGED vars
  <2>1. UNCHANGED <<ops, io, engine, ready, threads>>
    BY <1>1 DEF MemoryGrow, socket_create, Arrive, vars
  <2>2. QED BY <2>1, QuietKeeps
<1>2. ASSUME NEW h \in Handles, socket_close(h) PROVE ResultInv'
  BY <1>2, QuietKeeps DEF socket_close
<1>3. ASSUME NEW h \in Handles, NEW mode \in {"accept", "recv"}, FallBack(h, mode)
      PROVE  ResultInv'
  <2>1. /\ engine.pc = "run" /\ engine \in EngineStates
        /\ UNCHANGED <<ops, io, ready, threads>>
        /\ engine' = [engine EXCEPT !.pc = "block", !.call = Operation(table[h], mode)]
    BY <1>3 DEF FallBack, Guest, At, TypeInv, TypeOK
  <2>2. engine'.pc = "block" /\ Cur' = Cur BY <2>1 DEF EngineStates, Cur
  <2>3. QED BY <2>1, <2>2, EngineQuiet
<1>4. CASE BlockedCall
  <2>1. /\ engine.pc = "block" /\ Cur \in Threads /\ UNCHANGED <<ops, io, ready, threads>>
        /\ engine' = [EngineAt("run") EXCEPT !.cur = Cur]
    BY <1>4 DEF BlockedCall, At, TypeInv, Places, Busy
  <2>2. engine'.pc = "run" /\ Cur' = Cur BY <2>1, EngineAtFits, RunsThread DEF Cur
  <2>3. QED BY <2>1, <2>2, EngineQuiet
<1>5. CASE UnloadAllModules \/ StopIoManager
  <2>1. /\ engine.pc \in {"idle", "stop"} /\ engine'.pc \in {"stop", "join"} /\ Cur' = None
        /\ UNCHANGED <<ops, io, ready, threads>>
    BY <1>5, EngineAtFits DEF UnloadAllModules, StopIoManager, At, Cur
  <2>2. Cur = None BY <2>1 DEF TypeInv, TypeOK, Places, Busy, EngineStates, Cur
  <2>3. QED BY <2>1, <2>2, EngineQuiet
<1>6. QED
  BY <1>1, <1>2, <1>3, <1>4, <1>5, PickKeeps, UseResultKeeps, GuestYieldKeeps, RegisterKeeps,
     WakeKeeps, ThreadWaitKeeps, StoreKeeps, DeinitKeeps, InitializeKeeps, IoStepKeeps
  DEF Next, EngineStep, GuestCall

LEMMA ResultInvariant == ASSUME NoResultGap PROVE Spec => []ResultInv
<1>1. Init => ResultInv
  <2> SUFFICES ASSUME Init PROVE ResultInv OBVIOUS
  <2>2. /\ \A i \in Handles : ops[i].thread \notin Threads
        /\ io.pc = "down" /\ engine.pc = "off"
    BY NoOpFits, IoAtFits, EngineAtFits, Sizes DEF Init
  <2>3. OneOp BY <2>2 DEF OneOp, Flying, InFlight
  <2>4. NoDuplicates(ready) BY DEF Init, NoDuplicates
  <2>5. \A t \in Threads : threads[t] = Context BY DEF Init
  <2>6. QED BY <2>2, <2>3, <2>4, <2>5 DEF ResultInv, At
<1>2. TypeInv /\ ResultInv /\ [Next]_vars => ResultInv' BY ResultStep
<1>3. QED BY <1>1, <1>2, TypeInvariant, PTL DEF Spec

(* ResultDelivered, for any number of threads and operations: a thread that
   runs finds the result of its last call, once, and nothing else. *)
THEOREM ResultCorrect == ASSUME NoResultGap PROVE Spec => []ResultDelivered
<1>1. TypeInv /\ ResultInv => ResultDelivered
  <2>1. SUFFICES ASSUME TypeInv, ResultInv, engine.pc = "run"
                 PROVE  threads[Cur].stack =
                          IF threads[Cur].due = NoOp THEN << >> ELSE <<threads[Cur].due>>
    BY DEF ResultDelivered, At
  <2>2. QED BY <2>1, RunnerFree DEF ThreadInv
<1>2. QED BY <1>1, ResultInvariant, TypeInvariant, PTL

-----------------------------------------------------------------------------
(* Nobody is stuck.                                                        *)

(* Where each step of the engine thread takes it. *)
LEMMA EngineGoes ==
  ASSUME TypeInv
  PROVE  /\ Pick \/ BlockedCall => engine'.pc = "run"
         /\ GuestYield \/ StoreStackTop \/ Initialize => engine'.pc = "idle"
         /\ WakeIoManager => engine'.pc = "wait"
         /\ ThreadWait => engine'.pc = "store"
         /\ UnloadAllModules => engine'.pc = "stop"
         /\ StopIoManager => engine'.pc = "join"
         /\ Deinit => engine'.pc = "off"
         /\ \A h \in Handles, mode \in {"accept", "recv"} :
              /\ Register(h, mode) => engine'.pc = "wake" /\ Cur' = Cur
              /\ FallBack(h, mode) => engine'.pc = "block" /\ engine'.call.fd = table[h]
<1>1. engine \in EngineStates BY DEF TypeInv, TypeOK
<1>2. Pick \/ BlockedCall => engine'.pc = "run"
  <2>1. ASSUME Pick PROVE engine'.pc = "run"
    <3>1. Head(ready) \in Threads BY <2>1 DEF Pick, TypeInv, TypeOK
    <3>2. QED BY <2>1, <3>1, EngineAtFits, RunsThread DEF Pick
  <2>2. ASSUME BlockedCall PROVE engine'.pc = "run"
    <3>1. Cur \in Threads BY <2>2 DEF BlockedCall, At, TypeInv, Places, Busy
    <3>2. QED BY <2>2, <3>1, EngineAtFits, RunsThread DEF BlockedCall
  <2>3. QED BY <2>1, <2>2
<1>3. ThreadWait => engine'.pc = "store"
  <2>1. SUFFICES ASSUME ThreadWait PROVE engine'.pc = "store" OBVIOUS
  <2>2. engine' = [engine EXCEPT !.pc = "store", !.sp = Len(threads[Cur].stack)]
    BY <2>1 DEF ThreadWait
  <2>3. QED BY <1>1, <2>2 DEF EngineStates
<1>4. ASSUME NEW h \in Handles, NEW mode \in {"accept", "recv"}, FallBack(h, mode)
      PROVE  engine'.pc = "block" /\ engine'.call.fd = table[h]
  <2>1. engine' = [engine EXCEPT !.pc = "block", !.call = Operation(table[h], mode)]
    BY <1>4 DEF FallBack
  <2>2. Operation(table[h], mode).fd = table[h] BY DEF Operation
  <2>3. QED BY <1>1, <2>1, <2>2 DEF EngineStates
<1>5. ASSUME NEW h \in Handles, NEW mode \in {"accept", "recv"}, Register(h, mode)
      PROVE  engine'.pc = "wake" /\ Cur' = Cur
  BY <1>1, <1>5, EngineMoves DEF Register, Cur
<1>6. QED
  BY <1>1, <1>2, <1>3, <1>4, <1>5, EngineAtFits, EngineMoves
  DEF GuestYield, StoreStackTop, Initialize, WakeIoManager, UnloadAllModules, StopIoManager,
      Deinit

(* The steps of the engine thread that touch neither operations nor sockets,
   and do not wake the I/O thread. *)
Plain ==
  \/ Pick \/ UseResult \/ GuestYield \/ ThreadWait \/ StoreStackTop
  \/ MemoryGrow \/ UnloadAllModules

LEMMA PlainSteps ==
  ASSUME TypeInv, Plain
  PROVE  /\ UNCHANGED <<ops, io, pipe, files>> /\ ~ At("wake") /\ ~ At("off")
         /\ ~ At("off")' /\ ~ At("block")'
<1>1. CASE UseResult \/ MemoryGrow BY <1>1 DEF UseResult, MemoryGrow, Guest, At
<1>2. CASE Pick \/ GuestYield \/ ThreadWait \/ StoreStackTop \/ UnloadAllModules
  BY <1>2, EngineGoes
  DEF Pick, GuestYield, ThreadWait, StoreStackTop, UnloadAllModules, Guest, At
<1>3. QED BY <1>1, <1>2 DEF Plain

(* Where each step of the I/O thread takes it. *)
LEMMA IoGoes ==
  ASSUME TypeInv
  PROVE  /\ IoTop => \/ io'.pc = "select" /\ io'.set = Watched
                     \/ io'.pc = "down"
         /\ IoSelect => /\ io'.pc \in {"drain", "scan"} /\ io'.next = 0 /\ io'.new = None
                        /\ io'.set = {fd \in io.set : HasArrival(fd)}
         /\ IoSelectNone => io'.pc = "top"
         /\ IoScan /\ Hits = {} => io'.pc = "top" /\ ops' = ops
         /\ IoDrain => io' = [io EXCEPT !.pc = "scan"] /\ io'.pc = "scan"
         /\ IoCall => io'.pc \in {"push", "alloc"}
         /\ IoAlloc => io'.pc \in {"push", "claim"}
         /\ IoClaim => io'.pc = "push"
         /\ Push => io'.pc = "notify"
         /\ ThreadNotify => io'.pc = "scan"
         /\ IoDrain \/ IoCall \/ IoAlloc \/ IoClaim \/ Push \/ ThreadNotify =>
              io'.next = io.next /\ io'.set = io.set
         /\ IoCall \/ IoAlloc \/ IoClaim \/ Push => io'.op = io.op
<1>1. io \in IoStates BY DEF TypeInv, TypeOK
<1>2. ASSUME IoTop
      PROVE  (io'.pc = "select" /\ io'.set = Watched) \/ io'.pc = "down"
  <2>1. Watched \in SUBSET Fds BY DEF Watched, TypeInv, Places, Real
  <2>2. QED BY <1>2, <2>1, IoAtFits, IoWatches DEF IoTop
<1>3. ASSUME IoSelect
      PROVE  /\ io'.pc \in {"drain", "scan"} /\ io'.next = 0 /\ io'.new = None
             /\ io'.set = {fd \in io.set : HasArrival(fd)}
  <2> DEFINE S == {fd \in io.set : HasArrival(fd)}
  <2>1. S \in SUBSET Fds BY <1>1 DEF IoStates
  <2>2. PICK pc \in {"drain", "scan"} : io' = [IoAt(pc) EXCEPT !.set = S]
    BY <1>3 DEF IoSelect, IoWake
  <2> HIDE DEF S
  <2>3. IoAt(pc) \in IoStates BY <2>2, IoAtFits
  <2>4. io'.pc = IoAt(pc).pc /\ io'.next = IoAt(pc).next /\ io'.new = IoAt(pc).new /\ io'.set = S
    BY <2>1, <2>2, <2>3 DEF IoStates
  <2>5. QED BY <2>2, <2>4, IoAtFits DEF S
<1>4. (IoSelectNone => io'.pc = "top") /\ (IoScan /\ Hits = {} => io'.pc = "top" /\ ops' = ops)
  BY IoAtFits DEF IoSelectNone, IoScan
<1>5. ASSUME IoDrain
      PROVE  /\ io' = [io EXCEPT !.pc = "scan"] /\ io'.pc = "scan"
             /\ io'.next = io.next /\ io'.set = io.set
  BY <1>1, <1>5, IoMoves DEF IoDrain
<1>6. ASSUME IoCall
      PROVE  /\ io'.pc \in {"push", "alloc"} /\ io'.op = io.op
             /\ io'.next = io.next /\ io'.set = io.set
  <2>1. CASE io' = [io EXCEPT !.pc = "push"] BY <1>1, <2>1, IoMoves
  <2>2. CASE io' = [io EXCEPT !.pc = "alloc", !.new = Lowest(FreeFds)]
    BY <1>1, <2>2 DEF IoStates
  <2>3. QED BY <1>6, <2>1, <2>2 DEF IoCall
<1>7. ASSUME IoAlloc \/ IoClaim
      PROVE  /\ io'.pc \in {"push", "claim"} /\ io'.op = io.op
             /\ io'.next = io.next /\ io'.set = io.set /\ (IoClaim => io'.pc = "push")
  <2>1. CASE io' = IoPush BY <1>1, <2>1 DEF IoPush, IoStates
  <2>2. CASE /\ io' = [io EXCEPT !.pc = "claim", !.handle = Lowest(FreeHandles)]
             /\ io.pc = "alloc"
    BY <1>1, <2>2 DEF IoStates, IoClaim
  <2>3. QED BY <1>7, <2>1, <2>2 DEF IoAlloc, IoClaim
<1>8. ASSUME Push
      PROVE  /\ io'.pc = "notify" /\ io'.op = io.op
             /\ io'.next = io.next /\ io'.set = io.set
  BY <1>1, <1>8, IoMoves DEF Push
<1>9. ASSUME ThreadNotify
      PROVE  io'.pc = "scan" /\ io'.next = io.next /\ io'.set = io.set
  BY <1>1, <1>9 DEF ThreadNotify, IoStates
<1>10. QED BY <1>2, <1>3, <1>4, <1>5, <1>6, <1>7, <1>8, <1>9

(* The pipe exists while an engine does, and ends every sleep it has to. *)
SleepInv == (~ At("off") => pipe # None) /\ NoSleepingOp

LEMMA SleepFrame ==
  ASSUME SleepInv, UNCHANGED <<ops, io, pipe>>, At("off") => At("off")',
         ~ At("wake") \/ UNCHANGED engine
  PROVE  SleepInv'
<1>1. (~ At("off") => pipe # None)' BY DEF SleepInv
<1>2. NoSleepingOp'
  <2>1. SUFFICES ASSUME io.pc = "select", pipe # None, NEW i \in Handles, Active(i)
                 PROVE  ops[i].fd \in io.set \/ pipe > 0
                          \/ (At("wake")' /\ ops[i].thread = Cur')
    BY DEF NoSleepingOp, Active
  <2>2. ops[i].fd \in io.set \/ pipe > 0 \/ (At("wake") /\ ops[i].thread = Cur)
    BY <2>1 DEF SleepInv, NoSleepingOp
  <2>3. QED BY <2>2 DEF At, Cur
<1>3. QED BY <1>1, <1>2 DEF SleepInv

(* Nothing sleeps. *)
LEMMA AwakeFrame ==
  ASSUME ~ At("off")' => pipe' # None, io'.pc # "select" \/ pipe' = None \/ pipe' > 0
  PROVE  SleepInv'
BY DEF SleepInv, NoSleepingOp

LEMMA SleepStep == ASSUME SleepInv, TypeInv, [Next]_vars PROVE SleepInv'
<1>1. CASE Plain BY <1>1, PlainSteps, SleepFrame
<1>2. CASE socket_create \/ Arrive \/ UNCHANGED vars \/ \E h \in Handles : socket_close(h)
  <2>1. UNCHANGED <<ops, io, pipe, engine>>
    BY <1>2 DEF socket_create, Arrive, vars, socket_close
  <2>2. QED BY <2>1, SleepFrame DEF At
<1>3. ASSUME NEW h \in Handles, NEW mode \in {"accept", "recv"}, FallBack(h, mode)
      PROVE  SleepInv'
  <2>1. UNCHANGED <<ops, io, pipe>> /\ engine.pc = "run" /\ engine'.pc = "block"
    BY <1>3, EngineGoes DEF FallBack, Guest, At
  <2>2. QED BY <2>1, SleepFrame DEF At
<1>4. CASE BlockedCall
  <2>1. UNCHANGED <<ops, io, pipe>> /\ engine.pc = "block" /\ engine'.pc = "run"
    BY <1>4, EngineGoes DEF BlockedCall, At
  <2>2. QED BY <2>1, SleepFrame DEF At
<1>5. ASSUME NEW h \in Handles, NEW mode \in {"accept", "recv"}, Register(h, mode)
      PROVE  SleepInv'
  <2>1. /\ UNCHANGED <<io, pipe>> /\ engine.pc = "run" /\ engine'.pc = "wake" /\ Cur' = Cur
        /\ ops' = [ops EXCEPT ![Lowest(FreeSlots)] = Operation(table[h], mode)]
        /\ ops \in [Handles -> Ops] /\ Lowest(FreeSlots) \in Handles
    BY <1>5, EngineGoes, LowestSlot DEF Register, Guest, At, TypeInv, TypeOK, FreeSlots
  <2>2. Operation(table[h], mode).thread = Cur BY DEF Operation
  <2>3. \A i \in Handles : ops'[i] = ops[i] \/ ops'[i].thread = Cur
    BY <2>1, <2>2
  <2>4. QED BY <2>1, <2>3 DEF SleepInv, NoSleepingOp, Active, At
<1>6. CASE WakeIoManager \/ StopIoManager
  <2>1. pipe \in Nat /\ pipe' = WithByte(pipe)
    BY <1>6 DEF WakeIoManager, StopIoManager, SleepInv, At, TypeInv, TypeOK
  <2>2. pipe' > 0 /\ pipe' # None BY <2>1 DEF WithByte, None
  <2>3. QED BY <2>2, AwakeFrame
<1>7. CASE Deinit
  <2>1. pipe' = None /\ At("off")' BY <1>7, EngineGoes DEF Deinit, At
  <2>2. QED BY <2>1, AwakeFrame
<1>8. CASE Initialize
  <2>1. pipe' = 0 /\ io'.pc = "top" BY <1>8, IoAtFits DEF Initialize
  <2>2. QED BY <2>1, AwakeFrame DEF None
<1>9. CASE IoTop
  <2>1. /\ UNCHANGED <<ops, pipe, engine>>
        /\ (io'.pc = "select" /\ io'.set = Watched) \/ io'.pc = "down"
    BY <1>9, IoGoes DEF IoTop
  <2>2. QED BY <2>1 DEF SleepInv, NoSleepingOp, Watched, Active, At
<1>10. CASE IoDrain
  <2>1. io'.pc = "scan" BY <1>10, IoGoes
  <2>2. pipe' # None BY <1>10 DEF IoDrain, None
  <2>3. QED BY <2>1, <2>2, AwakeFrame
<1>11. CASE IoSelect \/ IoSelectNone \/ IoScan \/ IoCall \/ IoAlloc \/ IoClaim \/ Push
              \/ ThreadNotify
  <2>1. UNCHANGED <<pipe, engine>>
    BY <1>11 DEF IoSelect, IoSelectNone, IoScan, IoCall, IoAlloc, IoClaim, Push, ThreadNotify
  <2>2. io'.pc # "select"
    <3>1. CASE IoScan /\ Hits # {}
      <4>1. PICK i, o : io' = [io EXCEPT !.pc = "io", !.next = i, !.op = o]
        BY <3>1 DEF IoScan
      <4>2. QED BY <4>1 DEF TypeInv, TypeOK, IoStates
    <3>2. QED BY <1>11, <3>1, IoGoes
  <2>3. QED BY <2>1, <2>2, AwakeFrame DEF SleepInv, At
<1>12. QED
  BY <1>1, <1>2, <1>3, <1>4, <1>5, <1>6, <1>7, <1>8, <1>9, <1>10, <1>11
  DEF Next, Plain, EngineStep, GuestCall, IoStep

(* The I/O thread never blocks: a careful guest leaves a socket alone that
   an operation waits for, and no operation joins a pass under way. *)
NoRescanGap == "rescan" \notin Windows

(* The operation's descriptor was ready in this pass, which has not come to
   it yet. *)
Awaits(i) ==
  /\ Active(i) /\ (InFlight \/ io.pc \in {"drain", "scan"})
  /\ i >= io.next /\ ops[i].fd \in io.set

(* Nobody else closes or reads a socket that an operation waits for: what
   was ready in select() still is when the pass comes to it. *)
CarefulInv ==
  /\ \A i \in Handles : Active(i) =>
       ops[i].fd \in DOMAIN files /\ (Awaits(i) => files[ops[i].fd] > 0)
  /\ \A i, j \in Handles : Active(i) /\ Active(j) /\ ops[i].fd = ops[j].fd => i = j
  /\ InFlight => /\ io.op.fd \in DOMAIN files
                 /\ \A i \in Handles : Active(i) => ops[i].fd # io.op.fd
  /\ io.pc = "io" => files[io.op.fd] > 0
  /\ At("block") => ~ Pending(engine.call.fd)
  /\ Accepted => ~ Pending(io.new)
  /\ io.pc \in {"select", "drain"} => io.set \subseteq Watched

LEMMA OpsPend ==
  ASSUME TypeInv
  PROVE  /\ \A i \in Handles : Active(i) => ops[i].fd \in Fds /\ Pending(ops[i].fd)
         /\ InFlight => io.op.fd \in Fds /\ Pending(io.op.fd)
BY DEF TypeInv, Places, Real, Pending

(* Steps of the engine thread and of the network. *)
LEMMA CarefulFrame ==
  ASSUME CarefulInv, TypeInv, UNCHANGED <<ops, io>>, ~ At("block")' \/ UNCHANGED engine,
         \A fd \in Fds :
           Pending(fd) => fd \in DOMAIN files' /\ (files[fd] > 0 => files'[fd] > 0)
  PROVE  CarefulInv'
<1>1. /\ \A fd : Pending(fd)' <=> Pending(fd)
      /\ \A i \in Handles : (Active(i)' <=> Active(i)) /\ (Awaits(i)' <=> Awaits(i))
      /\ (InFlight' <=> InFlight) /\ (Accepted' <=> Accepted) /\ Watched' = Watched
  BY DEF Pending, Active, Awaits, InFlight, Accepted, Watched
<1>2. io.pc = "io" => InFlight BY DEF InFlight
<1>3. ASSUME At("block")' PROVE ~ Pending(engine.call.fd)'
  <2>1. PICK fd : fd = engine.call.fd /\ fd = engine'.call.fd BY <1>3
  <2>2. ~ Pending(fd) BY <1>3, <2>1 DEF CarefulInv, At
  <2>3. ~ Pending(fd)' BY <1>1, <2>2
  <2>4. QED BY <2>1, <2>3 DEF Pending
<1>4. ASSUME Accepted' PROVE ~ Pending(io.new)'
  BY <1>1, <1>4 DEF CarefulInv, Pending, InFlight
<1>5. \A i \in Handles : Active(i) =>
        ops[i].fd \in DOMAIN files' /\ (Awaits(i) => files'[ops[i].fd] > 0)
  BY OpsPend DEF CarefulInv
<1>6. (InFlight => io.op.fd \in DOMAIN files') /\ (io.pc = "io" => files'[io.op.fd] > 0)
  BY <1>2, OpsPend DEF CarefulInv
<1>7. QED BY <1>1, <1>3, <1>4, <1>5, <1>6 DEF CarefulInv

(* Steps of the I/O thread in a pass. *)
LEMMA PassFrame ==
  ASSUME CarefulInv, TypeInv, UNCHANGED <<ops, engine>>, InFlight \/ io.pc = "drain",
         InFlight' => InFlight /\ io'.op = io.op, io'.pc \notin {"io", "select", "drain"},
         io'.next = io.next, io'.set = io.set,
         \A fd \in Fds : Pending(fd) /\ ~ (InFlight /\ fd = io.op.fd) =>
                           fd \in DOMAIN files' /\ files'[fd] = files[fd],
         InFlight => io.op.fd \in DOMAIN files',
         Accepted' => ~ Pending(io'.new)
  PROVE  CarefulInv'
<1>1. /\ \A i \in Handles : (Active(i)' <=> Active(i)) /\ (Awaits(i)' => Awaits(i))
      /\ \A fd : Pending(fd)' => Pending(fd)
  BY DEF Active, Awaits, Pending
<1>2. \A i \in Handles : Active(i) =>
         ops[i].fd \in DOMAIN files' /\ files'[ops[i].fd] = files[ops[i].fd]
  BY OpsPend DEF CarefulInv
<1>3. ASSUME At("block")' PROVE ~ Pending(engine.call.fd)'
  <2>1. PICK fd : fd = engine.call.fd /\ fd = engine'.call.fd BY <1>3
  <2>2. ~ Pending(fd) BY <1>3, <2>1 DEF CarefulInv, At
  <2>3. ~ Pending(fd)' BY <1>1, <2>2
  <2>4. QED BY <2>1, <2>3 DEF Pending
<1>4. ASSUME Accepted' PROVE ~ Pending(io.new)'
  <2>1. PICK fd : fd = io'.new OBVIOUS
  <2>2. ~ Pending(fd)' BY <1>1, <1>4, <2>1
  <2>3. QED BY <2>1, <2>2 DEF Pending
<1>5. InFlight' => /\ io'.op.fd \in DOMAIN files'
                   /\ \A i \in Handles : Active(i) => ops[i].fd # io'.op.fd
  BY DEF CarefulInv
<1>6. /\ \A i, j \in Handles : Active(i)' /\ Active(j)' /\ ops'[i].fd = ops'[j].fd => i = j
      /\ \A i \in Handles : Active(i)' =>
           ops'[i].fd \in DOMAIN files' /\ (Awaits(i)' => files'[ops'[i].fd] > 0)
  BY <1>1, <1>2 DEF CarefulInv
<1>7. QED BY <1>1, <1>3, <1>4, <1>5, <1>6 DEF CarefulInv

LEMMA AllocKeepsOpen ==
  ASSUME NEW F, FreeFds # {}, DOMAIN F = DOMAIN files, AllocHandle(F, Lowest(FreeFds))
  PROVE  \A fd \in DOMAIN files : fd \in DOMAIN files' /\ files'[fd] = F[fd]
<1>1. Lowest(FreeFds) \notin DOMAIN files BY LowestFd DEF FreeFds
<1>2. files' = F \/ files' = Opened(F, Lowest(FreeFds)) BY DEF AllocHandle
<1>3. QED BY <1>1, <1>2 DEF Opened

LEMMA PendingOpen ==
  ASSUME CarefulInv, TypeInv, NEW fd \in Fds, Pending(fd) PROVE fd \in DOMAIN files
BY NoOpFits, Sizes DEF CarefulInv, Pending, Active

(* The engine thread's steps but Register and FallBack: none takes from a
   socket an operation waits for. *)
LEMMA EngineCareful ==
  ASSUME CarefulInv, TypeInv, CarefulGuest,
         \/ Plain \/ WakeIoManager \/ StopIoManager \/ BlockedCall \/ Arrive
         \/ socket_create \/ UNCHANGED vars \/ \E h \in Handles : socket_close(h)
  PROVE  CarefulInv'
<1>1. ASSUME NEW fd \in Fds, Pending(fd) PROVE fd \in DOMAIN files
  BY <1>1, PendingOpen
<1>2. CASE Plain BY <1>1, <1>2, PlainSteps, CarefulFrame
<1>3. CASE WakeIoManager \/ StopIoManager \/ UNCHANGED vars
  <2>1. UNCHANGED <<ops, io, files>> /\ (~ At("block")' \/ UNCHANGED engine)
    BY <1>3, EngineGoes DEF WakeIoManager, StopIoManager, vars, At
  <2>2. QED BY <1>1, <2>1, CarefulFrame
<1>4. CASE Arrive
  <2>1. PICK d \in DOMAIN files : files' = [files EXCEPT ![d] = files[d] + 1]
    BY <1>4 DEF Arrive
  <2>2. \A fd \in DOMAIN files : fd \in DOMAIN files' /\ (files[fd] > 0 => files'[fd] > 0)
    BY <2>1 DEF TypeInv, TypeOK
  <2>3. UNCHANGED <<ops, io, engine>> BY <1>4 DEF Arrive
  <2>4. QED BY <1>1, <2>2, <2>3, CarefulFrame
<1>5. CASE socket_create
  <2>1. UNCHANGED <<ops, io, engine>> BY <1>5 DEF socket_create
  <2>2. \A fd \in DOMAIN files : fd \in DOMAIN files' /\ files'[fd] = files[fd]
    BY <1>5, AllocKeepsOpen DEF socket_create
  <2>3. QED BY <1>1, <2>1, <2>2, CarefulFrame
<1>6. ASSUME NEW h \in Handles, socket_close(h) PROVE CarefulInv'
  <2>1. UNCHANGED <<ops, io, engine>> /\ ~ Pending(table[h])
    BY <1>6 DEF socket_close, MayUse
  <2>2. \A fd \in DOMAIN files :
          fd # table[h] => fd \in DOMAIN files' /\ files'[fd] = files[fd]
    BY <1>6 DEF socket_close, Closed
  <2>3. QED BY <1>1, <2>1, <2>2, CarefulFrame
<1>7. CASE BlockedCall
  <2>1. UNCHANGED <<ops, io>> /\ ~ At("block")' /\ ~ Pending(engine.call.fd)
    BY <1>7, EngineGoes DEF BlockedCall, CarefulInv, At
  <2>2. PICK d : d = engine.call.fd OBVIOUS
  <2>3. /\ DOMAIN Taken(files, d) = DOMAIN files
        /\ \A fd \in DOMAIN files : fd # d => Taken(files, d)[fd] = files[fd]
    BY DEF Taken
  <2>4. CASE files' = Taken(files, d) \/ UNCHANGED files
    BY <1>1, <2>1, <2>2, <2>3, <2>4, CarefulFrame
  <2>5. CASE FreeFds # {} /\ AllocHandle(Taken(files, d), Lowest(FreeFds))
    <3>1. \A fd \in DOMAIN files : fd \in DOMAIN files' /\ files'[fd] = Taken(files, d)[fd]
      BY <2>3, <2>5, AllocKeepsOpen
    <3>2. QED BY <1>1, <2>1, <2>2, <2>3, <3>1, CarefulFrame
  <2>6. QED BY <1>7, <2>2, <2>4, <2>5 DEF BlockedCall
<1>8. QED BY <1>2, <1>3, <1>4, <1>5, <1>6, <1>7

LEMMA FallBackCareful ==
  ASSUME CarefulInv, TypeInv, CarefulGuest, NEW h \in Handles,
         NEW mode \in {"accept", "recv"}, FallBack(h, mode)
  PROVE  CarefulInv'
<1>1. /\ UNCHANGED <<ops, io, files>> /\ ~ Pending(table[h])
      /\ engine'.call.fd = table[h]
  BY EngineGoes DEF FallBack, MayUse
<1>2. PICK d : d = table[h] OBVIOUS
<1>3. ~ Pending(d)' BY <1>1, <1>2 DEF Pending, InFlight
<1>4. ~ Pending(engine.call.fd)' BY <1>1, <1>2, <1>3 DEF Pending
<1>5. ASSUME Accepted' PROVE ~ Pending(io.new)'
  BY <1>1, <1>5 DEF CarefulInv, Pending, InFlight, Accepted
<1>6. QED
  BY <1>1, <1>4, <1>5
  DEF CarefulInv, Active, Awaits, InFlight, Accepted, Watched

LEMMA RegisterCareful ==
  ASSUME CarefulInv, TypeInv, HandleInv, CarefulGuest, NoRescanGap, NEW h \in Handles,
         NEW mode \in {"accept", "recv"}, Register(h, mode)
  PROVE  CarefulInv'
<1>1. PICK d : d = table[h] OBVIOUS
<1>2. PICK n : n = Lowest(FreeSlots) OBVIOUS
<1>3. /\ n \in Handles /\ ops[n] = NoOp /\ ops \in [Handles -> Ops]
      /\ d \in DOMAIN files /\ d \in Fds /\ d # io.new /\ ~ Pending(d)
      /\ UNCHANGED <<io, files>> /\ io \in IoStates
  BY <1>1, <1>2, LowestSlot
  DEF Register, MayUse, HandleInv, FreeSlots, Active, TypeInv, TypeOK
<1>4. /\ ops'[n].fd = d /\ ops'[n] # NoOp
      /\ \A i \in Handles : i # n => ops'[i] = ops[i]
  <2>1. ops' = [ops EXCEPT ![n] = Operation(table[h], mode)] BY <1>2 DEF Register
  <2>2. Operation(table[h], mode).fd = d BY <1>1 DEF Operation
  <2>3. NoOp.fd # d BY <1>3, NoOpFits, Sizes
  <2>4. QED BY <1>3, <2>1, <2>2, <2>3
<1>5. \A i \in Handles : Active(i) => ops[i].fd # d
  BY <1>3 DEF Pending
<1>6. ~ Awaits(n)'
  <2>1. SUFFICES ASSUME InFlight \/ io.pc \in {"drain", "scan"}, n >= io.next, d \in io.set
                 PROVE  FALSE
    BY <1>3, <1>4 DEF Awaits, InFlight
  <2>2. ~ (/\ InFlight \/ io.pc = "scan"
           /\ n >= io.next /\ d \in io.set)
    BY <1>1, <1>2 DEF Register, Open, NoRescanGap
  <2>3. io.pc = "drain" BY <2>1, <2>2
  <2>4. d \in Watched BY <2>1, <2>3 DEF CarefulInv
  <2>5. QED BY <1>3, <2>4 DEF Watched, Pending
<1>7. /\ \A i \in Handles : i # n => /\ ops'[i] # NoOp <=> Active(i)
                                     /\ Awaits(i)' <=> Awaits(i)
      /\ ~ Active(n)
  BY <1>3, <1>4 DEF Active, Awaits, InFlight
<1>8. \A fd : Pending(fd)' => Pending(fd) \/ fd = d
  BY <1>3, <1>4 DEF Pending, InFlight
<1>9. ~ At("block")' BY EngineGoes DEF At
<1>10. ASSUME Accepted' PROVE ~ Pending(io.new)'
  <2>1. PICK fd : fd = io.new OBVIOUS
  <2>2. ~ Pending(fd)'
    BY <1>3, <1>8, <1>10, <2>1 DEF CarefulInv, Accepted
  <2>3. QED BY <1>3, <2>1, <2>2 DEF Pending
<1>11. io.pc \in {"select", "drain"} => io.set \subseteq Watched'
  <2>1. Watched \subseteq Watched'
    BY <1>3, <1>4, <1>7 DEF Watched, Active
  <2>2. QED BY <2>1 DEF CarefulInv
<1>12. \A i \in Handles : Active(i)' =>
         ops'[i].fd \in DOMAIN files' /\ (Awaits(i)' => files'[ops'[i].fd] > 0)
  <2>1. ASSUME NEW i \in Handles, Active(i)'
        PROVE  ops'[i].fd \in DOMAIN files' /\ (Awaits(i)' => files'[ops'[i].fd] > 0)
    <3>1. CASE i = n BY <1>3, <1>4, <1>6, <3>1
    <3>2. CASE i # n BY <1>3, <1>4, <1>7, <2>1, <3>2 DEF CarefulInv, Active
    <3>3. QED BY <3>1, <3>2
  <2>2. QED BY <2>1
<1>13. \A i, j \in Handles : Active(i)' /\ Active(j)' /\ ops'[i].fd = ops'[j].fd => i = j
  BY <1>4, <1>5, <1>7 DEF CarefulInv, Active
<1>14. InFlight' => /\ io'.op.fd \in DOMAIN files'
                    /\ \A i \in Handles : Active(i)' => ops'[i].fd # io'.op.fd
  <2>1. InFlight => io.op.fd # d BY <1>3 DEF Pending
  <2>2. QED BY <1>3, <1>4, <1>7, <2>1 DEF CarefulInv, Active, InFlight
<1>15. QED
  BY <1>3, <1>9, <1>10, <1>11, <1>12, <1>13, <1>14 DEF CarefulInv

LEMMA IoScanCareful == ASSUME CarefulInv, TypeInv, IoScan PROVE CarefulInv'
<1>1. /\ io.pc = "scan" /\ io \in IoStates /\ ops \in [Handles -> Ops]
      /\ UNCHANGED <<files, engine>>
  BY DEF IoScan, TypeInv, TypeOK
<1>2. CASE Hits = {}
  <2>1. io'.pc = "top" /\ UNCHANGED ops BY <1>2, IoGoes DEF IoScan
  <2>2. At("block")' => ~ Pending(engine.call.fd)'
    BY <1>1, <2>1 DEF CarefulInv, Pending, InFlight, At
  <2>3. QED
    BY <1>1, <2>1, <2>2 DEF CarefulInv, Active, Awaits, InFlight, Accepted
<1>3. CASE Hits # {}
  <2>1. PICK n \in Hits : n = Lowest(Hits)
    <3>1. Hits \in SUBSET Nat BY <1>1, Sizes DEF Hits, IoStates
    <3>2. QED BY <1>3, <3>1, LowestIn
  <2>2. n \in Handles /\ Awaits(n) /\ n \in Nat /\ io.next \in Nat
    BY <1>1, Sizes DEF Hits, Handles, IoStates, Awaits
  <2>3. /\ io' = [io EXCEPT !.pc = "io", !.next = n + 1, !.op = ops[n]]
        /\ ops' = [ops EXCEPT ![n] = NoOp]
    BY <1>3, <2>1 DEF IoScan
  <2>4. /\ io'.pc = "io" /\ io'.op = ops[n] /\ io'.next = n + 1 /\ io'.set = io.set
    BY <1>1, <2>2, <2>3 DEF IoStates
  <2>5. ops'[n] = NoOp /\ \A i \in Handles : i # n => ops'[i] = ops[i]
    BY <1>1, <2>2, <2>3
  <2>6. /\ Active(n) /\ ~ Active(n)' /\ n >= io.next
        /\ \A i \in Handles : Active(i)' => i # n /\ Active(i)
        /\ \A i \in Handles : Awaits(i)' => Awaits(i)
    BY <1>1, <2>2, <2>4, <2>5, Sizes DEF Active, Awaits
  <2>7. /\ \A i \in Handles : Active(i)' => ops[i].fd # ops[n].fd
        /\ ops[n].fd \in DOMAIN files /\ files[ops[n].fd] > 0
    BY <2>2, <2>6 DEF CarefulInv
  <2>8. ASSUME At("block")' PROVE ~ Pending(engine.call.fd)'
    <3>1. PICK d : d = engine.call.fd /\ d = engine'.call.fd BY <1>1
    <3>2. ~ Pending(d) /\ d # None
      BY <1>1, <2>8, <3>1, Sizes DEF CarefulInv, At, TypeInv, Places, Real
    <3>3. ~ Pending(d)'
      BY <2>2, <2>4, <2>5, <3>2, NoOpFits DEF Pending, InFlight
    <3>4. QED BY <3>1, <3>3 DEF Pending
  <2>9. QED
    BY <1>1, <2>4, <2>5, <2>6, <2>7, <2>8 DEF CarefulInv, Accepted
<1>4. QED BY <1>2, <1>3

LEMMA IoCareful == ASSUME CarefulInv, TypeInv, HandleInv, IoStep PROVE CarefulInv'
<1>1. CASE IoTop
  <2>1. /\ UNCHANGED <<ops, files, engine>> /\ io.pc = "top"
        /\ (io'.pc = "select" /\ io'.set = Watched) \/ io'.pc = "down"
    BY <1>1, IoGoes DEF IoTop
  <2>2. At("block")' => ~ Pending(engine.call.fd)'
    BY <2>1 DEF CarefulInv, Pending, InFlight, At
  <2>3. QED
    BY <2>1, <2>2 DEF CarefulInv, Active, Awaits, InFlight, Accepted, Watched
<1>2. CASE IoSelect \/ IoSelectNone
  <2>1. /\ UNCHANGED <<ops, files, engine>> /\ io.pc = "select"
        /\ io'.pc \in {"drain", "scan", "top"}
        /\ io'.pc \in {"drain", "scan"} => io'.set = {fd \in io.set : HasArrival(fd)}
    BY <1>2, IoGoes DEF IoSelect, IoSelectNone
  <2>2. At("block")' => ~ Pending(engine.call.fd)'
    BY <2>1 DEF CarefulInv, Pending, InFlight, At
  <2>3. io'.pc = "drain" => io'.set \subseteq Watched'
    BY <2>1 DEF CarefulInv, Watched, Active
  <2>4. \A i \in Handles : Active(i)' =>
          ops'[i].fd \in DOMAIN files' /\ (Awaits(i)' => files'[ops'[i].fd] > 0)
    BY <2>1 DEF CarefulInv, Active, Awaits, InFlight, HasArrival
  <2>5. QED
    BY <2>1, <2>2, <2>3, <2>4 DEF CarefulInv, Active, InFlight, Accepted
<1>3. CASE IoDrain
  <2>1. /\ UNCHANGED <<ops, files, engine>> /\ io.pc = "drain" /\ io'.pc = "scan"
        /\ io'.next = io.next /\ io'.set = io.set
    BY <1>3, IoGoes DEF IoDrain
  <2>2. \A fd \in Fds : Pending(fd) => fd \in DOMAIN files BY PendingOpen
  <2>3. QED BY <2>1, <2>2, PassFrame DEF InFlight, Accepted
<1>4. CASE IoScan BY <1>4, IoScanCareful
<1>5. CASE IoCall
  <2>1. PICK d : d = io.op.fd OBVIOUS
  <2>2. /\ UNCHANGED <<ops, engine>> /\ io.pc = "io" /\ io'.pc \in {"push", "alloc"}
        /\ io'.op = io.op /\ io'.next = io.next /\ io'.set = io.set
        /\ d \in DOMAIN files /\ InFlight
    BY <1>5, <2>1, IoGoes DEF IoCall, CarefulInv, InFlight
  <2>3. \A fd \in Fds : Pending(fd) => fd \in DOMAIN files BY PendingOpen
  <2>4. /\ DOMAIN Taken(files, d) = DOMAIN files
        /\ \A fd \in DOMAIN files : fd # d => Taken(files, d)[fd] = files[fd]
    BY DEF Taken
  <2>5. CASE /\ io' = [io EXCEPT !.pc = "push"]
             /\ UNCHANGED files \/ files' = Taken(files, d)
    <3>1. io'.pc = "push" BY <2>5, IoMoves DEF TypeInv, TypeOK
    <3>2. QED BY <2>1, <2>2, <2>3, <2>4, <2>5, <3>1, PassFrame DEF Accepted
  <2>6. CASE /\ FreeFds # {} /\ files' = Opened(Taken(files, d), Lowest(FreeFds))
             /\ io' = [io EXCEPT !.pc = "alloc", !.new = Lowest(FreeFds)]
    <3>1. PICK new \in Fds : new = Lowest(FreeFds) /\ new \notin DOMAIN files
      BY <2>6, LowestFd DEF FreeFds
    <3>2. io'.pc = "alloc" /\ io'.new = new
      BY <2>6, <3>1 DEF TypeInv, TypeOK, IoStates
    <3>3. \A fd \in DOMAIN files :
            fd \in DOMAIN files' /\ (fd # d => files'[fd] = files[fd])
      BY <2>4, <2>6, <3>1 DEF Opened
    <3>4. ~ Pending(io'.new) BY <2>3, <3>1, <3>2
    <3>5. QED BY <2>1, <2>2, <2>3, <3>2, <3>3, <3>4, PassFrame
  <2>7. QED BY <1>5, <2>1, <2>5, <2>6 DEF IoCall
<1>6. CASE IoAlloc
  <2>1. /\ UNCHANGED <<ops, engine>> /\ io.pc = "alloc" /\ io'.pc \in {"push", "claim"}
        /\ io'.op = io.op /\ io'.next = io.next /\ io'.set = io.set
        /\ InFlight /\ ~ Pending(io.new)
    BY <1>6, IoGoes DEF IoAlloc, CarefulInv, InFlight, Accepted
  <2>2. \A fd \in Fds : Pending(fd) => fd \in DOMAIN files BY PendingOpen
  <2>3. files' = Closed(files, {io.new}) \/ UNCHANGED files
    BY <1>6 DEF IoAlloc
  <2>4. \A fd \in DOMAIN files :
          fd # io.new => fd \in DOMAIN files' /\ files'[fd] = files[fd]
    BY <2>3 DEF Closed
  <2>5. io'.new = io.new \/ io'.pc = "push"
    <3>1. CASE io' = IoPush BY <3>1, IoPushFits DEF TypeInv, TypeOK
    <3>2. CASE io' = [io EXCEPT !.pc = "claim", !.handle = Lowest(FreeHandles)]
      BY <3>2 DEF TypeInv, TypeOK, IoStates
    <3>3. QED BY <1>6, <3>1, <3>2 DEF IoAlloc
  <2>6. Accepted' => ~ Pending(io'.new)
    BY <2>1, <2>5 DEF Accepted
  <2>7. io.op.fd \in Fds /\ Pending(io.op.fd) BY <2>1, OpsPend
  <2>8. QED BY <2>1, <2>2, <2>4, <2>6, <2>7, PassFrame
<1>7. CASE IoClaim \/ Push
  <2>1. /\ UNCHANGED <<ops, files, engine>> /\ InFlight /\ io'.pc \in {"push", "notify"}
        /\ io'.op = io.op /\ io'.next = io.next /\ io'.set = io.set
    BY <1>7, IoGoes DEF IoClaim, Push, InFlight
  <2>2. \A fd \in Fds : Pending(fd) => fd \in DOMAIN files BY PendingOpen
  <2>3. io.op.fd \in DOMAIN files BY <2>1 DEF CarefulInv
  <2>4. QED BY <2>1, <2>2, <2>3, PassFrame DEF Accepted
<1>8. CASE ThreadNotify
  <2>1. /\ UNCHANGED <<ops, files, engine>> /\ InFlight /\ io'.pc = "scan"
        /\ io'.next = io.next /\ io'.set = io.set
    BY <1>8, IoGoes DEF ThreadNotify, InFlight
  <2>2. \A fd \in Fds : Pending(fd) => fd \in DOMAIN files BY PendingOpen
  <2>3. io.op.fd \in DOMAIN files BY <2>1 DEF CarefulInv
  <2>4. ~ InFlight' /\ ~ Accepted' BY <2>1 DEF InFlight, Accepted
  <2>5. QED BY <2>1, <2>2, <2>3, <2>4, PassFrame
<1>9. QED BY <1>1, <1>2, <1>3, <1>4, <1>5, <1>6, <1>7, <1>8 DEF IoStep

LEMMA InitializeCareful == ASSUME TypeInv, Initialize PROVE CarefulInv'
<1>1. /\ ops' = [i \in Handles |-> NoOp] /\ io'.pc = "top" /\ engine'.pc = "idle"
  BY IoAtFits, EngineGoes DEF Initialize, Cleared
<1>2. QED BY <1>1 DEF CarefulInv, Active, InFlight, Accepted, At

LEMMA CarefulStep ==
  ASSUME TypeInv, HandleInv, CarefulGuest, NoRescanGap, [Next]_vars,
         ~ At("off") => CarefulInv, ~ At("off")'
  PROVE  CarefulInv'
<1>1. CASE Initialize BY <1>1, InitializeCareful
<1>2. CASE Deinit BY <1>2, EngineGoes DEF At
<1>3. CASE ~ At("off")
  <2>1. CASE IoStep BY <1>3, <2>1, IoCareful
  <2>2. ASSUME NEW h \in Handles, NEW mode \in {"accept", "recv"},
               Register(h, mode) \/ FallBack(h, mode)
        PROVE  CarefulInv'
    BY <1>3, <2>2, RegisterCareful, FallBackCareful
  <2>3. CASE \/ Plain \/ WakeIoManager \/ StopIoManager \/ BlockedCall \/ Arrive
             \/ socket_create \/ UNCHANGED vars \/ \E h \in Handles : socket_close(h)
    BY <1>3, <2>3, EngineCareful
  <2>4. QED
    BY <1>1, <1>2, <2>1, <2>2, <2>3 DEF Next, Plain, EngineStep, GuestCall
<1>4. CASE At("off")
  <2>1. io.pc = "down" /\ engine.pc = "off" BY <1>4 DEF At, TypeInv, ContextsOutliveIo
  <2>2. ~ IoStep
    BY <2>1
    DEF IoStep, IoTop, IoSelect, IoSelectNone, IoDrain, IoScan, IoCall, IoAlloc, IoClaim,
        Push, ThreadNotify
  <2>3. ~ EngineStep /\ ~ GuestCall /\ ~ GuestYield /\ ~ UnloadAllModules
    BY <2>1
    DEF EngineStep, GuestCall, GuestYield, UnloadAllModules, Pick, UseResult, WakeIoManager,
        ThreadWait, StoreStackTop, BlockedCall, StopIoManager, Deinit, MemoryGrow,
        socket_create, socket_close, Register, FallBack, Guest, At
  <2>4. CASE Arrive \/ UNCHANGED vars BY <1>4, <2>4 DEF Arrive, vars, At
  <2>5. QED BY <1>1, <2>2, <2>3, <2>4 DEF Next
<1>5. QED BY <1>3, <1>4

(* A slot for every thread is enough: the thread that asks has none. *)
LEMMA SlotForEach ==
  ASSUME ResultInv, TypeInv, engine.pc = "run", FreeSlots = {}
  PROVE  kMaxSockets < kMaxThreads
<1>1. /\ IsFiniteSet(Handles) /\ Cardinality(Handles) = kMaxSockets
      /\ IsFiniteSet(Threads) /\ Cardinality(Threads) = kMaxThreads
  BY Sizes, FS_Interval DEF Handles, Threads
<1>2. Cur \in Threads /\ ~ InSlot(Cur) BY RunnerFree
<1>3. /\ IsFiniteSet(Threads \ {Cur})
      /\ Cardinality(Threads \ {Cur}) = kMaxThreads - 1
  BY <1>1, <1>2, FS_RemoveElement
<1>4. \A i \in Handles : ops[i].thread \in Threads \ {Cur}
  BY <1>2 DEF FreeSlots, TypeInv, Places, Real, InSlot
<1> DEFINE f == [i \in Handles |-> ops[i].thread]
<1>5. f \in [Handles -> Threads \ {Cur}] BY <1>4
<1>6. \A i, j \in Handles : f[i] = f[j] => i = j
  BY <1>4 DEF ResultInv, OneOp
<1> HIDE DEF f
<1>7. ~ Cardinality(Threads \ {Cur}) < Cardinality(Handles)
  <2>1. SUFFICES ASSUME Cardinality(Threads \ {Cur}) < Cardinality(Handles) PROVE FALSE
    OBVIOUS
  <2>2. \E i, j \in Handles : i # j /\ f[i] = f[j]
    BY <1>1, <1>3, <1>5, <2>1, FS_PigeonHole
  <2>3. QED BY <1>6, <2>2
<1>8. QED BY <1>1, <1>3, <1>7, Sizes

LEMMA FallsBackStep ==
  ASSUME ResultInv, TypeInv, NeverFallsBack, [Next]_vars PROVE NeverFallsBack'
<1>1. ASSUME NEW h \in Handles, NEW mode \in {"accept", "recv"}, FallBack(h, mode)
      PROVE  NeverFallsBack'
  BY <1>1, SlotForEach, Sizes DEF FallBack, Guest, At, NeverFallsBack
<1>2. CASE UNCHANGED engine BY <1>2 DEF NeverFallsBack, At
<1>3. CASE IoStep \/ Arrive \/ UNCHANGED vars \/ GuestCall
  <2>1. \/ UNCHANGED engine
        \/ \E h \in Handles, mode \in {"accept", "recv"} : Register(h, mode) \/ FallBack(h, mode)
    BY <1>3
    DEF IoStep, IoTop, IoSelect, IoSelectNone, IoDrain, IoScan, IoCall, IoAlloc, IoClaim,
        Push, ThreadNotify, Arrive, vars, GuestCall, MemoryGrow, socket_create, socket_close
  <2>2. QED BY <1>1, <1>2, <2>1, EngineGoes DEF NeverFallsBack, At
<1>4. CASE EngineStep \/ GuestYield \/ UnloadAllModules \/ Initialize
  BY <1>4, <1>2, EngineGoes DEF EngineStep, NeverFallsBack, At, UseResult
<1>5. QED BY <1>3, <1>4 DEF Next

LEMMA ResultGivesWaiter == ASSUME ResultInv, TypeInv PROVE WaiterHasOp
<1>1. ASSUME NEW t \in Threads
      PROVE  /\ Outstanding(t) \in Nat
             /\ Outstanding(t) = IF Out(t) THEN 1 ELSE 0
  <2> DEFINE S == {i \in Handles : ops[i].thread = t}
  <2>1. CASE InSlot(t)
    <3>1. PICK i \in Handles : ops[i].thread = t BY <2>1 DEF InSlot
    <3>2. S = {i} BY <3>1 DEF ResultInv, OneOp
    <3>3. Cardinality(S) = 1 BY <3>2, FS_Singleton
    <3>4. ~ Flying(t) BY <2>1 DEF ResultInv, OneOp
    <3> HIDE DEF S
    <3>5. QED BY <2>1, <3>3, <3>4 DEF Outstanding, Out, Flying, S
  <2>2. CASE ~ InSlot(t)
    <3>1. S = {} BY <2>2 DEF InSlot
    <3>2. Cardinality(S) = 0 BY <3>1, FS_EmptySet
    <3>3. QED BY <2>2, <3>2 DEF Outstanding, Out, Flying
  <2>3. QED BY <2>1, <2>2
<1>2. CASE At("off")
  BY <1>1, <1>2, ContextFits DEF WaiterHasOp, ResultInv
<1>3. CASE ~ At("off")
  <2>1. ASSUME NEW t \in Threads
        PROVE  (threads[t].pending => ~ Out(t)) /\ (threads[t].waiting => Out(t))
    BY <1>3 DEF ResultInv, ThreadInv
  <2>2. QED BY <1>1, <2>1 DEF WaiterHasOp
<1>4. QED BY <1>2, <1>3

(* NobodyStuck, for any number of slots and threads: every thread that waits
   has an operation, select() knows of it, and no socket call blocks either
   OS thread, if guests leave a socket alone that another thread waits for. *)
THEOREM NobodyStuckCorrect ==
  ASSUME CarefulGuest, NoAllocGap, NoResultGap, NoRescanGap
  PROVE  Spec => []NobodyStuck
<1> DEFINE I == /\ SleepInv /\ NeverFallsBack
                /\ ~ At("off") => CarefulInv
<1>1. Init => I
  BY IoAtFits, EngineAtFits DEF Init, SleepInv, NoSleepingOp, NeverFallsBack, At
<1>2. TypeInv /\ HandleInv /\ ResultInv /\ I /\ [Next]_vars => I'
  BY SleepStep, FallsBackStep, CarefulStep
<1>3. TypeInv /\ ResultInv /\ I => NobodyStuck
  <2> SUFFICES ASSUME TypeInv, ResultInv, I PROVE NobodyStuck
    OBVIOUS
  <2>1. IoNeverBlocks
    BY DEF IoNeverBlocks, CarefulInv, TypeInv, ContextsOutliveIo
  <2>2. QED BY <2>1, ResultGivesWaiter DEF NobodyStuck, SleepInv
<1> HIDE DEF I
<1>4. QED
  BY <1>1, <1>2, <1>3, TypeInvariant, HandleInvariant, ResultInvariant, PTL DEF Spec
=============================================================================
