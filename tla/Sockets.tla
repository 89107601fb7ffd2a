------------------------------ MODULE Sockets ------------------------------
(***************************************************************************)
(* The sockets host module (src/wasm_host_modules/src/sockets/) on a POSIX *)
(* system: a static table of handles for the guest, a table of pending     *)
(* asynchronous operations, and an I/O thread that waits for all of their  *)
(* descriptors in select(), completes the operation and wakes the guest    *)
(* thread.  The engine thread runs one guest thread at a time.             *)
(*                                                                         *)
(* The kernel is as POSIX has it: a new descriptor is the lowest free one, *)
(* and a socket has a number of arrivals (data or connections) to consume. *)
(* Calls that neither block nor touch the tables (bind, listen, connect,   *)
(* send, options) and calls with a bad handle change nothing here.         *)
(* ThreadWait and ThreadNotify are atomic: Scheduler has their windows.    *)
(***************************************************************************)
EXTENDS Integers, Sequences, FiniteSets

CONSTANTS
  kMaxSockets,   (* handles, and slots for operations                        *)
  kMaxThreads,   (* guest threads                                            *)
  kMaxFiles,     (* descriptors the process may have open                    *)
  kMaxArrivals,  (* bound: arrivals a socket holds                           *)
  kMaxGrows,     (* bound: memory.grow calls in an engine's lifetime         *)
  CarefulGuest,  (* whether guests leave a socket alone that another of
                    their threads waits for                                  *)
  Windows        (* unlocked gaps the other OS thread may hit: "result" and
                    "alloc" (see Push, AllocHandle), "rescan" (Register)     *)

ASSUME SocketsAssumption ==
  /\ kMaxSockets \in Nat \ {0}
  /\ kMaxThreads \in Nat
  /\ kMaxFiles \in Nat /\ kMaxArrivals \in Nat /\ kMaxGrows \in Nat
  /\ CarefulGuest \in BOOLEAN
  /\ Windows \subseteq {"result", "alloc", "rescan"}

VARIABLES
  table,     (* s_socket_table: the descriptor of each handle, or None       *)
  ops,       (* g_async_ops: the active operation of each slot, or NoOp      *)
  pipe,      (* bytes in g_wake_pipe, None while it is closed                *)
  running,   (* g_io_running                                                 *)
  files,     (* the kernel's open sockets: arrivals by descriptor            *)
  io,        (* the I/O thread                                               *)
  engine,    (* the engine thread                                            *)
  ready,     (* ready_list_                                                  *)
  threads,   (* the guest threads: see Context                               *)
  memory     (* the block the linear memory is in, None when it is freed     *)

vars == <<table, ops, pipe, running, files, io, engine, ready, threads, memory>>

None == -1
Threads == 1 .. kMaxThreads
Handles == 0 .. kMaxSockets - 1
Fds == 1 .. kMaxFiles
Lowest(S) == CHOOSE n \in S : \A k \in S : n <= k

NoOp == [fd |-> None, mode |-> "none", thread |-> None, buf |-> None]

(***************************************************************************)
(* waiting and pending are the state kWaiting/kNotify and notify_pending;  *)
(* stack holds the results on the operand stack, each as the operation it  *)
(* is the result of; due is the call whose result the guest code expects.  *)
(***************************************************************************)
Context == [waiting |-> FALSE, pending |-> FALSE, stack |-> << >>, due |-> NoOp]

(* pc of the engine thread: the place it has reached; sp is RunLoop's copy
   of stack_top; call the operation a blocking call is made for. *)
EngineAt(pc) == [pc |-> pc, cur |-> None, sp |-> 0, call |-> NoOp]

(* The I/O thread: set is what select() waits for and then what is ready,
   next the loop index, op the copy of the operation, new the descriptor
   accept() returned, handle the one AllocHandle() found. *)
IoAt(pc) == [pc |-> pc, set |-> {}, next |-> 0, op |-> NoOp, new |-> None, handle |-> None]

Open(window, inside) == window \in Windows \/ ~ inside

At(pc) == engine.pc = pc
Cur == engine.cur

-----------------------------------------------------------------------------
(* The handle table and the kernel.                                        *)

FreeHandles == {h \in Handles : table[h] = None}
FreeFds == Fds \ DOMAIN files
Opened(F, fd) == [f \in DOMAIN F \cup {fd} |-> IF f = fd THEN 0 ELSE F[f]]
Closed(F, S) == [f \in DOMAIN F \ S |-> F[f]]
Taken(F, fd) == [F EXCEPT ![fd] = @ - 1]
HasArrival(fd) == fd \in DOMAIN files /\ files[fd] > 0

(* AllocHandle() by the engine thread while the I/O thread is between the
   test of in_use and its assignment: no lock protects the table. *)
EngineMayAlloc == Open("alloc", io.pc = "claim")

(* The descriptor is left open when the table is full. *)
AllocHandle_Leaks(F, fd) ==                                      \* mutant
  /\ files' = Opened(F, fd)
  /\ table' = IF FreeHandles = {} THEN table
              ELSE [table EXCEPT ![Lowest(FreeHandles)] = fd]

(* A new descriptor gets the first free handle or is closed again. *)
AllocHandle(F, fd) ==
  IF FreeHandles = {}
    THEN files' = F /\ UNCHANGED table
    ELSE /\ files' = Opened(F, fd)
         /\ table' = [table EXCEPT ![Lowest(FreeHandles)] = fd]

-----------------------------------------------------------------------------
(* The operations under way on a descriptor, for a thread, in a pass.      *)

InFlight == io.pc \in {"io", "alloc", "claim", "push", "notify"}
Pending(fd) ==
  \/ \E i \in Handles : ops[i].fd = fd
  \/ InFlight /\ io.op.fd = fd
Outstanding(t) ==
  Cardinality({i \in Handles : ops[i].thread = t})
    + (IF InFlight /\ io.op.thread = t THEN 1 ELSE 0)

MayUse(fd) == CarefulGuest => ~ Pending(fd)

-----------------------------------------------------------------------------
(* The engine thread.                                                      *)

(* The scheduler runs the next ready thread. *)
Pick ==
  /\ At("idle") /\ ready # << >>
  /\ engine' = [EngineAt("run") EXCEPT !.cur = Head(ready)]
  /\ ready' = Tail(ready)
  /\ UNCHANGED <<table, ops, pipe, running, files, io, threads, memory>>

(* The guest code pops the result of the call it had made. *)
UseResult ==
  /\ At("run") /\ threads[Cur].due # NoOp
  /\ threads' = [threads EXCEPT ![Cur].stack = << >>, ![Cur].due = NoOp]
  /\ UNCHANGED <<table, ops, pipe, running, files, io, engine, ready, memory>>

(* The guest code is about to do something else. *)
Guest == At("run") /\ threads[Cur].due = NoOp

(* thread_yield(). *)
GuestYield ==
  /\ Guest
  /\ engine' = EngineAt("idle")
  /\ ready' = Append(ready, Cur)
  /\ UNCHANGED <<table, ops, pipe, running, files, io, threads, memory>>

(* memory.grow moves the linear memory to a new block. *)
MemoryGrow ==
  /\ Guest /\ memory < kMaxGrows
  /\ memory' = memory + 1
  /\ UNCHANGED <<table, ops, pipe, running, files, io, engine, ready, threads>>

socket_create ==
  /\ Guest /\ EngineMayAlloc /\ FreeFds # {}
  /\ AllocHandle(files, Lowest(FreeFds))
  /\ UNCHANGED <<ops, pipe, running, io, engine, ready, threads, memory>>

FreeHandle(h) == [table EXCEPT ![h] = None]

(* The operations that wait for the socket stay. *)
socket_close(h) ==
  /\ Guest /\ table[h] # None /\ MayUse(table[h])
  /\ files' = Closed(files, {table[h]})
  /\ table' = FreeHandle(h)
  /\ UNCHANGED <<ops, pipe, running, io, engine, ready, threads, memory>>

Operation(fd, mode) ==
  [fd |-> fd, mode |-> mode, thread |-> Cur,
   buf |-> IF mode = "recv" THEN memory ELSE None]

Active(i) == ops[i] # NoOp

FreeSlots == {i \in Handles : ~ Active(i)}

(* RegisterAsyncAccept and RegisterAsyncRecv.  When the I/O thread is in
   the middle of a pass, the slot may be one it has still to come to, with a
   descriptor that was ready before. *)
Register(h, mode) ==
  /\ Guest /\ table[h] # None /\ MayUse(table[h]) /\ FreeSlots # {}
  /\ Open("rescan", /\ InFlight \/ io.pc = "scan"
                    /\ Lowest(FreeSlots) >= io.next
                    /\ table[h] \in io.set)
  /\ ops' = [ops EXCEPT ![Lowest(FreeSlots)] = Operation(table[h], mode)]
  /\ threads' = [threads EXCEPT ![Cur].due = Operation(table[h], mode)]
  /\ engine' = [engine EXCEPT !.pc = "wake"]
  /\ UNCHANGED <<table, pipe, running, files, io, ready, memory>>

WithByte_None(p) == p                                            \* mutant
WithByte(p) == IF p = None THEN None ELSE p + 1

WakeIoManager ==
  /\ At("wake")
  /\ pipe' = WithByte(pipe)
  /\ engine' = [engine EXCEPT !.pc = "wait"]
  /\ UNCHANGED <<table, ops, running, files, io, ready, threads, memory>>

(* ThreadWait, and kYield: RunLoop reads stack_top back from the context ... *)
ThreadWait ==
  /\ At("wait")
  /\ threads' = [threads EXCEPT ![Cur].waiting = ~ threads[Cur].pending,
                                ![Cur].pending = FALSE]
  /\ engine' = [engine EXCEPT !.pc = "store", !.sp = Len(threads[Cur].stack)]
  /\ UNCHANGED <<table, ops, pipe, running, files, io, ready, memory>>

(* ... and stores it when it leaves; a thread that is ready is requeued. *)
StoreStackTop ==
  /\ At("store")
  /\ threads' = [threads EXCEPT ![Cur].stack = SubSeq(@, 1, engine.sp)]
  /\ ready' = IF threads[Cur].waiting THEN ready ELSE Append(ready, Cur)
  /\ engine' = EngineAt("idle")
  /\ UNCHANGED <<table, ops, pipe, running, files, io, memory>>

(* Without a slot the call is made, and blocks, on the engine thread. *)
FallBack(h, mode) ==
  /\ Guest /\ table[h] # None /\ MayUse(table[h]) /\ FreeSlots = {}
  /\ engine' = [engine EXCEPT !.pc = "block", !.call = Operation(table[h], mode)]
  /\ UNCHANGED <<table, ops, pipe, running, files, io, ready, threads, memory>>

BlockedCall ==
  /\ At("block")
  /\ LET fd == engine.call.fd
     IN  \/ /\ engine.call.mode = "recv" /\ HasArrival(fd)
            /\ files' = Taken(files, fd)
            /\ UNCHANGED table
         \/ /\ engine.call.mode = "accept" /\ HasArrival(fd)
            /\ FreeFds # {} /\ EngineMayAlloc
            /\ AllocHandle(Taken(files, fd), Lowest(FreeFds))
         \/ /\ engine.call.mode = "accept" /\ FreeFds = {}
            /\ UNCHANGED <<files, table>>
  /\ engine' = [EngineAt("run") EXCEPT !.cur = Cur]
  /\ UNCHANGED <<ops, pipe, running, io, ready, threads, memory>>

-----------------------------------------------------------------------------
(* The life of the engine.  Deinit() unloads the modules first, and with   *)
(* them the linear memory, ...                                             *)
UnloadAllModules ==
  /\ At("idle")
  /\ memory' = None
  /\ engine' = EngineAt("stop")
  /\ UNCHANGED <<table, ops, pipe, running, files, io, ready, threads>>

Stopped_Not(u) == running                                        \* mutant
Stopped(u) == FALSE

(* ... then deinitialize() stops the I/O thread, ... *)
StopIoManager ==
  /\ At("stop")
  /\ running' = Stopped(0)
  /\ pipe' = WithByte(pipe)
  /\ engine' = EngineAt("join")
  /\ UNCHANGED <<table, ops, files, io, ready, threads, memory>>

(* Nobody waits for the I/O thread to end. *)
Joined_Always(u) == TRUE                                         \* mutant
Joined(u) == io.pc = "down"

(* ... joins it, closes the sockets that have a handle, and the contexts
   are freed. *)
Deinit ==
  /\ At("join") /\ Joined(0)
  /\ pipe' = None
  /\ files' = Closed(files, {table[h] : h \in Handles})
  /\ table' = [h \in Handles |-> None]
  /\ engine' = EngineAt("off")
  /\ ready' = << >>
  /\ threads' = [t \in Threads |-> Context]
  /\ UNCHANGED <<ops, running, io, memory>>

(* The operations of the last engine are kept. *)
Cleared_Not(u) == ops                                            \* mutant
Cleared(u) == [i \in Handles |-> NoOp]

(* In the order they were created. *)
RunQueue == [t \in Threads |-> t]

(* Init() of an engine, which calls initialize(): InitTable, StartIoManager.
   pipe() is taken to succeed. *)
Initialize ==
  /\ At("off")
  /\ table' = [h \in Handles |-> None]
  /\ ops' = Cleared(0)
  /\ pipe' = 0
  /\ running' = TRUE
  /\ io' = IoAt("top")
  /\ engine' = EngineAt("idle")
  /\ ready' = RunQueue
  /\ memory' = 0
  /\ UNCHANGED <<files, threads>>

-----------------------------------------------------------------------------
(* The I/O thread.                                                         *)

(* The loop ends before the last slot. *)
Watched_OneShort ==                                              \* mutant
  {ops[i].fd : i \in {k \in 0 .. kMaxSockets - 2 : Active(k)}}
Watched == {ops[i].fd : i \in {k \in Handles : Active(k)}}

(* The top of the loop: the descriptors of the active operations, read
   under g_async_mutex. *)
IoTop ==
  /\ io.pc = "top"
  /\ io' = IF running
             THEN [IoAt("select") EXCEPT !.set = Watched]
             ELSE IoAt("down")
  /\ UNCHANGED <<table, ops, pipe, running, files, engine, ready, threads, memory>>

IoWake(pc, S) == io' = [IoAt(pc) EXCEPT !.set = S]

(* select(): the descriptors that are ready, and the pipe; ... *)
IoSelect ==
  /\ io.pc = "select" /\ io.set \subseteq DOMAIN files
  /\ LET S == {fd \in io.set : HasArrival(fd)}
     IN  /\ S # {} \/ pipe > 0
         /\ IoWake(IF pipe > 0 THEN "drain" ELSE "scan", S)
  /\ UNCHANGED <<table, ops, pipe, running, files, engine, ready, threads, memory>>

(* ... or 0 after the five seconds; or an error for a closed descriptor. *)
IoSelectNone ==
  /\ io.pc = "select"
  /\ \/ ~ io.set \subseteq DOMAIN files
     \/ pipe <= 0 /\ ~ \E fd \in io.set : HasArrival(fd)
  /\ io' = IoAt("top")
  /\ UNCHANGED <<table, ops, pipe, running, files, engine, ready, threads, memory>>

(* Up to sixteen bytes are read from the pipe. *)
IoDrain ==
  /\ io.pc = "drain"
  /\ pipe' = IF pipe > 16 THEN pipe - 16 ELSE 0
  /\ io' = [io EXCEPT !.pc = "scan"]
  /\ UNCHANGED <<table, ops, running, files, engine, ready, threads, memory>>

Hits == {i \in io.next .. kMaxSockets - 1 : Active(i) /\ ops[i].fd \in io.set}

(* The next operation whose descriptor was ready is copied and its slot
   released; after the last one the loop starts again. *)
IoScan ==
  /\ io.pc = "scan"
  /\ IF Hits = {}
       THEN io' = IoAt("top") /\ UNCHANGED ops
       ELSE LET i == Lowest(Hits)
            IN  /\ io' = [io EXCEPT !.pc = "io", !.next = i + 1, !.op = ops[i]]
                /\ ops' = [ops EXCEPT ![i] = NoOp]
  /\ UNCHANGED <<table, pipe, running, files, engine, ready, threads, memory>>

(* recv() or accept(), without the lock.  It fails on a descriptor that was
   closed, and blocks on one that has nothing. *)
IoCall ==
  /\ io.pc = "io"
  /\ LET fd == io.op.fd
     IN  \/ /\ io.op.mode = "recv" /\ HasArrival(fd)
            /\ files' = Taken(files, fd)
            /\ io' = [io EXCEPT !.pc = "push"]
         \/ /\ io.op.mode = "accept" /\ HasArrival(fd) /\ FreeFds # {}
            /\ files' = Opened(Taken(files, fd), Lowest(FreeFds))
            /\ io' = [io EXCEPT !.pc = "alloc", !.new = Lowest(FreeFds)]
         \/ /\ \/ fd \notin DOMAIN files
               \/ io.op.mode = "accept" /\ FreeFds = {}
            /\ io' = [io EXCEPT !.pc = "push"]
            /\ UNCHANGED files
  /\ UNCHANGED <<table, ops, pipe, running, engine, ready, threads, memory>>

IoPush == [io EXCEPT !.pc = "push", !.new = None, !.handle = None]

(* AllocHandle(): the search, ... *)
IoAlloc ==
  /\ io.pc = "alloc"
  /\ IF FreeHandles = {}
       THEN io' = IoPush /\ files' = Closed(files, {io.new})
       ELSE /\ io' = [io EXCEPT !.pc = "claim", !.handle = Lowest(FreeHandles)]
            /\ UNCHANGED files
  /\ UNCHANGED <<table, ops, pipe, running, engine, ready, threads, memory>>

(* ... and the assignment. *)
IoClaim ==
  /\ io.pc = "claim"
  /\ table' = [table EXCEPT ![io.handle] = io.new]
  /\ io' = IoPush
  /\ UNCHANGED <<ops, pipe, running, files, engine, ready, threads, memory>>

(* RunLoop has read the thread's stack_top and will store it. *)
Leaving(t) == At("store") /\ Cur = t

(* The result goes on the operand stack of the thread, ... *)
Push ==
  /\ io.pc = "push" /\ Open("result", Leaving(io.op.thread))
  /\ threads' = [threads EXCEPT ![io.op.thread].stack = Append(@, io.op)]
  /\ io' = [io EXCEPT !.pc = "notify"]
  /\ UNCHANGED <<table, ops, pipe, running, files, engine, ready, memory>>

Early(t) == [threads[t] EXCEPT !.pending = TRUE]

(* ... and ThreadNotify makes it ready. *)
ThreadNotify ==
  /\ io.pc = "notify" /\ ~ Leaving(io.op.thread)
  /\ LET t == io.op.thread
     IN  IF threads[t].waiting
           THEN /\ threads' = [threads EXCEPT ![t].waiting = FALSE]
                /\ ready' = Append(ready, t)
           ELSE /\ threads' = [threads EXCEPT ![t] = Early(t)]
                /\ UNCHANGED ready
  /\ io' = [io EXCEPT !.pc = "scan", !.op = NoOp]
  /\ UNCHANGED <<table, ops, pipe, running, files, engine, memory>>

-----------------------------------------------------------------------------
(* The network.                                                            *)
Arrive ==
  \E fd \in DOMAIN files :
    /\ files[fd] < kMaxArrivals
    /\ files' = [files EXCEPT ![fd] = @ + 1]
    /\ UNCHANGED <<table, ops, pipe, running, io, engine, ready, threads, memory>>

Init ==
  /\ table = [h \in Handles |-> None]
  /\ ops = [i \in Handles |-> NoOp]
  /\ pipe = None
  /\ running = FALSE
  /\ files = [fd \in {} |-> 0]
  /\ io = IoAt("down")
  /\ engine = EngineAt("off")
  /\ ready = << >>
  /\ threads = [t \in Threads |-> Context]
  /\ memory = None

EngineStep ==
  \/ Pick \/ UseResult \/ WakeIoManager \/ ThreadWait \/ StoreStackTop
  \/ BlockedCall \/ StopIoManager \/ Deinit

GuestCall ==
  \/ MemoryGrow \/ socket_create
  \/ \E h \in Handles :
       \/ socket_close(h)
       \/ \E mode \in {"accept", "recv"} : Register(h, mode) \/ FallBack(h, mode)

IoStep ==
  \/ IoTop \/ IoSelect \/ IoSelectNone \/ IoDrain \/ IoScan \/ IoCall
  \/ IoAlloc \/ IoClaim \/ Push \/ ThreadNotify

Next ==
  \/ EngineStep \/ GuestYield \/ GuestCall \/ IoStep
  \/ UnloadAllModules \/ Initialize \/ Arrive

Spec == Init /\ [][Next]_vars

-----------------------------------------------------------------------------
(* Properties.                                                             *)

Modes == {"none", "accept", "recv"}
Ops == [fd : Fds \cup {None}, mode : Modes, thread : Threads \cup {None},
        buf : Nat \cup {None}]

IoStates ==
  [pc : {"down", "top", "select", "drain", "scan", "io", "alloc", "claim", "push",
         "notify"},
   set : SUBSET Fds, next : 0 .. kMaxSockets, op : Ops,
   new : Fds \cup {None}, handle : Handles \cup {None}]

EngineStates ==
  [pc : {"off", "idle", "run", "wake", "wait", "store", "block", "stop", "join"},
   cur : Threads \cup {None}, sp : Nat, call : Ops]

Contexts ==
  [waiting : BOOLEAN, pending : BOOLEAN, stack : Seq(Ops), due : Ops]

(* The tables, the contexts and both OS threads keep their types. *)
TypeOK ==
  /\ table \in [Handles -> Fds \cup {None}]
  /\ ops \in [Handles -> Ops]
  /\ pipe \in Nat \cup {None} /\ running \in BOOLEAN
  /\ DOMAIN files \subseteq Fds /\ \A fd \in DOMAIN files : files[fd] \in Nat
  /\ io \in IoStates
  /\ engine \in EngineStates
  /\ ready \in Seq(Threads)
  /\ threads \in [Threads -> Contexts]
  /\ memory \in Nat \cup {None}

(* Handles and open sockets correspond one to one, whoever fails or closes
   what: no socket is closed under a handle, kept without one or reached by
   two.  Only a socket accept() has just returned has no handle yet. *)
HandlesOwnFiles ==
  /\ \A g, h \in Handles : g # h /\ table[g] # None => table[g] # table[h]
  /\ {table[h] : h \in Handles \ FreeHandles} \cup ({io.new} \ {None}) = DOMAIN files
  /\ \A h \in Handles : io.new # None => table[h] # io.new

(* A thread that has made an asynchronous call runs again with exactly the
   result of that call on its stack, and with none when it made no call. *)
ResultDelivered ==
  At("run") => threads[Cur].stack =
                 IF threads[Cur].due = NoOp THEN << >> ELSE <<threads[Cur].due>>

(* A waiting thread has exactly one operation that will wake it; a thread
   never has two, nor an operation besides a notification it has not seen. *)
WaiterHasOp ==
  \A t \in Threads :
    /\ Outstanding(t) + (IF threads[t].pending THEN 1 ELSE 0) <= 1
    /\ threads[t].waiting => Outstanding(t) = 1

(* The I/O thread never sleeps in select() on a set that lacks an active
   operation, unless a byte in the pipe is there, or about to be, to end it. *)
NoSleepingOp ==
  io.pc = "select" /\ pipe # None =>
    \A i \in {k \in Handles : Active(k)} :
      ops[i].fd \in io.set \/ pipe > 0 \/ (At("wake") /\ ops[i].thread = Cur)

(* The I/O thread touches contexts only while an engine has them. *)
ContextsOutliveIo == At("off") => io.pc = "down"

(* The I/O thread's recv() writes into the guest's linear memory. *)
BufInMemory ==
  io.pc = "io" /\ io.op.mode = "recv" /\ HasArrival(io.op.fd) => io.op.buf = memory

(* With a slot for every thread no call blocks the engine thread: slots are
   released in time. *)
NeverFallsBack == kMaxThreads <= kMaxSockets => ~ At("block")

(* The I/O thread calls recv() and accept() only when they do not block:
   otherwise one silent socket holds up all operations. *)
IoNeverBlocks ==
  io.pc = "io" /\ io.op.fd \in DOMAIN files => files[io.op.fd] > 0

(* Neither OS thread is held up by an operation of the other: who waits has
   an operation, select() watches it, and no call blocks. *)
NobodyStuck == WaiterHasOp /\ NoSleepingOp /\ NeverFallsBack /\ IoNeverBlocks

-----------------------------------------------------------------------------
(* Both OS threads keep running, select() times out, and guests are        *)
(* cooperative: one that runs gives the processor up.                      *)
Fairness ==
  /\ WF_vars(EngineStep)
  /\ WF_vars(GuestYield)
  /\ WF_vars(IoStep)

FairSpec == Spec /\ Fairness

Stopping == engine.pc \in {"stop", "join", "off"}

(* A thread that waits for a socket something has arrived at runs again. *)
OpCompletes ==
  \A t \in Threads :
    (threads[t].waiting /\ \E fd \in DOMAIN files :
        files[fd] > 0 /\ \E i \in Handles : ops[i].thread = t /\ ops[i].fd = fd)
      ~> Cur = t \/ Stopping

(* Deinit() comes to an end, whatever the I/O thread is doing. *)
DeinitReturns == At("stop") ~> At("off")
=============================================================================
