------------------------------ MODULE Scheduler ------------------------------
(***************************************************************************)
(* The cooperative thread scheduler of the engine (the WasmScheduler part  *)
(* of src/wasm_engine.cpp) in the mode WasmEngine::Run() selects: one OS   *)
(* thread, the engine thread, loops over the ready list and interprets one *)
(* WASM thread at a time, while other OS threads create, start and destroy *)
(* host threads, ask the loop to stop, or report finished asynchronous I/O *)
(* with ThreadNotify.  The platform is platform/cpp_std_thread.            *)
(*                                                                         *)
(* The program counter pc names the place the engine thread has reached in *)
(* RunInternal; it holds the platform lock exactly at "poll" and "pick".   *)
(* An engine call is one step, except where the code releases the lock or  *)
(* runs unlocked between two accesses another OS thread can see.           *)
(***************************************************************************)
EXTENDS Integers, Sequences, LinkedLists

CONSTANTS
  MaxThreads,  (* kMaxThreads; slot 1 is the main thread, which Run() never starts *)
  MaxEvents,   (* kMaxEvents: the event objects events_[], with ids from 1         *)
  Hosts,       (* OS threads that use the host-thread API                          *)
  MaxSleep,    (* bound: longest sleep, in ticks of PlatformGetTimeMs()            *)
  GuestOps,    (* which host functions the guest code calls                        *)
  HostOps,     (* which optional calls the hosts make                              *)
  Windows      (* unlocked gaps of the engine thread that other OS threads hit     *)

ASSUME SchedulerAssumption ==
  /\ MaxThreads \in Nat \ {0, 1}
  /\ MaxEvents \in Nat
  /\ MaxSleep \in Nat
  /\ GuestOps \subseteq {"spawn", "event", "sleep", "io"}
  /\ HostOps \subseteq {"callback", "destroy", "stop"}
  /\ Windows \subseteq {"spawn", "wait", "requeue", "callback"}

(***************************************************************************)
(* The main thread's slot is used by Execute() alone: under Run() it stays *)
(* kTerminated and no loop over the slots chooses it.                      *)
(***************************************************************************)
Threads == 2 .. MaxThreads
Events == 1 .. MaxEvents
NoThread == 0
NoEvent == 0
Forever == MaxSleep + 1        \* UINT32_MAX as a timeout

VARIABLES
  threads,      (* threads_[]: the contexts                                  *)
  ready,        (* ready_list_                                               *)
  timeouts,     (* timeout_list_                                             *)
  waiters,      (* events_[e].wait_list_                                     *)
  signaled,     (* events_[e].signaled                                       *)
  stop,         (* stop_requested_                                           *)
  notified,     (* the platform's wake-up flag                               *)
  pc,           (* where the engine thread is                                *)
  cur,          (* ctx, the thread being dispatched                          *)
  res,          (* what the interpreter returned for ctx                     *)
  cursor,       (* node PollSleeps looks at                                  *)
  signaling,    (* event SignalEvent works on                                *)
  deadline,     (* time left of PlatformWaitForActivity                      *)
  slot,         (* the slot CreateThread found                               *)
  io,           (* asynchronous operations held by the I/O thread            *)
  hpc,          (* where each host OS thread is in its call                  *)
  handle,       (* the host thread id each host OS thread holds              *)
  fired         (* history: completion callbacks since CreateHostThread      *)

scratch  == <<cursor, signaling, deadline, slot>>
engine   == <<pc, cur, res, scratch>>
lists    == <<ready, timeouts, waiters>>
platform == <<stop, notified>>
host     == <<hpc, handle>>
others   == <<io, host, fired>>
vars     == <<threads, lists, signaled, platform, engine, others>>

-----------------------------------------------------------------------------
(* WasmThreadContext, without the interpreter's stacks.  "Null" is an      *)
(* unallocated slot; wake is the time left until wake_time_ms; id is 0 or   *)
(* the slot's number.                                                      *)

States == {"Null", "Created", "Ready", "Running", "Waiting", "Terminated"}
Kinds  == {"None", "Event", "Sleep", "Notify"}
Results == {"ok", "exit", "error"}
PCs == {"idle", "top", "poll", "pick", "sleep", "alloc", "run", "signal",
        "spawn", "iowait", "iopark", "after", "callback"}

Context ==
  [state : States, id : {NoThread} \cup Threads, kind : Kinds,
   wake : 0 .. MaxSleep, pending : BOOLEAN,
   owned : BOOLEAN, cb : BOOLEAN, result : Results, fresh : BOOLEAN]

Reset ==
  [state |-> "Terminated", id |-> NoThread, kind |-> "None",
   wake |-> 0, pending |-> FALSE, owned |-> FALSE, cb |-> FALSE,
   result |-> "ok", fresh |-> TRUE]

NullSlot == [Reset EXCEPT !.state = "Null"]

MakeReady(c)     == [c EXCEPT !.state = "Ready", !.kind = "None"]
Terminate_NoResult(c, r) == [c EXCEPT !.state = "Terminated"]    \* mutant
Terminate(c, r)  == [c EXCEPT !.state = "Terminated", !.result = r]

(* The first slot a loop over threads_[] accepts. *)
FirstSlot(S) == CHOOSE t \in S : \A u \in S : t <= u

Active(t) == threads[t].state \notin {"Null", "Created", "Terminated"}

EngineHoldsLock == pc \in {"poll", "pick"}

(***************************************************************************)
(* A call of another OS thread may land in a gap only if Windows says so.  *)
(***************************************************************************)
Open(gap, inGap) == inGap => gap \in Windows

-----------------------------------------------------------------------------
Init ==
  /\ threads = [t \in Threads |-> NullSlot]
  /\ ready = << >> /\ timeouts = << >>
  /\ waiters = [e \in Events |-> << >>]
  /\ signaled = [e \in Events |-> FALSE]
  /\ stop = FALSE /\ notified = FALSE
  /\ pc = "idle" /\ cur = NoThread /\ res = "ok"
  /\ cursor = 1 /\ signaling = NoEvent /\ deadline = 0 /\ slot = NoThread
  /\ io = [t \in Threads |-> "none"]
  /\ hpc = [h \in Hosts |-> "free"]
  /\ handle = [h \in Hosts |-> NoThread]
  /\ fired = [t \in Threads |-> 0]

-----------------------------------------------------------------------------
(* The engine thread: RunInternal with the flags of Run().                 *)

Goto(from, to) == pc = from /\ pc' = to

(* The application calls Run(). *)
RunBegin ==
  /\ Goto("idle", "top")
  /\ UNCHANGED <<threads, lists, signaled, platform, cur, res, scratch,
                 others>>

LoopTop_PollWhenIdle ==                                          \* mutant
  /\ pc = "top"
  /\ pc' = IF stop THEN "idle" ELSE IF ready = << >> THEN "poll" ELSE "pick"
  /\ cursor' = 1
  /\ UNCHANGED <<threads, lists, signaled, platform, cur, res, deadline,
                 slot, signaling, others>>

(* PlatformLock, then the stop request is looked at; PollSleeps starts. *)
LoopTop ==
  /\ pc = "top"
  /\ pc' = IF stop THEN "idle" ELSE "poll"
  /\ cursor' = 1
  /\ UNCHANGED <<threads, lists, signaled, platform, cur, res, deadline,
                 slot, signaling, others>>

(* One node of PollSleeps: a sleeper whose time has come moves from
   timeout_list_ to the end of ready_list_. *)
PollExpired ==
  /\ pc = "poll" /\ cursor <= Len(timeouts)
  /\ LET t == timeouts[cursor] IN
       IF threads[t].wake = 0
         THEN /\ threads' = [threads EXCEPT ![t] = MakeReady(@)]
              /\ timeouts' = Unlink(timeouts, cursor)
              /\ ready' = Append(ready, t)
              /\ UNCHANGED cursor
         ELSE /\ cursor' = cursor + 1
              /\ UNCHANGED <<threads, timeouts, ready>>
  /\ UNCHANGED <<waiters, signaled, platform, pc, cur, res, deadline, slot,
                 signaling, others>>

PollDone ==
  /\ Goto("poll", "pick") /\ cursor > Len(timeouts)
  /\ cursor' = 1
  /\ UNCHANGED <<threads, lists, signaled, platform, cur, res, deadline,
                 slot, signaling, others>>

(* The first ready thread becomes kRunning and the lock is released; a
   thread that never ran first gets its stack in linear memory. *)
Pick ==
  /\ pc = "pick" /\ ready # << >> /\ \E t \in Threads : Active(t)
  /\ LET t == Head(ready) IN
       /\ cur' = t
       /\ threads' = [threads EXCEPT ![t].state = "Running"]
       /\ pc' = IF threads[t].fresh THEN "alloc" ELSE "run"
  /\ ready' = Tail(ready)
  /\ UNCHANGED <<timeouts, waiters, signaled, platform, res, scratch, others>>

(* ComputeMinSleepTimeout *)
MinSleepTimeout ==
  LET left == {threads[timeouts[i]].wake : i \in DOMAIN timeouts}
  IN IF left = {} THEN Forever ELSE CHOOSE n \in left : \A m \in left : n <= m

(* Nothing is ready (or no thread is active at all): the lock is released
   and the engine thread goes to PlatformWaitForActivity. *)
PickNone ==
  /\ Goto("pick", "sleep")
  /\ ready = << >> \/ \A t \in Threads : ~ Active(t)
  /\ deadline' = IF \E t \in Threads : Active(t) THEN MinSleepTimeout ELSE Forever
  /\ UNCHANGED <<threads, lists, signaled, platform, cur, res, cursor, slot,
                 signaling, others>>

(* PlatformWaitForActivity returns when it has been notified or its time is
   up, and clears the flag in both cases. *)
WakeUp ==
  /\ Goto("sleep", "top")
  /\ notified \/ deadline = 0
  /\ notified' = FALSE
  /\ deadline' = 0
  /\ UNCHANGED <<threads, lists, signaled, stop, cur, res, cursor, slot,
                 signaling, others>>

(* AllocThreadWasmStack succeeds and the interpreter starts the thread ... *)
AllocStack ==
  /\ Goto("alloc", "run")
  /\ threads' = [threads EXCEPT ![cur].fresh = FALSE]
  /\ UNCHANGED <<lists, signaled, platform, cur, res, scratch, others>>

(* An error also ends Run(); kExit is not an error.  The local variables
   of the round are gone. *)
EndRound(r) ==
  /\ pc' = IF r = "error" THEN "idle" ELSE "top"
  /\ cur' = NoThread /\ res' = "ok"

(* ctx is kTerminated; its completion callback is called, if it has one,
   after the lock has been released. *)
Complete(r) ==
  /\ threads' = [threads EXCEPT ![cur] = Terminate(@, r)]
  /\ IF threads[cur].cb
       THEN pc' = "callback" /\ res' = r /\ UNCHANGED cur
       ELSE EndRound(r)
  /\ UNCHANGED <<lists, signaled, platform, scratch, others>>

(* ... or fails, which terminates the thread with an error. *)
AllocStackFails == pc = "alloc" /\ Complete("error")

(* After the interpreter returned: under the lock again, a thread that
   yielded goes to the end of ready_list_ unless it waits for something, ... *)
Yielded_StaysRunning(s) == s                                     \* mutant
Yielded(s) == IF s = "Running" THEN "Ready" ELSE s

Relink_Always(list, t, s) == Append(list, t)                     \* mutant
Relink(list, t, s) == IF s = "Ready" THEN Append(list, t) ELSE list

Requeue ==
  /\ pc = "after" /\ res = "yield"
  /\ LET s == Yielded(threads[cur].state)
     IN /\ threads' = [threads EXCEPT ![cur].state = s]
        /\ ready' = Relink(ready, cur, s)
  /\ EndRound("ok")
  /\ UNCHANGED <<timeouts, waiters, signaled, platform, scratch, others>>

(* ... and any other thread has completed. *)
Finish == pc = "after" /\ res # "yield" /\ Complete(res)

Callback ==
  /\ pc = "callback" /\ EndRound(res)
  /\ fired' = [fired EXCEPT ![cur] = IF @ < 2 THEN @ + 1 ELSE @]
  /\ UNCHANGED <<threads, lists, signaled, platform, scratch, io, host>>

-----------------------------------------------------------------------------
(* The guest: the host functions the running thread calls.  WaitEvent,     *)
(* ThreadWait and ThreadSleep find the context by the thread's id, so they *)
(* do nothing for a thread whose id is 0.                                  *)

Named == threads[cur].id # NoThread

(* The host function (or the function's end, or a trap) makes the
   interpreter return r to RunInternal. *)
Returns(r) == /\ pc = "run" /\ pc' = "after" /\ res' = r

Yield ==
  /\ Returns("yield")
  /\ UNCHANGED <<threads, lists, signaled, platform, cur, scratch, others>>

Return(r) ==
  /\ Returns(r)
  /\ UNCHANGED <<threads, lists, signaled, platform, cur, scratch, others>>

(* event_wait: WaitEvent, then kYield.  A signaled event is consumed. *)
EventWait(e) ==
  /\ "event" \in GuestOps
  /\ Returns("yield")
  /\ IF ~ Named
       THEN UNCHANGED <<threads, waiters, signaled>>
     ELSE IF signaled[e]
       THEN /\ signaled' = [signaled EXCEPT ![e] = FALSE]
            /\ threads' = [threads EXCEPT ![cur] = MakeReady(@)]
            /\ UNCHANGED waiters
     ELSE   /\ threads' = [threads EXCEPT ![cur].state = "Waiting",
                                          ![cur].kind = "Event"]
            /\ waiters' = [waiters EXCEPT ![e] = Append(@, cur)]
            /\ UNCHANGED signaled
  /\ UNCHANGED <<ready, timeouts, platform, cur, scratch, others>>

(* event_signal: SignalEvent marks the event, ... *)
EventSignal(e) ==
  /\ "event" \in GuestOps
  /\ Goto("run", "signal")
  /\ signaled' = [signaled EXCEPT ![e] = TRUE]
  /\ signaling' = e
  /\ UNCHANGED <<threads, lists, platform, cur, res, cursor, deadline, slot,
                 others>>

(* ... moves its waiters one after the other to ready_list_, ... *)
SignalWaiter ==
  /\ pc = "signal" /\ waiters[signaling] # << >>
  /\ LET t == Head(waiters[signaling]) IN
       /\ threads' = [threads EXCEPT ![t] = MakeReady(@)]
       /\ ready' = Append(ready, t)
  /\ waiters' = [waiters EXCEPT ![signaling] = Tail(@)]
  /\ UNCHANGED <<timeouts, signaled, platform, pc, cur, res, scratch, others>>

SignalDone_AfterFirst ==                                         \* mutant
  /\ Goto("signal", "run")
  /\ notified' = TRUE
  /\ signaling' = NoEvent
  /\ UNCHANGED <<threads, lists, signaled, stop, cur, res, cursor, deadline,
                 slot, others>>

(* ... and wakes the platform; the guest goes on. *)
SignalDone ==
  /\ Goto("signal", "run") /\ waiters[signaling] = << >>
  /\ notified' = TRUE
  /\ signaling' = NoEvent
  /\ UNCHANGED <<threads, lists, signaled, stop, cur, res, cursor, deadline,
                 slot, others>>

(* ThreadSleep, then kYield. *)
Sleep(d) ==
  /\ "sleep" \in GuestOps
  /\ Returns("yield")
  /\ IF Named
       THEN /\ threads' = [threads EXCEPT ![cur].state = "Waiting",
                                          ![cur].kind = "Sleep",
                                          ![cur].wake = d]
            /\ timeouts' = Append(timeouts, cur)
       ELSE UNCHANGED <<threads, timeouts>>
  /\ UNCHANGED <<ready, waiters, signaled, platform, cur, scratch, others>>

(* thread_spawn: CreateThread looks, without the lock, for the first slot
   that is unallocated or kTerminated, ... *)
SpawnSlots == {t \in Threads : threads[t].state \in {"Null", "Terminated"}}

SpawnFind ==
  /\ "spawn" \in GuestOps
  /\ Goto("run", "spawn") /\ SpawnSlots # {}
  /\ slot' = FirstSlot(SpawnSlots)
  /\ UNCHANGED <<threads, lists, signaled, platform, cur, res, cursor,
                 deadline, signaling, others>>

(* ... allocates its context if there is none (which may fail) and links it
   in ready_list_.  A context that existed keeps the fields not named here. *)
Claimed(c) == [c EXCEPT !.state = "Ready", !.fresh = TRUE]

SpawnClaim ==
  /\ Goto("spawn", "run")
  /\ threads' = [threads EXCEPT ![slot] =
                   Claimed(IF @.state = "Null" THEN [Reset EXCEPT !.id = slot] ELSE @)]
  /\ ready' = Append(ready, slot)
  /\ slot' = NoThread
  /\ UNCHANGED <<timeouts, waiters, signaled, platform, cur, res, cursor,
                 deadline, signaling, others>>

SpawnFails ==
  /\ Goto("spawn", "run") /\ threads[slot].state = "Null"
  /\ slot' = NoThread
  /\ UNCHANGED <<threads, lists, signaled, platform, cur, res, cursor,
                 deadline, signaling, others>>

(* An asynchronous socket call: the operation is handed to the I/O thread,
   with the context's id, ... *)
IoRegister ==
  /\ "io" \in GuestOps
  /\ Goto("run", "iowait") /\ io[cur] = "none"
  /\ io' = IF Named THEN [io EXCEPT ![cur] = "submitted"] ELSE io
  /\ UNCHANGED <<threads, lists, signaled, platform, cur, res, host, fired,
                 scratch>>

(* ... then ThreadWait looks at notify_pending: a notification that came
   first is consumed, otherwise the thread is about to wait, ... *)
NotifiedEarly_Ignored == FALSE                                   \* mutant
NotifiedEarly == threads[cur].pending

ThreadWaitCheck ==
  /\ pc = "iowait"
  /\ IF Named /\ ~ NotifiedEarly
       THEN pc' = "iopark" /\ UNCHANGED <<threads, res>>
       ELSE /\ pc' = "after" /\ res' = "yield"
            /\ threads' = IF Named
                            THEN [threads EXCEPT ![cur] = [MakeReady(@) EXCEPT !.pending = FALSE]]
                            ELSE threads
  /\ UNCHANGED <<lists, signaled, platform, cur, scratch, others>>

(* ... and the thread is marked as waiting; kYield. *)
ThreadWaitPark ==
  /\ pc = "iopark" /\ pc' = "after" /\ res' = "yield"
  /\ threads' = [threads EXCEPT ![cur].state = "Waiting", ![cur].kind = "Notify"]
  /\ UNCHANGED <<lists, signaled, platform, cur, scratch, others>>

-----------------------------------------------------------------------------
(* The I/O thread: ThreadNotify, which takes no lock, ...                  *)

ThreadNotify(t) ==
  /\ io[t] = "submitted"
  /\ Open("wait", pc = "iopark" /\ cur = t)
  /\ Open("requeue", pc = "after" /\ cur = t)
  /\ IF threads[t].state = "Waiting" /\ threads[t].kind = "Notify"
       THEN /\ threads' = [threads EXCEPT ![t] = MakeReady(@)]
            /\ ready' = Append(ready, t)
            /\ io' = [io EXCEPT ![t] = "notify"]
       ELSE /\ threads' = [threads EXCEPT ![t].pending = TRUE]
            /\ io' = [io EXCEPT ![t] = "none"]
            /\ UNCHANGED ready
  /\ UNCHANGED <<timeouts, waiters, signaled, platform, engine, host, fired>>

(* ... and PlatformNotifyActivity, which takes the platform's mutex. *)
IoNotifyActivity(t) ==
  /\ io[t] = "notify" /\ ~ EngineHoldsLock
  /\ notified' = TRUE
  /\ io' = [io EXCEPT ![t] = "none"]
  /\ UNCHANGED <<threads, lists, signaled, stop, engine, host, fired>>

-----------------------------------------------------------------------------
(* Host OS threads.  Each call is made with the id that the caller's own   *)
(* CreateHostThread returned.                                              *)

Mine(h) == threads[handle[h]]

HostStep(h, from, to) ==
  /\ hpc[h] = from
  /\ hpc' = [hpc EXCEPT ![h] = to]
  /\ Open("spawn", pc = "spawn")

(* CreateHostThread, under the lock: unlike CreateThread it leaves slots
   that wait for DestroyHostThread alone, and resets the context. *)
HostSlots_Any == {t \in Threads : threads[t].state \in {"Null", "Terminated"}}  \* mutant
HostSlots == {t \in Threads : \/ threads[t].state = "Null"
                              \/ threads[t].state = "Terminated" /\ ~ threads[t].owned}

CreateHostThread(h) ==
  /\ HostStep(h, "free", "notify") /\ ~ EngineHoldsLock
  /\ handle[h] = NoThread /\ HostSlots # {}
  /\ LET t == FirstSlot(HostSlots) IN
       /\ threads' = [threads EXCEPT ![t] =
                        [Reset EXCEPT !.id = t, !.state = "Created", !.owned = TRUE]]
       /\ handle' = [handle EXCEPT ![h] = t]
       /\ fired' = [fired EXCEPT ![t] = 0]
  /\ UNCHANGED <<lists, signaled, platform, engine, io>>

(* SetThreadCallback takes no lock; hosts call it before StartThread. *)
SetThreadCallback(h) ==
  /\ "callback" \in HostOps
  /\ HostStep(h, "free", "free")
  /\ handle[h] # NoThread /\ Mine(h).state = "Created" /\ ~ Mine(h).cb
  /\ threads' = [threads EXCEPT ![handle[h]].cb = TRUE]
  /\ UNCHANGED <<lists, signaled, platform, engine, io, handle, fired>>

(* StartThread checks kCreated before it takes the lock. *)
Startable_Again(c) == c.state \in {"Created", "Terminated"}      \* mutant
Startable(c) == c.state = "Created"

StartThreadCheck(h) ==
  /\ HostStep(h, "free", "start")
  /\ handle[h] # NoThread /\ Startable(Mine(h))
  /\ UNCHANGED <<threads, lists, signaled, platform, engine, io, handle, fired>>

StartThread(h) ==
  /\ HostStep(h, "start", "notify") /\ ~ EngineHoldsLock
  /\ threads' = [threads EXCEPT ![handle[h]].state = "Ready"]
  /\ ready' = Append(ready, handle[h])
  /\ UNCHANGED <<timeouts, waiters, signaled, platform, engine, io, handle,
                 fired>>

(* DestroyHostThread that returns true; it returns false, changing nothing,
   until the thread is kTerminated, so a host may simply poll it. *)
DestroyHostThread(h) ==
  /\ "destroy" \in HostOps
  /\ HostStep(h, "free", "free") /\ ~ EngineHoldsLock
  /\ handle[h] # NoThread
  /\ Mine(h).owned /\ Mine(h).state \in {"Terminated", "Created"}
  /\ Open("callback", pc = "callback" /\ cur = handle[h])
  /\ threads' = [threads EXCEPT ![handle[h]] = Reset]
  /\ handle' = [handle EXCEPT ![h] = NoThread]
  /\ UNCHANGED <<lists, signaled, platform, engine, io, fired>>

Stop_NoNotify(h) ==                                              \* mutant
  /\ "stop" \in HostOps
  /\ HostStep(h, "free", "free") /\ ~ EngineHoldsLock
  /\ stop' = TRUE
  /\ UNCHANGED <<threads, lists, signaled, notified, engine, io, handle, fired>>

(* Stop: the request is set under the lock; nothing ever clears it. *)
Stop(h) ==
  /\ "stop" \in HostOps
  /\ HostStep(h, "free", "notify") /\ ~ EngineHoldsLock
  /\ stop' = TRUE
  /\ UNCHANGED <<threads, lists, signaled, notified, engine, io, handle, fired>>

(* PlatformNotifyActivity takes the same mutex as PlatformLock. *)
HostNotifyActivity(h) ==
  /\ HostStep(h, "notify", "free") /\ ~ EngineHoldsLock
  /\ notified' = TRUE
  /\ UNCHANGED <<threads, lists, signaled, stop, engine, io, handle, fired>>

-----------------------------------------------------------------------------
(* Time passes, except inside PollSleeps, which reads the clock once.      *)
Minus1_NoFloor(n) == n - 1                                       \* mutant
Minus1(n) == IF n > 0 THEN n - 1 ELSE 0

Tick ==
  /\ pc # "poll"
  /\ \/ pc = "sleep" /\ deadline \in 1 .. MaxSleep
     \/ \E t \in Threads : threads[t].wake > 0
  /\ threads' = [t \in Threads |-> [threads[t] EXCEPT !.wake = Minus1(@)]]
  /\ deadline' = IF deadline = Forever THEN deadline ELSE Minus1(deadline)
  /\ UNCHANGED <<lists, signaled, platform, pc, cur, res, cursor, signaling,
                 slot, others>>

-----------------------------------------------------------------------------
EngineStep ==
  \/ LoopTop \/ PollExpired \/ PollDone \/ Pick \/ PickNone \/ WakeUp
  \/ AllocStack \/ AllocStackFails \/ Requeue \/ Finish \/ Callback
  \/ SignalWaiter \/ SignalDone \/ SpawnClaim \/ SpawnFails
  \/ ThreadWaitCheck \/ ThreadWaitPark

(* The running thread gives the processor up ... *)
GuestLeaves ==
  \/ Yield
  \/ \E r \in Results : Return(r)
  \/ \E e \in Events : EventWait(e)
  \/ \E d \in 0 .. MaxSleep : Sleep(d)
  \/ IoRegister

(* ... or goes on after a call. *)
GuestGoesOn ==
  \/ \E e \in Events : EventSignal(e)
  \/ SpawnFind

HostStarts(h) ==
  \/ CreateHostThread(h) \/ SetThreadCallback(h) \/ StartThreadCheck(h)
  \/ DestroyHostThread(h) \/ Stop(h)

HostFinishes(h) == StartThread(h) \/ HostNotifyActivity(h)

IoFinishes(t) == ThreadNotify(t) \/ IoNotifyActivity(t)

Next ==
  \/ RunBegin
  \/ EngineStep
  \/ GuestLeaves
  \/ GuestGoesOn
  \/ \E h \in Hosts : HostStarts(h) \/ HostFinishes(h)
  \/ \E t \in Threads : IoFinishes(t)
  \/ Tick

Spec == Init /\ [][Next]_vars

-----------------------------------------------------------------------------
(* Properties.                                                             *)

ThreadsOK == threads \in [Threads -> Context]

ListsOK ==
  /\ ready \in Seq(Threads) /\ timeouts \in Seq(Threads)
  /\ waiters \in [Events -> Seq(Threads)]

EngineOK ==
  /\ pc \in PCs /\ cur \in {NoThread} \cup Threads
  /\ res \in Results \cup {"yield"}
  /\ cursor \in Nat \ {0} /\ signaling \in {NoEvent} \cup Events
  /\ deadline \in 0 .. Forever /\ slot \in {NoThread} \cup Threads

OthersOK ==
  /\ signaled \in [Events -> BOOLEAN]
  /\ stop \in BOOLEAN /\ notified \in BOOLEAN
  /\ io \in [Threads -> {"none", "submitted", "notify"}]
  /\ hpc \in [Hosts -> {"free", "start", "notify"}]
  /\ handle \in [Hosts -> {NoThread} \cup Threads]
  /\ fired \in [Threads -> 0 .. 2]

(* Type invariant of the engine's scheduler state and of its callers. *)
TypeOK == ThreadsOK /\ ListsOK /\ EngineOK /\ OthersOK

(* The dispatched thread between its host function's kYield and the lock: a
   kReady thread that Requeue is about to link. *)
InHand(t) == t = cur /\ pc = "after"

Waits(t, kind) == threads[t].state = "Waiting" /\ threads[t].kind = kind

(* A context has one list_node: every thread is linked at most once, in the
   list its state and wait kind call for, so none is lost or linked twice. *)
ReadyMatches ==
  /\ NoDuplicates(ready)
  /\ \A t \in Threads :
       Linked(t, ready) <=> threads[t].state = "Ready" /\ ~ InHand(t)

TimeoutsMatch ==
  /\ NoDuplicates(timeouts)
  /\ \A t \in Threads : Linked(t, timeouts) <=> Waits(t, "Sleep")

WaitersMatch ==
  /\ \A e \in Events : NoDuplicates(waiters[e])
  /\ \A t \in Threads :
       (\E e \in Events : Linked(t, waiters[e])) <=> Waits(t, "Event")
  /\ \A t \in Threads : \A e, f \in Events :
       Linked(t, waiters[e]) /\ Linked(t, waiters[f]) => e = f

QueuesMatchStates == ReadyMatches /\ TimeoutsMatch /\ WaitersMatch

(* GetCurrentThreadContext looks for the kRunning context: it finds the one
   the engine thread dispatched, and no other exists. *)
OneRunning ==
  \A t \in Threads : threads[t].state = "Running" => t = cur

(* No thread waits for an event that is signaled, except while SignalEvent
   is still moving that event's waiters. *)
NoWaiterOfSignaled ==
  \A e \in Events : signaled[e] /\ waiters[e] # << >> => signaling = e

(* A thread parked by ThreadWait has a notification still to come: none was
   delivered early and forgotten, so it cannot wait for ever. *)
NoLostNotify ==
  \A t \in Threads :
    Waits(t, "Notify") => io[t] = "submitted" /\ ~ threads[t].pending

(* The slot behind a host's handle belongs to that host alone until it
   calls DestroyHostThread. *)
HandlesExclusive ==
  \A h \in Hosts : handle[h] # NoThread =>
    /\ Mine(h).owned /\ Mine(h).id = handle[h]
    /\ \A g \in Hosts \ {h} : handle[g] # handle[h]

(* The completion callback of a host thread is called at most once, and
   only for a thread that has terminated. *)
CallbackOnce ==
  \A t \in Threads : threads[t].owned =>
    /\ fired[t] <= 1
    /\ fired[t] = 1 => threads[t].state = "Terminated"

(* A terminated host thread's slot is not used again before it has been
   destroyed. *)
SlotNotReused ==
  [][\A t \in Threads :
       threads[t].owned /\ threads[t].state = "Terminated"
         => threads'[t].state = "Terminated"]_vars

(* The completion callback gets the context of the thread that terminated,
   with its result. *)
CallbackContext ==
  [][Callback => /\ threads[cur].owned
                 /\ threads[cur].state = "Terminated"
                 /\ threads[cur].result = res]_vars

(* A context has a single list_node: it is linked in one place at a time. *)
LinkedOnce == NoDuplicates(ready)

(* A thread a host created is made ready by that host's StartThread only. *)
StartedByHost ==
  [][\A t \in Threads :
       threads[t].state = "Created" /\ threads'[t].state = "Ready"
         => \E h \in Hosts : handle[h] = t /\ hpc[h] = "start"]_vars

(* A thread that waits for a list to wake it has the id it is found by. *)
LiveThreadsNamed ==
  \A t \in Threads : Active(t) => threads[t].id = t

-----------------------------------------------------------------------------
(* Liveness under Run().  The engine thread keeps running, time passes, I/O *)
(* completes, a host call that began ends, and guests are cooperative: one *)
(* that is dispatched again and again gives the processor up.  Nothing      *)
(* obliges the application to call Run(), nor a host to make a call.        *)
Fairness ==
  /\ WF_vars(EngineStep)
  /\ SF_vars(GuestLeaves)
  /\ SF_vars(Tick)
  /\ \A h \in Hosts : WF_vars(HostFinishes(h))
  /\ \A t \in Threads : WF_vars(IoFinishes(t))

FairSpec == Spec /\ Fairness

(* While Run() goes on, every ready thread is dispatched. *)
ReadyRuns ==
  \A t \in Threads :
    threads[t].state = "Ready" ~> threads[t].state = "Running" \/ pc = "idle"

(* While Run() goes on, a sleeping thread is dispatched again. *)
SleeperRuns ==
  \A t \in Threads :
    Waits(t, "Sleep") ~> threads[t].state = "Running" \/ pc = "idle"

(* While Run() goes on, a thread that waits for asynchronous I/O is
   dispatched again. *)
IoWaiterRuns ==
  \A t \in Threads :
    Waits(t, "Notify") ~> threads[t].state = "Running" \/ pc = "idle"

(* While Run() goes on, no thread is forgotten: the ready ones take turns,
   sleepers are not starved by them, and I/O brings its waiter back. *)
EveryThreadRuns == ReadyRuns /\ SleeperRuns /\ IoWaiterRuns

(* Stop() makes Run() return. *)
StopReturns == stop ~> pc = "idle"
=============================================================================
