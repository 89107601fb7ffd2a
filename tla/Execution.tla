----------------------------- MODULE Execution -----------------------------
(***************************************************************************)
(* How threads get the processor: WasmEngine::Execute(), which runs the    *)
(* main thread and the workers it spawns in a loop without a lock until    *)
(* none is left, Run(), which does so for host threads for ever, and what  *)
(* a dispatch does around the interpreter (src/src/wasm_engine.cpp): it    *)
(* gives a worker a stack in linear memory by calling the guest's          *)
(* allocator, switches __stack_pointer, and takes the stack back; and it   *)
(* registers the task that PlatformNotifyActivity() wakes.                 *)
(*                                                                         *)
(* All threads belong to one module, which exports __stack_pointer and     *)
(* cabi_realloc.  A stack is the block it was allocated in; the guest code *)
(* keeps __stack_pointer inside the stack it started on.  Events, stops    *)
(* and the races of a notification with the dispatch that ends are the     *)
(* subject of Scheduler.  An application whose Execute() or Run() fails    *)
(* calls neither again.                                                    *)
(***************************************************************************)
EXTENDS Integers, Sequences, LinkedLists

CONSTANTS
  MaxThreads,   (* kMaxThreads; thread 1 is the main thread                  *)
  MaxSleep,     (* bound: longest sleep, in ticks of PlatformGetTimeMs()     *)
  Port,         (* the platform: "std" for cpp_std_thread, "rtos" for
                   freertos and uitron                                       *)
  MainLast,     (* whether the main thread joins the workers it spawned      *)
  Traps         (* the threads whose guest code traps, or calls exit()       *)

ASSUME ExecutionAssumption ==
  /\ MaxThreads \in Nat \ {0}
  /\ MaxSleep \in Nat
  /\ Port \in {"std", "rtos"}
  /\ MainLast \in BOOLEAN
  /\ Traps \subseteq 1 .. MaxThreads

Threads == 1 .. MaxThreads
Main == 1
Workers == 2 .. MaxThreads
NoThread == 0

(* Regions of linear memory a stack pointer may point into: the stack the
   module was linked with, and blocks of the guest's heap. *)
NoStack == 0
MainStack == -1
Blocks == Workers

VARIABLES
  threads,   (* threads_: see Fresh                                          *)
  ready,     (* ready_list_                                                  *)
  timeouts,  (* timeout_list_                                                *)
  sp,        (* the global __stack_pointer: the region it points into        *)
  blocks,    (* blocks of the guest's heap in use as stacks                  *)
  task,      (* whether scheduler_task names the engine's task               *)
  woken,     (* the pending notification of that task                        *)
  spawned,   (* bound: workers spawned since Execute()                       *)
  pc,        (* the place the engine's task has reached                      *)
  mode,      (* what runs the loop: "execute" or "run"                       *)
  cur,       (* ctx                                                          *)
  nested,    (* whether the interpreter was entered by ExecuteInternal()     *)
  res        (* what the interpreter, and in the end the loop, returned      *)

engine == <<pc, mode, cur, nested, res>>
lists == <<ready, timeouts>>
platform == <<task, woken>>
stacks == <<sp, blocks>>
vars == <<threads, lists, stacks, platform, spawned, engine>>

(* A context after Reset(): frames tells call_stack_top > 0, wake is the
   time left to sleep, base and saved are wasm_stack_base, wasm_saved_sp. *)
Fresh == [state |-> "terminated", kind |-> "none", wake |-> 0, frames |-> FALSE,
          base |-> NoStack, saved |-> NoStack]

(* Waiting threads do not count. *)
Active_Runnable(t) == threads[t].state \in {"ready", "running"}  \* mutant

Active(t) == threads[t].state # "terminated"
Sleepers == {t \in Threads : Linked(t, timeouts)}

(* PollSleeps(), in Run() inside the lock. *)
Polling == pc \in {"poll", "repoll"}

Goto(from, to) == pc = from /\ pc' = to

-----------------------------------------------------------------------------
(* Calls of the application.                                               *)

(* Execute(): SetupMainThread() and the loop without lock or lifecycle. *)
Execute ==
  /\ Goto("off", "top")
  /\ res # "error"
  /\ threads' = [threads EXCEPT ![Main] = [Fresh EXCEPT !.state = "ready"]]
  /\ ready' = Append(ready, Main)
  /\ spawned' = 0
  /\ mode' = "execute" /\ res' = "ok"
  /\ UNCHANGED <<timeouts, stacks, platform, cur, nested>>

(* Run(). *)
Run ==
  /\ Goto("off", "top")
  /\ res # "error"
  /\ task' = TRUE
  /\ mode' = "run" /\ res' = "ok"
  /\ UNCHANGED <<threads, lists, stacks, woken, spawned, cur, nested>>

(* The notification needs the task on every port. *)
Notified_Task(registered) == IF registered THEN TRUE ELSE woken  \* mutant

(* PlatformNotifyActivity(): on FreeRTOS and uITRON it needs the task. *)
Notified(registered) == IF Port = "rtos" /\ ~ registered THEN woken ELSE TRUE

(* StartThread() by another task, of a thread CreateHostThread() made. *)
StartThread(t) ==
  /\ mode = "run" /\ pc # "off" /\ ~ Polling /\ ~ Active(t)
  /\ threads' = [threads EXCEPT ![t] = [Fresh EXCEPT !.state = "ready"]]
  /\ ready' = Append(ready, t)
  /\ woken' = Notified(task)
  /\ UNCHANGED <<timeouts, stacks, task, spawned, engine>>

-----------------------------------------------------------------------------
(* The loop.                                                               *)

(* PollSleeps(), with the time it read when it began: the sleepers whose
   time has come, one by one. *)
Expired(t) == threads[t].wake = 0

(* The clock is not looked at. *)
PollExpired_Not(i) == FALSE                                      \* mutant

PollExpired(i) ==
  /\ Polling
  /\ i \in DOMAIN timeouts /\ Expired(timeouts[i])
  /\ \A j \in 1 .. i - 1 : ~ Expired(timeouts[j])
  /\ threads' = [threads EXCEPT ![timeouts[i]].state = "ready", ![timeouts[i]].kind = "none"]
  /\ timeouts' = Unlink(timeouts, i)
  /\ ready' = Append(ready, timeouts[i])
  /\ UNCHANGED <<stacks, platform, spawned, engine>>

(* Run() goes on with the first ready thread, Execute() with a new round;
   both wait if there is none, Execute() not after the second poll. *)
PollDone ==
  /\ Polling
  /\ \A i \in DOMAIN timeouts : ~ Expired(timeouts[i])
  /\ pc' = IF pc = "repoll" THEN "top"
           ELSE IF ready = << >> THEN "wait"
           ELSE IF mode = "run" THEN "pick" ELSE "top"
  /\ UNCHANGED <<threads, lists, stacks, platform, spawned, mode, cur, nested, res>>

(* Execute() returns when every thread has ended. *)
ExecuteReturns ==
  /\ Goto("top", "off") /\ mode = "execute" /\ \A t \in Threads : ~ Active(t)
  /\ UNCHANGED <<threads, lists, stacks, platform, spawned, mode, cur, nested, res>>

(* A round of Execute(): the sleepers are polled when nothing is ready; ... *)
ExecuteTop ==
  /\ pc = "top" /\ mode = "execute" /\ (\E t \in Threads : Active(t))
  /\ pc' = IF ready # << >> THEN "pick" ELSE "poll"
  /\ UNCHANGED <<threads, lists, stacks, platform, spawned, mode, cur, nested, res>>

(* ... a round of Run() polls them first. *)
RunTop ==
  /\ Goto("top", "poll") /\ mode = "run"
  /\ UNCHANGED <<threads, lists, stacks, platform, spawned, mode, cur, nested, res>>

(* PlatformWaitForActivity(): until the notification, or until the first
   sleeper's time has come.  Execute() polls the sleepers once more. *)
WaitForActivity ==
  /\ pc = "wait"
  /\ woken \/ \E t \in Sleepers : Expired(t)
  /\ woken' = FALSE
  /\ pc' = IF mode = "execute" THEN "repoll" ELSE "top"
  /\ UNCHANGED <<threads, lists, stacks, task, spawned, mode, cur, nested, res>>

-----------------------------------------------------------------------------
(* A dispatch.                                                             *)

NeedsStack(t) == t # Main /\ ~ threads[t].frames /\ threads[t].base = NoStack

Pick ==
  /\ pc = "pick"
  /\ cur' = Head(ready) /\ ready' = Tail(ready)
  /\ threads' = [threads EXCEPT ![Head(ready)].state = "running"]
  /\ pc' = IF NeedsStack(Head(ready)) THEN "alloc" ELSE "enter"
  /\ UNCHANGED <<timeouts, stacks, platform, spawned, mode, nested, res>>

FreeBlock == CHOOSE b \in Blocks \ blocks : TRUE

(* AllocThreadWasmStack(): ExecuteInternal() of cabi_realloc. *)
AllocThreadWasmStack ==
  /\ Goto("alloc", "enter") /\ Blocks # blocks
  /\ blocks' = blocks \cup {FreeBlock}
  /\ threads' = [threads EXCEPT ![cur].base = FreeBlock, ![cur].saved = FreeBlock]
  /\ task' = FALSE
  /\ UNCHANGED <<lists, sp, woken, spawned, mode, cur, nested, res>>

(* The guest has no memory left: the loop ends. *)
AllocThreadWasmStackFails ==
  /\ Goto("alloc", "off")
  /\ threads' = [threads EXCEPT ![cur].state = "terminated"]
  /\ task' = FALSE
  /\ cur' = NoThread /\ res' = "error"
  /\ UNCHANGED <<lists, stacks, woken, spawned, mode, nested>>

(* The pointer is restored for the thread that runs on only. *)
Restored_Not(t) == IF threads[t].frames THEN threads[t].saved ELSE sp \* mutant

(* RestoreThreadStackPointer(). *)
Restored(t) == IF threads[t].saved = NoStack THEN sp ELSE threads[t].saved

(* The interpreter is entered: for the first time by ExecuteInternal(),
   which registers the task, later by RunLoop(). *)
Enter ==
  /\ Goto("enter", "run")
  /\ sp' = Restored(cur)
  /\ nested' = ~ threads[cur].frames
  /\ threads' = [threads EXCEPT ![cur].frames = TRUE]
  /\ task' = (task \/ ~ threads[cur].frames)
  /\ UNCHANGED <<lists, blocks, woken, spawned, mode, cur, res>>

(* Back from the interpreter: ExecuteInternal() ends the registration, and
   SaveThreadStackPointer(). *)
Left(result) ==
  /\ pc' = IF result # "yield" /\ threads[cur].base # NoStack THEN "free" ELSE "finish"
  /\ res' = result
  /\ task' = (task /\ ~ nested)

Leave(result, t) ==
  /\ Left(result)
  /\ threads' = [threads EXCEPT ![cur] = [t EXCEPT !.saved = sp]]

-----------------------------------------------------------------------------
(* Guest code.                                                             *)

(* SignalEvent(): the thread that waits for the event is ready. *)
Signaled(t) == [t EXCEPT !.state = "ready", !.kind = "none", !.wake = 0]

FreeSlots == {t \in Workers : ~ Active(t)}

(* thread_spawn(): CreateThread() clears the stacks of the slot it uses but
   not the stack in linear memory. *)
Spawn ==
  /\ pc = "run" /\ cur = Main /\ FreeSlots # {} /\ spawned < MaxThreads - 1
  /\ LET t == CHOOSE t \in FreeSlots : \A s \in FreeSlots : t <= s
     IN  /\ threads' = [threads EXCEPT ![t].state = "ready", ![t].frames = FALSE]
         /\ ready' = Append(ready, t)
  /\ spawned' = spawned + 1
  /\ UNCHANGED <<timeouts, stacks, platform, engine>>

(* thread_yield(). *)
Yield ==
  /\ pc = "run"
  /\ Leave("yield", threads[cur])
  /\ UNCHANGED <<lists, stacks, woken, spawned, mode, cur, nested>>

(* thread_sleep(). *)
Sleep(n) ==
  /\ pc = "run"
  /\ Leave("yield", [threads[cur] EXCEPT !.state = "waiting", !.kind = "sleep", !.wake = n])
  /\ timeouts' = Append(timeouts, cur)
  /\ UNCHANGED <<ready, stacks, woken, spawned, mode, cur, nested>>

(* event_wait() of the event a worker signals when it is done; wake names
   the worker. *)
Join(w) ==
  /\ pc = "run" /\ cur = Main /\ Active(w)
  /\ Leave("yield", [threads[cur] EXCEPT !.state = "waiting", !.kind = "event", !.wake = w])
  /\ UNCHANGED <<lists, stacks, woken, spawned, mode, cur, nested>>

(* A call that waits for asynchronous I/O. *)
AwaitIo ==
  /\ pc = "run"
  /\ Leave("yield", [threads[cur] EXCEPT !.state = "waiting", !.kind = "notify"])
  /\ UNCHANGED <<lists, stacks, woken, spawned, mode, cur, nested>>

(* The thread's function returns, a worker's after event_signal(). *)
Return(t) ==
  LET joined == threads[Main].kind = "event" /\ threads[Main].wake = t
      left == [threads EXCEPT ![t].frames = FALSE, ![t].saved = sp]
  IN  /\ pc = "run" /\ cur = t
      /\ (MainLast /\ t = Main) => \A w \in Workers : ~ Active(w)
      /\ Left("ok")
      /\ threads' = IF joined THEN [left EXCEPT ![Main] = Signaled(@)] ELSE left
      /\ ready' = IF joined THEN Append(ready, Main) ELSE ready
      /\ UNCHANGED <<timeouts, stacks, woken, spawned, mode, cur, nested>>

(* A trap, or exit(): the frames stay. *)
Trap ==
  /\ pc = "run" /\ cur \in Traps
  /\ Leave("error", threads[cur])
  /\ UNCHANGED <<lists, stacks, woken, spawned, mode, cur, nested>>

-----------------------------------------------------------------------------
(* The end of a dispatch.                                                  *)

(* FreeThreadWasmStack(): ExecuteInternal() calls cabi_realloc to free the
   stack.  A context that still has frames goes on with those instead. *)
FreeThreadWasmStack ==
  /\ pc = "free"
  /\ IF threads[cur].frames
       THEN pc' = "resumed" /\ UNCHANGED <<threads, blocks, task>>
       ELSE /\ pc' = "finish"
            /\ blocks' = blocks \ {threads[cur].base}
            /\ threads' = [threads EXCEPT ![cur].base = NoStack, ![cur].saved = NoStack]
            /\ task' = FALSE
  /\ UNCHANGED <<lists, sp, woken, spawned, mode, cur, nested, res>>

(* The code after the trap runs until it comes to an end of some kind. *)
RunsOn ==
  /\ Goto("resumed", "finish")
  /\ threads' = [threads EXCEPT ![cur].frames = FALSE, ![cur].base = NoStack,
                                ![cur].saved = NoStack]
  /\ task' = FALSE
  /\ UNCHANGED <<lists, stacks, woken, spawned, mode, cur, nested, res>>

(* Not if it called a host function that makes it wait. *)
Requeued(t) == threads[t].state = "running"

(* The thread is requeued or has terminated; an error ends the loop. *)
Finish ==
  /\ pc = "finish"
  /\ IF res = "yield"
       THEN /\ ready' = IF Requeued(cur) THEN Append(ready, cur) ELSE ready
            /\ threads' = [threads EXCEPT ![cur].state =
                             IF Requeued(cur) THEN "ready" ELSE @]
       ELSE /\ threads' = [threads EXCEPT ![cur].state = "terminated"]
            /\ UNCHANGED ready
  /\ pc' = IF res = "error" THEN "off" ELSE "top"
  /\ res' = IF res = "error" THEN "error" ELSE "ok"
  /\ task' = (task /\ ~ (res = "error" /\ mode = "run"))
  /\ cur' = NoThread
  /\ UNCHANGED <<timeouts, stacks, woken, spawned, mode, nested>>

-----------------------------------------------------------------------------
(* The rest of the world.                                                  *)

Tick ==
  /\ ~ Polling
  /\ \E t \in Sleepers : threads[t].wake > 0
  /\ threads' = [t \in Threads |->
                   IF t \in Sleepers /\ threads[t].wake > 0
                     THEN [threads[t] EXCEPT !.wake = @ - 1] ELSE threads[t]]
  /\ UNCHANGED <<lists, stacks, platform, spawned, engine>>

(* ThreadNotify() when the I/O of a thread is done. *)
ThreadNotify(t) ==
  /\ threads[t].state = "waiting" /\ threads[t].kind = "notify" /\ cur # t
  /\ threads' = [threads EXCEPT ![t].state = "ready", ![t].kind = "none"]
  /\ ready' = Append(ready, t)
  /\ woken' = Notified(task)
  /\ UNCHANGED <<timeouts, stacks, task, spawned, engine>>

Init ==
  /\ threads = [t \in Threads |-> Fresh]
  /\ ready = << >> /\ timeouts = << >>
  /\ sp = MainStack /\ blocks = {}
  /\ task = FALSE /\ woken = FALSE
  /\ spawned = 0
  /\ pc = "off" /\ mode = "execute" /\ cur = NoThread
  /\ nested = FALSE /\ res = "ok"

LoopStep ==
  \/ ExecuteReturns \/ ExecuteTop \/ RunTop \/ WaitForActivity
  \/ Pick \/ AllocThreadWasmStack \/ Enter
  \/ FreeThreadWasmStack \/ RunsOn \/ Finish
  \/ PollDone \/ \E i \in DOMAIN timeouts : PollExpired(i)

GuestStep ==
  \/ Spawn \/ Yield \/ AwaitIo \/ Trap
  \/ \E n \in 0 .. MaxSleep : Sleep(n)

Next ==
  \/ Execute \/ Run \/ LoopStep \/ AllocThreadWasmStackFails \/ GuestStep \/ Tick
  \/ \E t \in Threads : Return(t) \/ ThreadNotify(t)
  \/ \E t \in Workers : StartThread(t) \/ Join(t)

Spec == Init /\ [][Next]_vars

(* The engine's task keeps running, time passes, I/O completes; and guest
   code ends: a thread that is dispatched again and again returns, and the
   main thread, as long as it may not, waits for a worker. *)
FairSpec ==
  /\ Spec
  /\ WF_vars(LoopStep) /\ WF_vars(Tick)
  /\ \A t \in Threads : SF_vars(Return(t)) /\ WF_vars(ThreadNotify(t))
  /\ \A w \in Workers : SF_vars(Join(w))

-----------------------------------------------------------------------------
(* Properties.                                                             *)

States == {"terminated", "ready", "running", "waiting"}
Stacks == {NoStack, MainStack} \cup Blocks

Context == [state : States, kind : {"none", "sleep", "notify", "event"}, wake : Nat,
            frames : BOOLEAN, base : {NoStack} \cup Blocks, saved : Stacks]

(* What the variables hold. *)
TypeOK ==
  /\ threads \in [Threads -> Context]
  /\ ready \in Seq(Threads) /\ timeouts \in Seq(Threads)
  /\ sp \in Stacks \ {NoStack} /\ blocks \subseteq Blocks
  /\ task \in BOOLEAN /\ woken \in BOOLEAN /\ nested \in BOOLEAN
  /\ spawned \in Nat
  /\ pc \in {"off", "top", "poll", "repoll", "wait", "pick", "alloc", "enter", "run",
             "free", "resumed", "finish"}
  /\ mode \in {"execute", "run"} /\ cur \in Threads \cup {NoThread}
  /\ res \in {"ok", "yield", "error"}

(* Guest code runs on the stack of its thread: a worker on the block that
   was allocated for it, the main thread on the module's own stack,
   whichever threads ran, slept, spawned and ended in between. *)
RunsOnOwnStack ==
  pc = "run" => sp = (IF cur = Main THEN MainStack ELSE threads[cur].base)

(* Every stack belongs to exactly one live thread: none is leaked, none is
   shared, and a thread that ended has given its stack back. *)
StacksBalanced ==
  res # "error" =>
    /\ blocks = {threads[t].base : t \in Threads} \ {NoStack}
    /\ \A t, u \in Threads : threads[t].base = threads[u].base =>
                               t = u \/ threads[t].base = NoStack
    /\ \A t \in Threads : threads[t].base # NoStack => Active(t)

(* Linear memory is divided among the threads. *)
OwnStacks == RunsOnOwnStack /\ StacksBalanced

(* The task never sleeps while a thread is ready, unless the notification
   that wakes it is under way (PlatformWaitForActivity() is documented to
   return at once when PlatformNotifyActivity() is called). *)
WakesForReady == (pc = "wait" /\ ready # << >>) => woken

(* When Execute() has returned kOk, every thread has ended, no list holds
   one, and every stack was freed. *)
DoneWhenOk ==
  (pc = "off" /\ res = "ok") =>
    /\ \A t \in Threads : threads[t] = [Fresh EXCEPT !.saved = threads[t].saved]
    /\ ready = << >> /\ timeouts = << >> /\ blocks = {}

(* ExecuteInternal() starts the call it is asked for: it does not go on with
   the frames of a call that trapped.  Does not hold if a worker is in Traps. *)
CallsStartFresh == pc # "resumed"

(* Execute() returns, if its threads do: sleepers, waiters for I/O and
   waiters for each other are not forgotten. *)
ExecuteCompletes == (mode = "execute" /\ pc # "off") ~> (pc = "off")
=============================================================================
