# Formal models of embwasm

embwasm is a small WebAssembly engine for microcontrollers (C++11, no heap, no
exceptions). This directory holds TLA+ models of its control logic, TLC
configurations that check them on small instances, and proofs checked with
TLAPS. Paths below are relative to the repository; `engine` stands for
`src/wasm_engine.cpp`.

## 1. Inventory

| component | state it keeps | operations | how it interacts |
|---|---|---|---|
| scheduler (`engine` 5133-5519) | contexts `threads_[]`, `ready_list_`, `timeout_list_`, events with `wait_list_`, `stop_requested_` | `Run`, `RunInternal`, `Step`, `CreateThread`, `WaitEvent`, `SignalEvent`, `ThreadWait`, `ThreadNotify`, `ThreadSleep`, `PollSleeps` | called by host functions the guest calls, by host OS threads and by the I/O thread; calls the interpreter and the platform |
| host-thread API (`engine` 5574-5660) | `requires_destroy`, callback, result of a context | `CreateHostThread`, `SetThreadCallback`, `StartThread`, `DestroyHostThread`, `GetThreadResult`, `Stop` | other OS threads, under the platform lock where the code takes it |
| execution entry (`engine` 2726-3096) | the main context | `Execute`, `ExecuteByIndex`, `ExecuteResolved`, `ExecuteInternal` | runs the unlocked loop; re-entered by host functions |
| worker stacks (`engine` 5521-5572) | `wasm_stack_base`, `wasm_saved_sp`, the guest's `__stack_pointer` | `AllocThreadWasmStack`, `FreeThreadWasmStack`, `Save/RestoreThreadStackPointer` | call the guest's malloc and free through `ExecuteInternal` |
| platform ports (`platform/*`) | lock, wake-up flag or task handle, clock | `PlatformLock/Unlock`, `PlatformWaitForActivity`, `PlatformNotifyActivity`, `PlatformEngineRunBegin/End` | one per operating system |
| memory pool (`src/wasm_memory_pool.cpp`) | blocks, free list, statistics | `Init`, `Allocate`, `Free`, `Reset` | everything the engine allocates |
| intrusive lists (`include/wasm_types.hpp`) | `ListNode` rings | add, remove, pop | used by the scheduler |
| interpreter (`engine` 2909-5130) | operand stack, frames, label pool | `RunLoop`, `PushCallFrame`, `StackUnwind`, `FindBlockJump` | calls host functions, returns `kYield`, `kExit` or an error |
| loader and validator (`engine` 1170-2640) | a module's sections | `LoadModule`, section parsers, `Validate` | allocates from the pool |
| registry and linking (`engine` 485-1168) | modules, aliases, instances | `ResolveImports`, `InstantiateModules`, `FreeModuleInstance`, `UnloadAllModules`, `RegisterAlias` | instances share memories and tables |
| sockets (`wasm_host_modules/src/sockets`) | handle table, table of asynchronous operations, I/O thread | create, bind, listen, accept, recv, send, close | the I/O thread calls `ThreadNotify` |
| threads host module (`src/hostmodule/threads`) | none | spawn, yield, sleep, event wait/signal | guest side of the scheduler |
| stdio, system, demos, tools, targets | output, build-time data | | not concurrent; `targets/` is vendored FreeRTOS |

Hard behaviour: three kinds of OS threads touch the scheduler (the engine
thread, hosts, the I/O thread) and the lock covers only part of what they share;
`ThreadNotify` and `CreateThread` take no lock, and the completion callback runs
after the unlock. Slots are reused by two allocators with different rules.
Wake-ups race with time-outs. A worker that fails ends the loop for all.
`PROJECT.json` lists each hazard at its line with the properties aimed at it.

What makes each part correct: every context is in exactly one list and the one
its state names; no wake-up is lost; every ready or sleeping thread runs again;
a host's handle is its own; the callback comes once with the right result
(scheduler). Blocks partition the pool, the free list is the free blocks,
neighbouring free blocks are merged (pool). Stack pointers are never those of
a freed stack (worker stacks). Labels and operand heights agree with the
validator's view (interpreter). An instance's memory and table views stay those of
their owner (linking). An operation's result reaches the thread that asked
(sockets).

## 2. Plan

The order was: what every call goes through first, then what it runs on.

1. `Scheduler` (`MCScheduler`, `SchedulerProofs`): the locked loop and the calls of other
   OS threads. Done.
2. `MemoryPool` (`Allocator`, `MCMemoryPool`, `MemoryPoolProofs`): done.
3. `Validator`, `Interpreter` (`Typing`, `WasmMachine`, `WasmRefinement`, `MCInterpreter`,
   `InterpreterProofs`, `RefinementProofs`): the control flow of validated code and its refinement
   of the structured semantics. Done; every invariant, type soundness and the refinement are proved.
4. `Modules` (`Store`, `MCModules`, `ModulesProofs`): registry, linking, instantiation, shared
   memories. Done; every invariant and the refinement of `Store` are proved.
5. `Sockets` (`SocketsProofs`): handles, asynchronous operations, the I/O thread. Done; every safety
   property is proved, liveness is model-checked.
6. `Execution` (`ExecutionProofs`): `Execute()`, the main thread, worker stacks, the two kinds of
   platform ports. Done.

Left: the choice `CreateEvent` makes; the section parsers, if anything but decoding comes to depend
on them. Every safety and action property and every refinement that a run checks is a theorem; what
stays with TLC is liveness.

## 3. Modules

`Scheduler.tla` models `RunInternal` with the flags `Run()` passes (the locked
loop that runs for ever) and every call other OS threads make.

State. `threads` is `threads_[]`, one record per slot: `state`, `id` (0 after
`Reset`), `kind` (`wait_kind`), `wake` (time left until `wake_time_ms`),
`pending` (`notify_pending`), `owned` (`requires_destroy`), `cb` (a callback is set),
`result`, and `fresh` (never ran: no frames and no stack in linear memory).
`ready`, `timeouts` and `waiters` are the intrusive lists as sequences of slots.
Slot 1, the main thread, is used by `Execute()` alone and is left out. `pc`, `cur`,
`res`, `cursor`, `signaling`, `deadline` and `slot` are the engine thread's place and its
local variables; a local that is dead is set to one value, so that states do not
differ in it. `hpc` and `handle` belong to host OS threads, `io` is what the I/O
thread holds for a context, `notified` the port's wake-up flag, and `fired`
counts callbacks.

Actions, in the order of a round of the loop:

| `pc` | actions | code |
|---|---|---|
| idle | `RunBegin` | the application calls `Run()` |
| top | `LoopTop` | lock, look at `stop_requested_` |
| poll (locked) | `PollExpired`, `PollDone` | `PollSleeps`, one node per step |
| pick (locked) | `Pick`, `PickNone` | pop the first ready context, unlock |
| sleep | `WakeUp` | `PlatformWaitForActivity` |
| alloc | `AllocStack`, `AllocStackFails` | `AllocThreadWasmStack` |
| run | `Yield`, `Return`, `EventWait`, `Sleep`, `EventSignal`, `SpawnFind`, `IoRegister` | the interpreter, up to the next host function that matters |
| signal | `SignalWaiter`, `SignalDone` | `SignalEvent`, one waiter per step |
| spawn | `SpawnClaim`, `SpawnFails` | `CreateThread` after it chose a slot |
| iowait, iopark | `ThreadWaitCheck`, `ThreadWaitPark` | `ThreadWait`'s test and its stores |
| after | `Requeue`, `Finish` | lock, requeue or terminate, unlock |
| callback | `Callback` | the completion callback, unlocked |

Hosts: `CreateHostThread`, `SetThreadCallback`, `StartThreadCheck` then `StartThread`
(test outside the lock, rest inside), `DestroyHostThread`, `Stop`; those that end in
`PlatformNotifyActivity` do it as a step of its own (`HostNotifyActivity`). The I/O
thread: `ThreadNotify`, then `IoNotifyActivity`. `Tick` is the clock.

Steps. The engine thread interprets between two host functions without touching
what others see, so an engine call is one step except where it gives up the lock or
runs unlocked between two accesses another OS thread can see. Locked regions
(`poll`, `pick`) exclude the actions that take the lock.

`Windows`. Some unlocked gaps of the engine thread are races in the code. The
constant `Windows` names those into which TLC lets another OS thread's call fall:
`spawn` (between `CreateThread`'s choice of a slot and its claim), `wait` (inside
`ThreadWait`), `requeue` (between `ThreadWait` and the requeue) and `callback`
(between unlock and callback). With `Windows = {}` the runs and proofs show that the
rest of the design is right; section 5 says what goes wrong with each single window
open. `notified` and the lists are not split into machine accesses: a data race
on the pointers of a list is outside the model.

`SchedulerProofs.tla` holds the proofs, `MCScheduler.tla` the module TLC runs.
`LinkedLists.tla` has the list operations that the scheduler and the pool share, and
`LinkedListLemmas.tla` what they do to the set of linked nodes.

`Allocator.tla` is what the users of the memory pool rely on: `held` maps each pointer
in use to the size asked for, and `Allocate` may return any aligned pointer whose bytes
are inside the buffer and nobody else's.

`MemoryPool.tla` models `wasm_memory_pool.cpp` on offsets from `buffer_`. `heap` is what
the headers in the buffer say: `size` and `prev` by block, the set `free` of blocks with
bit 0 set, and `list`, the free list from its head. The next block is computed from the
size, as in the code, and not from a stored order. `up`, `cap` and `used` are `buffer_`,
`capacity_` and `used_bytes_`; `held` is what the callers have.

| code | actions |
|---|---|
| `Init`, `Deinit`, `Reset` | `PoolInit`, `Deinit`, `Reset` |
| `Allocate`: sizes, search | `Search` |
| `Allocate`: block found is split or taken whole | `Split`, `TakeWhole` |
| `Free` | `Free`; `FreeIgnored` for the early returns |

`Allocate` that returns `nullptr` changes nothing and is no action. Its two steps lie
inside `DisableInterrupts()`; `Exclusive` says whether that function excludes other
callers. Sizes are computed modulo `Word`. `PoolIsAllocator` is the refinement:
`Split` and `TakeWhole` are `Allocate` of the abstract module, `Search` is a stutter.

### Validator and interpreter

`Validator.tla` models `Validate`'s pass over the functions and `ValidateFunctionBody`. A
body is a sequence of decoded instructions, so an offset is a number of instructions;
opcodes that only move operands are grouped by what they pop and push. `scan` holds the
local variables of the function: `ip`, the label stack, `jumps` (the jump table under
construction), the height of the operand stack, the largest heights seen and
`is_unreachable`. `BeginBody` is the first pass, which sizes the buffers; each opcode of the
second pass is an action (`ScanBlock`, `ScanIf`, `ScanElse`, `ScanEnd`, `ScanJump`, `ScanCall`,
`ScanCallIndirect`, `ScanOperands`), `RejectInstruction` its early returns, `EndBody` what it
stores in the function.

`Interpreter.tla` models `ExecuteInternal`'s first frame, `RunLoop` and `PushCallFrame`.
`stack` is the context's one stack of locals and operands, `call_stack` the frames, each
with its slice of the label pool, `labels_pool_top` the pool's counter, `regs` the two
values `RunLoop` keeps in local variables (`ip` and `label_top`), `status` how it
left. Every control opcode is an action; `Operand` stands for the others by what they do to
the stack. `Call` and `CallIndirect` go to `PushCallFrame` or to a host function, which may
return, fail, or ask to be suspended; `Resume` is the re-entry of a suspended context.
`FindBlockJump` is the search of the code, by halving.

`Typing.tla` says which bodies are valid: the checker of the WebAssembly specification's appendix, on
numbers of operands (`Check`, a step for each instruction; `TypingOf`, its states along a body;
`WellTyped`, that it accepts). It models nothing of the engine: it is what the validator and the
interpreter are measured by. It leaves out two things the engine is known to do differently (section
5): a branch to the label of the function, unless the constant `Features` has `br_function`, and an `if`
with parameters. `MCInterpreter` enumerates the valid bodies of a bounded length with it.

`WasmMachine.tla` is the structured semantics of WebAssembly: frames with their own
locals, blocks with their own operands, ends of blocks read off the nesting. It knows
no jump table, no shared stack and no label pool, so `RunsWebAssembly` says that those are only an
implementation. `WasmRefinement.tla` holds it with the mapping: a frame's blocks are its labels, and
the operands of a block are the slots of the one stack from its label up to the next (`Frames`); a
call that failed leaves no activation.

### Modules and linking

`Modules.tla` models the registry: `modules` (`modules_`), `name_aliases`, `last_loaded_id`,
the pool's blocks that hold memories, tables and jump tables (`heap`, `jump_tables`), the
step `InstantiateModules` or the guest is at (`call`), the modules of the frames on the call
stack (`frames`) and the frame loop's copy of the memory (`regs`).

| code | actions |
|---|---|
| `LoadModule`, `RegisterAlias`, `UnloadAllModules` | of the same name |
| `Execute`, `ExecuteByIndex`, `InstantiateModules` | of the same name, up to the loop; then `InstantiateReturns` or `Enter` |
| the loop of `InstantiateModules` | `ImportsOk`/`ImportsFail` (`ResolveImports`, `Validate`), `MemoryOk`/`MemoryFails`, `TablesOk`/`TablesFail`, `ApplyElements`, `ApplyData`, `RunStart`, `Instantiated` |
| calls between modules | `CallImport`, `Return`, `Trap` |
| `memory.grow`, `table.grow`, `global.set` | `GrowInPlace`, `GrowMoves`, `TableGrow`, `GlobalSet` |

`from` and `global_from` are history: the module a copy was taken from. `CarefulHost`
selects a host that does what `docs` show (instantiate each module, stop at the first
error) or any host at all. `Store.tla` is the promise of linking: a memory or table is one
object with one size, whoever holds it; `StoreRefined` maps each module's copies to the
module that owns the block. `ModulesProofs.tla` holds the proofs of the invariants and
of the refinement.

### Sockets

`Sockets.tla` models the handle table (`table`), the table of asynchronous operations
(`ops`), the wake-up pipe, and the two OS threads: `engine` with the guest threads (`ready`,
`threads`) and `io`, whose `pc` walks through one pass of `IoThreadFunc` (`IoTop`, `IoSelect`,
`IoDrain`, `IoScan`, `IoCall`, `IoAlloc`, `IoClaim`, `Push`, `ThreadNotify`). The guest's calls are
`socket_create`, `socket_close`, `Register` (accept and recv), `WakeIoManager`, `ThreadWait`,
`StoreStackTop` (the store of `stack_top` when `RunLoop` leaves) and `FallBack`/`BlockedCall`
(no free slot). `UnloadAllModules`, `StopIoManager`, `Deinit` and `Initialize` are the life of the
engine. `files` is the kernel, external: open descriptors with what has arrived, the lowest
free number first. `Windows` names three unlocked gaps, as in `Scheduler`. `SocketsProofs.tla` holds
the proofs.

### Execution

`Execution.tla` models both loops over the threads of one module: `Execute` and the unlocked
loop (`ExecuteTop`, `ExecuteReturns`), `Run` (`RunTop`), `PollExpired` and `PollDone` (`PollSleeps`,
one node per step, with the time it read once: the clock stands while `pc` is `poll` or, in
`Execute` after the wait, `repoll`), `WaitForActivity`, `Pick`, `AllocThreadWasmStack`, `Enter`
(restore `__stack_pointer`, enter the interpreter), the guest (`Spawn`, `Yield`, `Sleep`, `Join`,
`AwaitIo`, `Return`, `Trap`), `FreeThreadWasmStack`, `Finish`. `sp` and `blocks` are the guest's
global and heap, `task` and `woken` the platform's registered task and notification. `Port`
selects the platform: on FreeRTOS and uITRON `PlatformNotifyActivity` wakes the task that
`PlatformEngineRunBegin` registered, if any; `Enter` and the end of every `ExecuteInternal`
change that registration. It splits no locked region: what other OS threads do inside a
dispatch is `Scheduler`'s subject. `ExecutionProofs.tla` holds the proofs.

## 4. Runs

| run | question | result |
|---|---|---|
| `sched_core` | lists and states agree, one thread runs, signals and notifications are complete | holds, 2.6 million states |
| `sched_hosts` | handles, callbacks and results with two hosts | holds |
| `sched_live` | ready, sleeping and I/O-waiting threads are dispatched again, `Stop()` returns | holds under `FairSpec` |
| `pool_core` | blocks tile the buffer, the free list is exact, coalescing is complete, the counter is right, the pool is an allocator | holds |
| `interp_core` | does validated code on the shared stack, label pool and jump tables do what WebAssembly says, with no buffer too small, and is valid code accepted | holds |
| `br_function` | is every opcode fetched inside the body | no: after a branch to the label of the function |
| `modules_core` | do the copies of memory and table pointers stay equal, for any host, with a failure at every step | holds |
| `modules_store` | one owner per block, nothing leaked, and the modules implement the store | holds for a careful host |
| `sockets_core` | no descriptor leaks, each result arrives once, no I/O thread outlives the contexts; tables full, careless guests, restarts | holds |
| `sockets_live` | no operation sleeps or blocks, each completes, `Deinit` returns | holds under `FairSpec` |
| `exec_core` | own stacks, none leaked; the engine never sleeps on work; `Execute()` ends | holds under `FairSpec` |
| `exec_rtos` | the same wake-up on FreeRTOS and uITRON | no: the registration is gone after the first dispatch |

### Bounds

Scheduler. Two slots beside the main thread suffice for one thread to act on another while
a third party (host, I/O thread) interferes; `sched_hosts` has three so that two hosts and a
free slot exist. One event: `SignalEvent` and `WaitEvent` touch one event object, and the
proofs cover any number. `MaxSleep` is one or zero ticks: what matters is whether a sleep is
over, and the wrap of the 32-bit clock is not modelled. `fired` counts to 2, enough to see a
second callback. A thread has at most one asynchronous operation, and asks for the next
after the I/O thread has finished with the last. Deadlock is checked: the application may
call `Run()` again after it returned, so no state is final. Hosts are interchangeable in
`sched_hosts` and callers in `pool_core` (no property names one), so both use symmetry.

Pool. A header of 4 and an alignment of 2 are the smallest that keep bit 0 of a size free.
Buffers of 24 and 32 bytes hold up to five blocks (requests of 1, 4, 5 and 10 bytes): enough for
a free block between two used ones, for merging to both sides at once and for a rest too
small to split off; a buffer of 2 has no room for a header. `Word` is just above the
sizes, so that a request of 126 makes the sum wrap.

Interpreter. All valid bodies of up to 5 instructions over an alphabet of 26 and of up to 10
over one of 11 control instructions (three nested blocks with values, and a branch across
them), with at most 3 operands, calls to itself, to a function that returns from inside a block
and to a host; further 10,003 bodies that need not be valid, or go beyond the label and stack
limits of the validator. The call stack has 3 frames, the stack 9 slots and the pool 3 labels,
so that each of the three overflows happens. No body of `interp_core` opens a block behind a jump
(`Features` without `dead_blocks`): the validator refuses some of them. Values are 0 to 3, as
`br_table` and `if` tell 0, 1 and more apart. Validity is `WellTyped` of `Typing`.

Modules. `modules_core` has two slots and a host that does anything in any order; an exporter,
an importer of everything and a module that is refused. `modules_store` has three slots, for
a chain of re-exports and for siblings, eight binaries that fail at different steps, and
one alias. Memories have up to 4 pages and grow from 2, in place and moving; tables up to 2 elements.
Calls nest twice (the importer into the exporter and back).

Sockets. `sockets_core`: one handle, one slot, two threads, three descriptors, two arrivals per
socket and one `memory.grow`, so that every table is full in some state. `sockets_live`: two of
each and guests that do not close a socket another thread waits for. Two larger instances
were run once by hand: careless guests with two slots and three descriptors (2.5 million
states) and with three threads on two slots (7.6 million); the safety properties hold in both.
`select()`'s time-out of five seconds may come at any time.

Execution. The main thread and two workers, sleeps of up to 2 ticks, one worker that may trap; each
`Execute()` spawns at most two workers. Four threads (0.5 million states) were run by hand for the
safety properties. The application calls neither `Execute` nor `Run` after an error, which is
why these runs do not check for deadlock.

### Fairness

`Scheduler`, `FairSpec`: weak fairness of the engine thread's own steps, of host calls that have
begun and of the I/O thread: each is an OS thread that is scheduled, and none waits for a lock held
for ever. Strong fairness of the guest's leaving: guests are cooperative, so one that is
dispatched again and again gives the processor up (a guest that loops without yielding starves the
others by design). Strong fairness of the clock. No fairness of `RunBegin` or of hosts starting a
call: the liveness properties end in `pc = "idle"` where the application may let the loop stop.

`Sockets`, `FairSpec`: weak fairness of both OS threads and of the guest's yielding. Nothing is
assumed about the network: `OpCompletes` speaks of what has arrived.

`Execution`, `FairSpec`: weak fairness of the loop, of the clock and of each I/O completion; strong
fairness of each thread's return, and of the main thread waiting for a worker. The last is what
`ExecuteCompletes` needs: a main thread that spins on `thread_yield()` until a sleeping worker is
done waits for ever, because the unlocked loop polls the sleepers only when nothing is ready
(`engine` 5446).

## 5. Where the code departs from the properties

The runs hold with the constants of their configurations. Those constants leave out some behaviours
of the code that break a property; each is reproduced by changing one value:

| module and change | violated | what happens |
|---|---|---|
| `Scheduler`, `Windows = {"requeue"}` | `LinkedOnce` | `ThreadNotify` between `ThreadWait` and the requeue links the context twice |
| `Scheduler`, `Windows = {"wait"}` | `NoLostNotify` | a notification between the test of `notify_pending` and the stores is lost |
| `Scheduler`, `Windows = {"spawn"}` | `StartedByHost` | `CreateThread` claims a slot that a host has just been given |
| `Scheduler`, `Windows = {"callback"}` | `CallbackContext` | a slot destroyed and reused before the callback gives it another thread's context |
| `Scheduler`, hosts and guests that spawn together | `SlotNotReused`, `LiveThreadsNamed` | `CreateThread` ignores `requires_destroy`; `DestroyHostThread` then resets the slot of a live thread. No race is needed |
| `MemoryPool`, a request of `Word - 1` | `PayloadFits` | rounding up wraps before the overflow guard (`wasm_memory_pool.cpp` 127) |
| `MemoryPool`, `Exclusive = FALSE` | `PickedStaysFree` | on the std::thread port `DisableInterrupts()` excludes nobody |
| `Modules`, `CarefulHost = FALSE` | `UnloadFrees` | a retry after a failed instantiation validates again and leaks the first jump tables (`engine` 1954) |
| `Modules`, `CarefulHost = FALSE` | `RunsInstantiated`, `OneOwner` | `Execute` ignores the result of `InstantiateModules` (`engine` 2733), and a module without memory may grow the null pointer of another |
| `Modules`, `CarefulHost = FALSE` | `TableLinked`, `ConstantsLinked` | a table or constant is copied before its exporter has its own; what was linked stays although the resolution failed |
| `Sockets`, either run | `BufInMemory` | a pending `recv` writes to memory that `memory.grow` moved, or that `Deinit` freed before it joined the I/O thread (`engine` 1073) |
| `Sockets`, `Windows = {"result"}` | `ResultDelivered` | a result pushed before `RunLoop` stores `stack_top` is overwritten |
| `Sockets`, `Windows = {"rescan"}` | `IoNeverBlocks` | a slot taken in mid-pass is judged by the last `select()` |
| `Sockets`, `Windows = {"alloc"}`, three handles | `HandlesOwnFiles` | both OS threads take the same handle |
| `Execution`, `Traps` contains a worker | `CallsStartFresh` | the frames of a worker that trapped are run on by the call that should free its stack (`engine` 5401) |
| `Execution`, `MainLast = FALSE` | `OwnStacks` | `__stack_pointer` keeps pointing into the freed stack of the last worker, and the next `Execute()` runs there |
| `Execution`, `Port = "rtos"` | `WakesForReady` | the run `exec_rtos` |
| `MCInterpreter`, `Features` contains `br_function` | `FetchInBody` | the run `br_function`: `br` to the function's label goes to the end of the body without leaving the frame (`engine` 3271), and the loop does not compare `ip` with its limit |
| `MCInterpreter`, `Features` contains `dead_blocks` | `RefusesInvalid` | `end` clears `is_unreachable` although the enclosing block is dead (`engine` 1482), so that `unreachable; loop; end; binary; end` is refused; `docs/wasm_vm_spec.md` 301 promises polymorphic stacks in unreachable code |

`br_function` and `exec_rtos` are the two that do most harm among those that contradict a document or a
comment; they are runs of their own and in `PROJECT.json` under `findings`. In short: interleave calls of other OS
threads with the engine thread's unlocked gaps, or ask the engine to go on after an error, and the
properties no longer hold; otherwise they do.

Read in the code, and not reproduced by a model: `if` with parameters keeps them on the stack
although the block's base is taken above them (`engine` 3214): no body of the runs has one, and no body
that `WellTyped` calls valid. `ExecuteInternal` does not test the data stack for the first frame
(3036); the instances' stacks are large enough. A table of no element can be exported but never imported (625).
An imported mutable global is a copy, not a share (`docs/wasm_vm_spec.md` 289 says so). A failing
`Execute` leaves the main thread linked, and the next links it again. `stop_requested_` is never
cleared, so after `Stop()` a later `Run()` returns at once, which `Scheduler` models.
The result of `Init()` of a context is ignored (5181).

## 6. Proofs

`SchedulerProofs` proves, for any number of slots, events and hosts and every choice of
guest and host operations:

- `TypeCorrect`: `Spec => []TypeOK`, for every `Windows`.
- under `Windows = {}`: `QueuesCorrect`, `OneRunningCorrect`, `SignalsCorrect`,
  `NotifyCorrect`, `HandlesCorrect`, all from `IInvHolds`;
- if besides no guest spawns: `CallbackOnceCorrect`, `CallbackContextCorrect`, from
  `CallbackIInvHolds`. Where a guest spawns, `CreateThread` may reuse the slot between the end
  of a host thread and its callback (section 5).

`TypeOK` alone is not inductive: `Places` says which of the engine thread's variables
name a thread at which `pc`. The safety properties are not inductive either, and lean
on each other: `Requeue` links a thread because `ReadyMatches` leaves out the thread
in hand; that a thread in hand is in no other list needs `EngineKnows` (what the engine
thread may assume about the state of `cur` and `slot`); that a host's `StartThread` links
an unlinked context needs `HostsKnow`; that `ThreadWait` never parks a thread whose
notification has come needs `IoKnows`. `IInv` is their conjunction. `AppendLinks`,
`UnlinkRemoves` and `TailUnlinks` (in `LinkedListLemmas`) say what the three list operations do
to the set of linked nodes; with them each action is proved from what it does to one context
and at most two lists. For the callbacks `CallbackPending` says what holds while the engine is about to
make one; most actions leave alone what it and `CallbackOnce` speak of (`Undisturbed`), so that few, `Finish`, `Callback` and
the hosts' create, set and destroy among them, need an argument. The only assumption is `SchedulerAssumption`, that the constants are
what they stand for.

`MemoryPoolProofs` proves, for any sizes of word, alignment, header, buffer and
requests and any number of callers, when the buffers have even sizes (`Even`) and
callers exclude each other:

- `TilingCorrect`, `FreeListCorrect`, `PickCorrect` and `PoolTypes`;
- `AccountingCorrect`: `GetUsedBytes()` is the sum of the sizes of the blocks in use, and at most the
  size of the buffer;
- `ExhaustionCorrect`: merging with the two neighbours in `Free` is enough for
  `Allocate` to find any bytes that are free in a row;
- with no request that wraps (`NoWrap`): `PayloadCorrect` and `PoolImplements`, that the
  pool implements `Allocator`.

All follow from `PoolInvariant`. Its `Story` is the heart: headers tile the buffer
(`Tiled`), know their neighbours (`BackLinked`), the list links the free blocks
(`Links`), and no two free blocks are neighbours (`Apart`). `Free` is proved in two halves:
after `MergeNext` the free blocks are apart but for the block before the one freed
(`MergeNextKeeps`), which `MergePrev` repairs (`MergePrevKeeps`). `Needs` keeps for each
pointer in use the size `Allocate` computed, and `Aligned` that every block starts at a
multiple of the alignment. `Picks` says what a caller knows between search and split, and
that no other is there. `BlockAt` finds the block at an offset, for `ExhaustionCorrect`.
`Accounting` is a sum over the offsets of the buffer, a recursive function (`SumBelow`). That the
function exists, that a change of one weight changes the sum by as much (`SumUpdate`), and that
blocks that do not overlap add up to no more than the buffer (`SumFits`) are inductions up to
a bound, which `Reached` in `LinkedListLemmas` makes first-order: a set that holds 0 and, with m - 1,
m, holds every number up to n. `AccountChanges` reduces each action to the one block it takes or frees.
`Exclusive` and `NoWrap` are the negations of two rows of section 5. `Even` is needed
as well: of a buffer of odd size the last byte belongs to no block while `pool_end`
counts it, so that `PoolGetNextBlock` of the last block finds a block that is not there.

`InterpreterProofs` proves, for any bodies, valid or not, any limits and any table:

- `ValidatorTypes`: the scan reads no label or jump entry that it did not write;
- `JumpTablesCorrect`: the jump tables are strictly ascending, which `FindBlockJump` needs;
- `BuffersCorrect`: the second pass over a body never leaves the two temporary buffers that the
  first pass measured;
- `IndicesCorrect`: the indices of calls and locals in validated functions are in range;
- `LabelSlicesCorrect`: the frames divide the label pool into consecutive slices and neither
  the pool nor the call stack overflows, across calls, failing calls, traps and suspensions.

They follow from `InterpreterInvariant`. For the validator, `Behind` says that the entries of the jump
table lie behind the scan and that each open block's label names its own entry, so that `end` and
`else` complete the right one and the next entry is larger than all; `Progress` bounds the scan by
the function it is in. `IndicesCorrect` depends on the scan having accepted every instruction
before `ip`. `Measured` relates the two passes: there is a table of what the first pass counted behind
each instruction (`PreTable`, whose existence and growth are inductions with `Reached`), and the second
holds no more labels, and as many entries, as that table says for its `ip`. For the interpreter the frames are a sequence (`Stacked`) whose slices are adjacent;
`ExecuteKeeps`, `PushKeeps` and the lemmas of leaving a frame say what each does to the last slice,
and all other actions leave the slices alone. The assumptions are `ValidatorLimits`,
`InstructionTypes` and `ContextLimits`.

It proves that validated code is type sound, for any limits, table and values:

- for every module, valid or not: `AcceptsCorrect`, that the validator refuses no instruction of a
  valid body, unless the body opens a block behind a jump;
- for a module of valid bodies (`ValidModule`) whose functions each fit on the stack
  (`FirstFrameFits`): `CapacitiesCorrect`, `FetchCorrect` and the invariant they follow from,
  `TypedInvariant`.

The hypotheses are what section 5 says of the code. `Features = {}` excludes the branch to the label
of the function, after which `FetchInBody` is false (`br_function`). `FirstFrameFits` stands for the
test that `ExecuteInternal` does not make (3036); all other frames are tested by `PushCallFrame`, and
the proof needs no more than that. `ValidModule` is needed because the validator counts operands only
and may accept a body that WebAssembly refuses.

The states of the checker behind each instruction are the backbone. They exist and are well formed
(`Body`), the block that an instruction opens ends where the nesting says, and between the two the blocks
outside it stay as they were, which are inductions along the body with `Reached`. The argument has two
halves that meet in a certificate. `ScanFits` says that the second pass of the validator is where the
checker is: its labels are the open blocks, its height is the checker's as long as the code is live, and
the entries of the jump table that are complete lead where their blocks end. So what `EndBody` stores
(`Certificates`) bounds every live state of the checker, and its entries say where the body goes on.
`TypedCtx` says that the interpreter is where the checker is, in every frame: `Seated`, that the place is
live, that there are as many operands as the checker has, and that each label is a block of the checker
with its height, its arity and its way out; `Placed`, the same for a frame, above its locals; `Framed`, that
a frame below the top waits behind its call with the operands that the call will leave, and has room up
to its function's capacity. Each opcode is proved from what it does to the top frame; a branch from what
`StackUnwind` leaves, a call and a return from the two frames they join. That nothing behind a jump is
executed (`Live`) is why the heights of the two passes may differ there.

`AcceptsCorrect` has an invariant of its own (`AcceptInv`), since it speaks of bodies that need not be
valid as a whole and of live and dead code alike: the validator's labels are the checker's open
blocks, and `is_unreachable` is set exactly where the innermost one is dead. That holds behind an `end`
because a block that was opened in live code lies in a live block (`BodyOuterLive`), the one fact that
`OpensDead` takes away. The assumptions are the three named above and `SlotValues`, that there is a
value for a new local and that constants are values.

`RefinementProofs` proves `RefinesWebAssembly`: for the same modules the interpreter on its one stack
implements the structured semantics of `WasmMachine`. It takes the actions one by one: for each a
lemma (`BlockImplements`, `EndImplements`, `CallImplements`, ...) says that it is the action of
`WasmMachine` of the same instruction, or a trap where the code fails; the validator's steps change
nothing that `WasmMachine` sees (`ValidatorStutters`). Three arguments carry it.

- Where a block ends. `WasmMachine` counts the nesting; the interpreter reads the jump table. `Spans`
  says that between an opcode and where its entry leads the nesting never falls below what it was
  before, so that the entry is exactly the end, or the `else`, that counting finds (`EntryEnds`).
- Which operands are whose. The labels cut the one stack into the operands of the blocks. They do so
  in ascending order (`SeatedCut`), so that what pushes, pops, a new label and `StackUnwind` do to the one
  stack is what `WasmMachine` does to the operands of one block or two (`BlocksTop`, `BlocksPush`,
  `BlocksPop`), and the other blocks keep theirs.
- What happens to the frames below. Nothing on top of a frame writes below the end of its operands
  (`WaitsSame`). For that its labels may not lie above that end while it waits. `TypedCtx` knows a
  waiting frame only as it will be behind its call, results included, so `Held` is added to the
  invariant. A call leaves the caller's operands without the arguments (`CallerSaved`), which become
  the callee's first locals (`FreshView`), and a return puts the results in their place (`HandsOver`).

The hypotheses are those of type soundness, and no more.

`ExecutionProofs` proves, for any number of threads, any sleeps and any set of threads that
trap:

- when the main thread joins the workers it spawned (`MainLast`), on every port:
  `OwnStacksCorrect` and `DoneCorrect`;
- on the std::thread port, whether the main thread goes last or not: `WakesCorrect`.

The first two follow from `ExecutionInvariant`. Its parts: `Contexts` says what a context shows
wherever the engine is (a worker with a stack is alive and has that stack saved, one without has no
frames); `Bases` that every block has one owner until an error leaks it; `CurKnows` and `ResKnows` what
the dispatch and its result still owe the thread in hand, which is why a stack that is freed is that of
no other thread and why a slot is clean when `Spawn` takes it. The main thread is the hard part:
`SaveThreadStackPointer` has not run for it before its first dispatch, so `RestoreThreadStackPointer`
leaves `__stack_pointer` as it is. `MainKnows` says that until then nobody else has run, and that the
main thread, being the last to end, leaves the pointer in the module's own stack for the next
`Execute()`. Without `MainLast` that is false (section 5). Each action is proved from what it does to
one context and one list; `LeaveKeeps` serves every way guest code gives the processor up.

`SocketsProofs` proves, for any number of handles, slots, descriptors, arrivals and guest threads:

- `TypeCorrect` and `OutliveCorrect`, whatever the windows;
- without the window `alloc` (`NoAllocGap`): `HandlesCorrect`;
- without the window `result` (`NoResultGap`): `ResultCorrect`;
- without any of the three and with careful guests: `NobodyStuckCorrect`.

Each hypothesis is needed: its negation is a row of section 5. `TypeInv` carries the types;
it includes that RunLoop's copy of `stack_top` is no larger than the stack. `HandleInv` follows
a descriptor from `accept` to its handle: while the I/O thread is between the two, the descriptor
is open and in no slot of the table, and the handle it found stays free. `ResultInv` says of
each thread where its one operation is (`InSlot`, `Flying`) and what that means for the stack,
`waiting` and `pending`: an operation that is out belongs to a thread that is about to wait or
waits, and a pending notification stands for an operation that came first. `SleepInv` is
`NoSleepingOp` with a pipe that exists. `CarefulInv` is why `select()`'s answer is still true
when the pass comes to an operation: operations have different descriptors, nobody else takes from
them, and no operation joins a pass that saw its descriptor. That a slot is always free with as many
slots as threads is a pigeonhole argument (`SlotForEach`).

`ModulesProofs` proves, for any number of slots, any binaries (valid or not), any pool and any
chains of imports:

- whatever the host does: `TypeCorrect`, `PointersCorrect` and `OkCorrect`;
- with a host that handles errors (`CarefulHost`): `RunsCorrect`, `OwnerCorrect`, `UnloadCorrect`
  and `LinkedCorrect`. Each needs it: section 5 has the runs of a careless host.

`PointersFresh` follows from `Views`: a memory is a block in use of its capacity, modules with one
pointer have one size, and no block is both a memory and a table (`Apart`, without which freeing
one in a grow could leave the other dangling). That `OkMeansInstantiated` holds although the loop
goes on past a module that fails is `OkInv`: without an error so far, every slot behind the loop
is instantiated. For a careful host `HostInv` says that at most one module is not instantiated, and
that no failure lies behind what runs; `NewInv` that instantiation has not touched that module
before the loop comes to it; `SourcesInv` that links lead to instantiated modules and `LinkInv`
which links are in place at which step, so that who runs `memory.grow` has a memory and never grows
the null pointer of another. `OwnInv` carries that to the blocks: each has one owner, each copy has
an owner (`Owning`), each block in use is held, and `jump_tables` counts the modules that have one.
`DeclaredInv` carries it to tables, constants and limits. The lemmas say for each kind of step what
it leaves alone (`KeepsMemory`, `KeepsTable`, ...) and what it does to one instance, and
`NewestLoaded` and `CalleeStays` why the search for a name and for the end of a chain of imports stays among
loaded modules. The assumption is `ModulesAssumption`.

It also proves `StoreImplemented`: with a host that handles errors the modules implement
`Store`. The object of a slot is the owner of the block its pointer leads to (`ObjectOf`); `Owning`
makes it unique, so that two slots have one object exactly when they have one pointer
(`ObjectShared`), a link gives a slot the object of whom it links to (`ObjectLinked`) and a new
block makes it the owner (`ObjectMade`). `StoreStep` takes the actions one by one: `LoadModule` is
`Load`; an import, a memory or a table that instantiation provides is `Attach`; the end of the
loop's body is `Instantiate`; `UnloadAllModules` is `Unload`; `memory.grow`, in place or to a new
block, and `table.grow` are `Grow` (`StoreGrowsMemory`, `StoreGrowsTable`: whoever shares the
object sees the new size, nobody else does), or `Attach` when a table of size 0 gets its first
block; every other action leaves the store alone. It rests on `CoreInv`, `Careful` and `OwnInv`.

Model-checked only: liveness (`EveryThreadRuns`, `StopReturns`, `OpCompletes`, `DeinitReturns`,
`ExecuteCompletes`). TLAPS handles neither fairness nor `ENABLED`.

## 7. Not modelled

- Parsing (LEB128, the sections of a binary) and the arithmetic, conversion, memory and
  vector instructions: straight-line code from bytes to values, better tested than model-checked.
- The pool's users: contexts and blocks in `Scheduler` and `Execution` do not fail to be
  allocated, except the workers' stacks.
- `CreateEvent`'s choice of an id; the pointer level of the intrusive lists (and data races
  on it); the wrap of the millisecond clock after 49 days; several engines sharing the static
  socket tables; cyclic imports.
- The lock of the FreeRTOS and uITRON ports (`vTaskSuspendAll`, `dis_dsp`).
- bind, listen, connect, send and name resolution, which keep no state in the module; the socket
  platforms, stdio and the system calls: pure I/O. `pipe()` is taken to succeed. The code's
  `kMaxSockets` is 8; the models use 1 to 3.
- Code generators, demos, and `targets/`, three quarters of the repository's C: a vendored
  FreeRTOS kernel for one board.
