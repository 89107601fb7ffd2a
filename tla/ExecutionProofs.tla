--------------------------- MODULE ExecutionProofs ---------------------------
(***************************************************************************)
(* Proofs about Execution, for any number of threads, both kinds of ports  *)
(* and any set of threads that trap: linear memory is divided among the    *)
(* threads, and Execute() leaves nothing behind.                           *)
(***************************************************************************)
EXTENDS Execution, LinkedListLemmas, TLAPS

-----------------------------------------------------------------------------
(* The inductive invariant.                                                *)

Dispatched == {"alloc", "enter", "run", "free", "resumed", "finish"}
Between == {"top", "poll", "repoll", "wait", "pick"}

AllEnded == \A w \in Workers : ~ Active(w)

(* What is true of a context wherever the engine is: only a waiting thread
   has a kind and only a sleeper or a joiner a time; a worker with a stack is
   alive and will be given that stack back, one without has no frames. *)
ThreadKnows(t) ==
  /\ threads[t].kind # "none" <=> threads[t].state = "waiting"
  /\ threads[t].kind \notin {"sleep", "event"} => threads[t].wake = 0
  /\ t = Main => threads[t].base = NoStack /\ threads[t].saved \in {NoStack, MainStack}
  /\ t # Main /\ threads[t].base = NoStack => ~ threads[t].frames
  /\ t # Main /\ threads[t].base # NoStack =>
       /\ threads[t].saved = threads[t].base
       /\ threads[t].base \in blocks
       /\ Active(t)

Contexts == \A t \in Threads : ThreadKnows(t)

Queues ==
  /\ NoDuplicates(ready) /\ NoDuplicates(timeouts)
  /\ \A t \in Threads : Linked(t, ready) => threads[t].state = "ready"
  /\ \A t \in Threads : Linked(t, timeouts) => threads[t].kind = "sleep"
  /\ pc = "pick" => ready # << >>

(* Every block is the stack of one thread, until an error leaks one. *)
Bases ==
  /\ \A t, u \in Threads : threads[t].base = threads[u].base =>
                             t = u \/ threads[t].base = NoStack
  /\ res # "error" => \A b \in blocks : \E t \in Threads : threads[t].base = b

(* What a dispatch relies on about the thread in hand. *)
CurKnows ==
  /\ pc \in Dispatched <=> cur \in Threads
  /\ pc \in Dispatched \ {"finish"} => threads[cur].state = "running"
  /\ pc = "finish" => \/ threads[cur].state = "running"
                      \/ res = "yield" /\ threads[cur].state = "waiting"
  /\ pc = "alloc" => cur # Main /\ threads[cur].base = NoStack
  /\ pc \in {"enter", "run", "free"} /\ cur # Main => threads[cur].base # NoStack
  /\ pc \in {"free", "resumed"} => cur # Main
  /\ pc = "finish" /\ res # "yield" => threads[cur].base = NoStack
  /\ RunsOnOwnStack

(* How far a result has got, and the frames it leaves. *)
ResKnows ==
  /\ pc \in Between \cup {"alloc", "enter", "run"} => res = "ok"
  /\ pc \in {"free", "off"} => res # "yield"
  /\ pc = "resumed" => res = "error"
  /\ pc \in {"free", "finish"} /\ res = "ok" => ~ threads[cur].frames
  /\ res # "error" => \A t \in Threads : ~ Active(t) => ~ threads[t].frames

(* The main thread comes first and goes last: whenever it is not known by its
   saved pointer, nobody else has run and the pointer is its own. *)
MainKnows ==
  /\ mode = "run" /\ pc # "off" => ~ Active(Main)
  /\ pc = "off" /\ res # "error" => mode = "execute" /\ ~ Active(Main)
  /\ Active(Main) /\ threads[Main].saved = NoStack =>
       sp = MainStack /\ (cur = Main \/ AllEnded)
  /\ mode = "execute" /\ ~ Active(Main) /\ res # "error" => sp = MainStack /\ AllEnded
  /\ cur = Main /\ pc = "finish" =>
       sp = MainStack /\ threads[Main].saved = MainStack /\ (res = "ok" => AllEnded)

IInv == TypeOK /\ Contexts /\ Queues /\ Bases /\ CurKnows /\ ResKnows /\ MainKnows

-----------------------------------------------------------------------------
LEMMA ThreadSets ==
  /\ Main \in Threads /\ NoThread \notin Threads
  /\ Workers \subseteq Threads /\ Threads = Workers \cup {Main} /\ Main \notin Workers
  /\ NoStack \notin Blocks /\ MainStack \notin Blocks /\ NoStack # MainStack
BY ExecutionAssumption DEF Threads, Main, Workers, NoThread, Blocks, NoStack, MainStack

LEMMA FreshFits == Fresh \in Context
BY DEF Fresh, Context, States, Stacks

(* What becomes of a context. *)
LEMMA Readied ==
  ASSUME NEW c \in Context, NEW r, r = [c EXCEPT !.state = "ready"]
  PROVE  /\ r \in Context /\ r.state = "ready" /\ r.kind = c.kind /\ r.wake = c.wake
         /\ r.base = c.base /\ r.saved = c.saved /\ r.frames = c.frames
BY DEF Context, States

(* The context of a thread that starts. *)
LEMMA StartedFits ==
  ASSUME NEW c, c = [Fresh EXCEPT !.state = "ready"]
  PROVE  /\ c \in Context /\ c.state = "ready" /\ c.kind = "none" /\ c.wake = 0
         /\ c.base = NoStack /\ c.saved = NoStack /\ c.frames = FALSE
<1>1. /\ Fresh.kind = "none" /\ Fresh.wake = 0 /\ Fresh.base = NoStack
      /\ Fresh.saved = NoStack /\ Fresh.frames = FALSE
  BY DEF Fresh
<1>2. QED BY <1>1, FreshFits, Readied

LEMMA InitHolds == ASSUME Init PROVE IInv
<1>1. TypeOK
  <2>1. sp \in Stacks \ {NoStack}
    BY DEF Init, Stacks, MainStack, NoStack
  <2>2. threads \in [Threads -> Context] /\ blocks \subseteq Blocks
    BY FreshFits DEF Init, Blocks
  <2>3. ready \in Seq(Threads) /\ timeouts \in Seq(Threads)
    BY DEF Init
  <2>4. /\ task \in BOOLEAN /\ woken \in BOOLEAN /\ nested \in BOOLEAN /\ spawned \in Nat
        /\ mode \in {"execute", "run"} /\ cur \in Threads \cup {NoThread}
        /\ res \in {"ok", "yield", "error"}
    BY DEF Init
  <2>5. pc \in {"off", "top", "poll", "repoll", "wait", "pick", "alloc", "enter", "run",
                "free", "resumed", "finish"}
    BY DEF Init
  <2>6. QED BY <2>1, <2>2, <2>3, <2>4, <2>5 DEF TypeOK
<1>2. Contexts
  BY ThreadSets DEF Init, Contexts, ThreadKnows, Fresh
<1>3. Queues
  BY DEF Init, Queues, NoDuplicates, Linked
<1>4. Bases
  BY DEF Init, Bases, Fresh
<1>5. CurKnows
  BY ThreadSets DEF Init, CurKnows, Dispatched, RunsOnOwnStack
<1>6. ResKnows
  BY DEF Init, ResKnows, Between, Fresh
<1>7. MainKnows
  BY ThreadSets DEF Init, MainKnows, Active, AllEnded, Fresh
<1>8. QED BY <1>1, <1>2, <1>3, <1>4, <1>5, <1>6, <1>7 DEF IInv

-----------------------------------------------------------------------------
(* Calls of the application.                                               *)

LEMMA ExecuteKeeps == ASSUME IInv, Execute PROVE IInv'
<1> DEFINE c == [Fresh EXCEPT !.state = "ready"]
<1>1. /\ threads' = [threads EXCEPT ![Main] = c] /\ threads \in [Threads -> Context]
      /\ c \in Context /\ c.state = "ready" /\ c.kind = "none" /\ c.wake = 0
      /\ c.base = NoStack /\ c.saved = NoStack /\ c.frames = FALSE
  BY StartedFits DEF Execute, IInv, TypeOK
<1> HIDE DEF c
<1>2. /\ ready' = Append(ready, Main) /\ ready \in Seq(Threads) /\ Main \in Threads
      /\ pc = "off" /\ pc' = "top" /\ res # "error" /\ res' = "ok" /\ mode' = "execute"
      /\ spawned' = 0 /\ UNCHANGED <<timeouts, stacks, platform, cur, nested>>
  BY ThreadSets DEF Execute, Goto, IInv, TypeOK
<1>3. AllEnded /\ ~ Active(Main) /\ sp = MainStack
  BY <1>2 DEF IInv, MainKnows
<1>4. ~ Linked(Main, ready) /\ ~ Linked(Main, timeouts) /\ threads[Main].base = NoStack
  BY <1>2, <1>3 DEF IInv, Queues, Active, Contexts, ThreadKnows
<1>5. TypeOK'
  BY <1>1, <1>2, AppendLinks DEF IInv, TypeOK, stacks, platform
<1>6. Contexts'
  BY <1>1, <1>2 DEF IInv, Contexts, ThreadKnows, Active, stacks
<1>7. Queues'
  BY <1>1, <1>2, <1>4, AppendLinks DEF IInv, Queues
<1>8. Bases'
  BY <1>1, <1>2, <1>4 DEF IInv, Bases, stacks
<1>9. CurKnows'
  BY <1>2 DEF IInv, CurKnows, Dispatched, RunsOnOwnStack
<1>10. ResKnows'
  BY <1>1, <1>2 DEF IInv, ResKnows, Between, Active
<1>11. MainKnows'
  BY <1>1, <1>2, <1>3, ThreadSets DEF MainKnows, Active, AllEnded, stacks
<1>12. QED BY <1>5, <1>6, <1>7, <1>8, <1>9, <1>10, <1>11 DEF IInv

LEMMA StartThreadKeeps ==
  ASSUME IInv, NEW t \in Workers, StartThread(t)
  PROVE  IInv'
<1> DEFINE c == [Fresh EXCEPT !.state = "ready"]
<1>1. /\ threads' = [threads EXCEPT ![t] = c] /\ threads \in [Threads -> Context]
      /\ c \in Context /\ c.state = "ready" /\ c.kind = "none" /\ c.wake = 0
      /\ c.base = NoStack /\ c.saved = NoStack /\ c.frames = FALSE
  BY StartedFits DEF StartThread, IInv, TypeOK
<1> HIDE DEF c
<1>2. /\ ready' = Append(ready, t) /\ ready \in Seq(Threads)
      /\ t \in Threads /\ t # Main /\ Main \in Threads
      /\ mode = "run" /\ pc # "off" /\ ~ Active(t)
      /\ UNCHANGED <<timeouts, stacks, task, spawned, engine>>
  BY ThreadSets DEF StartThread, IInv, TypeOK
<1>3. /\ ~ Linked(t, ready) /\ ~ Linked(t, timeouts) /\ threads[t].base = NoStack
      /\ cur # t
  BY <1>2 DEF IInv, Queues, Active, Contexts, ThreadKnows, CurKnows, TypeOK
<1>4. TypeOK'
  <2>1. woken' \in BOOLEAN BY DEF StartThread, Notified, IInv, TypeOK
  <2>2. QED BY <1>1, <1>2, <2>1, AppendLinks DEF IInv, TypeOK, stacks, engine
<1>5. Contexts'
  BY <1>1, <1>2 DEF IInv, Contexts, ThreadKnows, Active, stacks
<1>6. Queues'
  BY <1>1, <1>2, <1>3, AppendLinks DEF IInv, Queues, engine
<1>7. Bases'
  BY <1>1, <1>2, <1>3 DEF IInv, Bases, stacks, engine
<1>8. CurKnows'
  BY <1>1, <1>2, <1>3 DEF IInv, CurKnows, RunsOnOwnStack, stacks, engine
<1>9. ResKnows'
  BY <1>1, <1>2, <1>3 DEF IInv, ResKnows, Active, engine, CurKnows, Dispatched
<1>10. MainKnows'
  BY <1>1, <1>2, <1>3 DEF IInv, MainKnows, Active, CurKnows, Dispatched, stacks, engine
<1>11. QED BY <1>4, <1>5, <1>6, <1>7, <1>8, <1>9, <1>10 DEF IInv

-----------------------------------------------------------------------------
(* The loop.                                                               *)

(* Steps between two dispatches that leave the contexts and lists alone. *)
LEMMA IdleKeeps ==
  ASSUME IInv, UNCHANGED <<threads, lists, stacks, spawned, cur, nested>>,
         pc \in Between \cup {"off"}, res # "error",
         pc' \in Between, res' = "ok", task' \in BOOLEAN, woken' \in BOOLEAN,
         mode' = mode \/ (pc = "off" /\ mode' \in {"execute", "run"}),
         pc' = "pick" => ready # << >>
  PROVE  IInv'
<1>1. pc \notin Dispatched /\ pc' \notin Dispatched /\ pc' \notin {"off", "resumed"}
  BY DEF Between, Dispatched
<1>2. TypeOK'
  BY DEF IInv, TypeOK, lists, stacks, Between
<1>3. Contexts' /\ Queues'
  BY DEF IInv, Contexts, ThreadKnows, Queues, Active, lists, stacks
<1>4. Bases' BY DEF IInv, Bases, stacks
<1>5. CurKnows'
  BY <1>1 DEF IInv, CurKnows, RunsOnOwnStack, Dispatched
<1>6. ResKnows'
  BY <1>1 DEF IInv, ResKnows, Active, Dispatched
<1>7. MainKnows'
  BY <1>1 DEF IInv, MainKnows, Active, AllEnded, stacks, Dispatched
<1>8. QED BY <1>2, <1>3, <1>4, <1>5, <1>6, <1>7 DEF IInv

LEMMA LoopKeeps ==
  ASSUME IInv, Run \/ ExecuteTop \/ RunTop \/ WaitForActivity \/ PollDone
  PROVE  IInv'
<1> USE DEF Between
<1>1. CASE Run
  BY <1>1, IdleKeeps DEF Run, Goto, IInv, TypeOK
<1>2. CASE ExecuteTop
  BY <1>2, IdleKeeps DEF ExecuteTop, IInv, TypeOK, platform, ResKnows
<1>3. CASE RunTop
  BY <1>3, IdleKeeps DEF RunTop, Goto, IInv, TypeOK, platform, ResKnows
<1>4. CASE WaitForActivity
  BY <1>4, IdleKeeps DEF WaitForActivity, IInv, TypeOK, ResKnows
<1>5. CASE PollDone
  BY <1>5, IdleKeeps DEF PollDone, Polling, IInv, TypeOK, platform, ResKnows
<1>6. QED BY <1>1, <1>2, <1>3, <1>4, <1>5

LEMMA ExecuteReturnsKeeps == ASSUME IInv, ExecuteReturns PROVE IInv'
<1>1. /\ pc = "top" /\ pc' = "off" /\ mode = "execute" /\ ~ Active(Main)
      /\ res = "ok"
      /\ UNCHANGED <<threads, lists, stacks, platform, spawned, mode, cur, nested, res>>
  BY ThreadSets DEF ExecuteReturns, Goto, IInv, ResKnows, Between
<1>2. TypeOK'
  BY <1>1 DEF IInv, TypeOK, lists, stacks, platform
<1>3. Contexts' /\ Queues'
  BY <1>1 DEF IInv, Contexts, ThreadKnows, Queues, Active, lists, stacks
<1>4. Bases' BY <1>1 DEF IInv, Bases, stacks
<1>5. CurKnows' BY <1>1 DEF IInv, CurKnows, RunsOnOwnStack, Dispatched
<1>6. ResKnows' BY <1>1 DEF IInv, ResKnows, Active, Between
<1>7. MainKnows' BY <1>1 DEF IInv, MainKnows, Active, AllEnded, stacks
<1>8. QED BY <1>2, <1>3, <1>4, <1>5, <1>6, <1>7 DEF IInv

LEMMA PollExpiredKeeps ==
  ASSUME IInv, NEW i \in DOMAIN timeouts, PollExpired(i)
  PROVE  IInv'
<1> DEFINE t == timeouts[i]
<1>1. /\ timeouts \in Seq(Threads) /\ ready \in Seq(Threads) /\ i \in 1 .. Len(timeouts)
      /\ timeouts' = Unlink(timeouts, i) /\ ready' = Append(ready, t)
      /\ pc \in {"poll", "repoll"} /\ threads[t].wake = 0
      /\ UNCHANGED <<stacks, platform, spawned, engine>>
  BY DEF PollExpired, Polling, Expired, IInv, TypeOK
<1>2. /\ t \in Threads /\ Linked(t, timeouts)
      /\ timeouts' \in Seq(Threads) /\ NoDuplicates(timeouts')
      /\ \A u : Linked(u, timeouts') <=> Linked(u, timeouts) /\ u # t
  <2>1. NoDuplicates(timeouts) BY DEF IInv, Queues
  <2>2. Linked(t, timeouts) BY DEF Linked
  <2>3. QED BY <1>1, <2>1, <2>2, UnlinkRemoves
<1>3. /\ threads \in [Threads -> Context] /\ threads' \in [Threads -> Context]
      /\ \A u \in Threads : u # t => threads'[u] = threads[u]
      /\ threads'[t].state = "ready" /\ threads'[t].kind = "none"
      /\ threads'[t].wake = 0 /\ threads'[t].frames = threads[t].frames
      /\ threads'[t].base = threads[t].base /\ threads'[t].saved = threads[t].saved
  BY <1>1, <1>2, ZenonT(40) DEF PollExpired, IInv, TypeOK, Context, States
<1> HIDE DEF t
<1>4. threads[t].state = "waiting" /\ ~ Linked(t, ready)
  BY <1>2 DEF IInv, Queues, Contexts, ThreadKnows
<1>5. TypeOK'
  BY <1>1, <1>2, <1>3, AppendLinks DEF IInv, TypeOK, stacks, platform, engine
<1>6. Contexts'
  BY <1>1, <1>2, <1>3, <1>4 DEF IInv, Contexts, ThreadKnows, Active, stacks
<1>7. Queues'
  BY <1>1, <1>2, <1>3, <1>4, AppendLinks DEF IInv, Queues, engine
<1>8. Bases'
  BY <1>1, <1>2, <1>3 DEF IInv, Bases, stacks, engine
<1>9. CurKnows'
  BY <1>1, <1>3 DEF IInv, CurKnows, RunsOnOwnStack, Dispatched, engine
<1>10. ResKnows'
  BY <1>1, <1>2, <1>3, <1>4 DEF IInv, ResKnows, Active, engine
<1>11. MainKnows'
  BY <1>1, <1>2, <1>3, <1>4, ThreadSets
  DEF IInv, MainKnows, Active, AllEnded, stacks, engine
<1>12. QED BY <1>5, <1>6, <1>7, <1>8, <1>9, <1>10, <1>11 DEF IInv

-----------------------------------------------------------------------------
(* A dispatch.                                                             *)

LEMMA PickKeeps == ASSUME IInv, Pick PROVE IInv'
<1> DEFINE t == Head(ready)
<1>1. /\ ready \in Seq(Threads) /\ ready # << >> /\ NoDuplicates(ready)
      /\ pc = "pick" /\ cur' = t /\ ready' = Tail(ready) /\ res = "ok"
      /\ UNCHANGED <<timeouts, stacks, platform, spawned, mode, nested, res>>
  BY DEF Pick, IInv, TypeOK, Queues, ResKnows, Between
<1>2. /\ t \in Threads /\ Linked(t, ready)
      /\ ready' \in Seq(Threads) /\ NoDuplicates(ready')
      /\ \A u : Linked(u, ready') <=> Linked(u, ready) /\ u # t
  BY <1>1, TailUnlinks
<1>3. /\ threads \in [Threads -> Context] /\ threads' \in [Threads -> Context]
      /\ \A u \in Threads : u # t => threads'[u] = threads[u]
      /\ threads'[t].state = "running" /\ threads'[t].kind = threads[t].kind
      /\ threads'[t].wake = threads[t].wake /\ threads'[t].frames = threads[t].frames
      /\ threads'[t].base = threads[t].base /\ threads'[t].saved = threads[t].saved
  BY <1>2 DEF Pick, IInv, TypeOK, Context, States
<1>4. /\ pc' \in {"alloc", "enter"}
      /\ pc' = "alloc" <=> t # Main /\ ~ threads[t].frames /\ threads[t].base = NoStack
  BY DEF Pick, NeedsStack
<1> HIDE DEF t
<1>5. threads[t].state = "ready" /\ ~ Linked(t, timeouts)
  BY <1>2 DEF IInv, Queues, Contexts, ThreadKnows
<1>6. TypeOK'
  BY <1>1, <1>2, <1>3, <1>4 DEF IInv, TypeOK, stacks, platform
<1>7. Contexts'
  BY <1>1, <1>2, <1>3, <1>5 DEF IInv, Contexts, ThreadKnows, Active, stacks
<1>8. Queues'
  BY <1>1, <1>2, <1>3, <1>4, <1>5 DEF IInv, Queues
<1>9. Bases'
  BY <1>1, <1>2, <1>3 DEF IInv, Bases, stacks
<1>10. CurKnows'
  BY <1>1, <1>2, <1>3, <1>4 DEF IInv, CurKnows, RunsOnOwnStack, Dispatched, Contexts, ThreadKnows
<1>11. ResKnows'
  BY <1>1, <1>2, <1>3, <1>4, <1>5 DEF IInv, ResKnows, Active, Between
<1>12. MainKnows'
  <2>1. cur # Main BY <1>1, ThreadSets DEF IInv, CurKnows, Dispatched
  <2>2. t # Main => ~ AllEnded
    BY <1>2, <1>5, ThreadSets DEF AllEnded, Active
  <2>3. AllEnded' => AllEnded
    BY <1>2, <1>3, ThreadSets DEF AllEnded, Active
  <2>4. t = Main => (AllEnded => AllEnded')
    BY <1>2, <1>3, ThreadSets DEF AllEnded, Active
  <2>5. QED
    BY <1>1, <1>2, <1>3, <1>4, <1>5, <2>1, <2>2, <2>4, ThreadSets
    DEF IInv, MainKnows, Active, stacks
<1>13. QED BY <1>6, <1>7, <1>8, <1>9, <1>10, <1>11, <1>12 DEF IInv

LEMMA AllocKeeps == ASSUME IInv, AllocThreadWasmStack PROVE IInv'
<1> DEFINE b == FreeBlock
<1>1. b \in Blocks /\ b \notin blocks /\ b # NoStack
  BY ThreadSets DEF AllocThreadWasmStack, FreeBlock, IInv, TypeOK
<1>2. /\ pc = "alloc" /\ pc' = "enter" /\ res = "ok" /\ blocks' = blocks \cup {b}
      /\ task' = FALSE /\ cur \in Threads
      /\ UNCHANGED <<lists, sp, woken, spawned, mode, cur, nested, res>>
  BY DEF AllocThreadWasmStack, Goto, IInv, CurKnows, ResKnows, Dispatched
<1>3. cur # Main /\ threads[cur].base = NoStack /\ threads[cur].state = "running"
  BY <1>2 DEF IInv, CurKnows, Dispatched
<1>4. /\ threads \in [Threads -> Context] /\ threads' \in [Threads -> Context]
      /\ \A u \in Threads : u # cur => threads'[u] = threads[u]
      /\ threads'[cur].state = "running" /\ threads'[cur].kind = threads[cur].kind
      /\ threads'[cur].wake = threads[cur].wake
      /\ threads'[cur].frames = threads[cur].frames
      /\ threads'[cur].base = b /\ threads'[cur].saved = b
  BY <1>1, <1>2, <1>3, ZenonT(40) DEF AllocThreadWasmStack, IInv, TypeOK, Context, Stacks
<1> HIDE DEF b
<1>5. TypeOK'
  BY <1>1, <1>2, <1>4 DEF IInv, TypeOK, lists
<1>6. Contexts'
  BY <1>1, <1>2, <1>3, <1>4 DEF IInv, Contexts, ThreadKnows, Active
<1>7. Queues'
  BY <1>2, <1>3, <1>4 DEF IInv, Queues, lists
<1>8. Bases'
  <2>1. \A u \in Threads : threads[u].base # b
    <3>1. SUFFICES ASSUME NEW u \in Threads PROVE threads[u].base # b
      OBVIOUS
    <3>2. ThreadKnows(u) BY DEF IInv, Contexts
    <3>3. QED BY <1>1, <1>4, <3>2 DEF ThreadKnows
  <2>2. ASSUME NEW t \in Threads, NEW u \in Threads, threads'[t].base = threads'[u].base
        PROVE  t = u \/ threads'[t].base = NoStack
    BY <1>2, <1>4, <2>1, <2>2 DEF IInv, Bases
  <2>3. ASSUME NEW a \in blocks' PROVE \E t \in Threads : threads'[t].base = a
    <3>1. CASE a = b BY <1>2, <1>4, <3>1
    <3>2. CASE a \in blocks
      <4>1. PICK t \in Threads : threads[t].base = a
        BY <1>2, <3>2 DEF IInv, Bases
      <4>2. a # NoStack BY <3>2, ThreadSets DEF IInv, TypeOK
      <4>3. QED BY <1>3, <1>4, <4>1, <4>2
    <3>3. QED BY <1>2, <3>1, <3>2
  <2>4. QED BY <2>2, <2>3 DEF Bases
<1>9. CurKnows'
  BY <1>1, <1>2, <1>3, <1>4 DEF IInv, CurKnows, RunsOnOwnStack, Dispatched
<1>10. ResKnows'
  BY <1>2, <1>3, <1>4 DEF IInv, ResKnows, Active
<1>11. MainKnows'
  BY <1>2, <1>3, <1>4, ThreadSets DEF IInv, MainKnows, Active, AllEnded
<1>12. QED BY <1>5, <1>6, <1>7, <1>8, <1>9, <1>10, <1>11 DEF IInv

LEMMA AllocFailsKeeps == ASSUME IInv, AllocThreadWasmStackFails PROVE IInv'
<1>1. /\ pc = "alloc" /\ pc' = "off" /\ res' = "error" /\ cur' = NoThread
      /\ task' = FALSE /\ cur \in Threads
      /\ UNCHANGED <<lists, stacks, woken, spawned, mode, nested>>
  BY DEF AllocThreadWasmStackFails, Goto, IInv, CurKnows, Dispatched
<1>2. cur # Main /\ threads[cur].base = NoStack /\ threads[cur].state = "running"
  BY <1>1 DEF IInv, CurKnows, Dispatched
<1>3. /\ threads \in [Threads -> Context] /\ threads' \in [Threads -> Context]
      /\ \A u \in Threads : u # cur => threads'[u] = threads[u]
      /\ threads'[cur].state = "terminated" /\ threads'[cur].kind = threads[cur].kind
      /\ threads'[cur].wake = threads[cur].wake
      /\ threads'[cur].frames = threads[cur].frames
      /\ threads'[cur].base = threads[cur].base /\ threads'[cur].saved = threads[cur].saved
  BY <1>1 DEF AllocThreadWasmStackFails, IInv, TypeOK, Context, States
<1>4. TypeOK'
  BY <1>1, <1>3 DEF IInv, TypeOK, lists, stacks
<1>5. Contexts'
  BY <1>1, <1>2, <1>3 DEF IInv, Contexts, ThreadKnows, Active, stacks
<1>6. Queues'
  BY <1>1, <1>2, <1>3 DEF IInv, Queues, lists
<1>7. Bases'
  BY <1>1, <1>3 DEF IInv, Bases, stacks
<1>8. CurKnows'
  BY <1>1, ThreadSets DEF CurKnows, RunsOnOwnStack, Dispatched
<1>9. ResKnows'
  BY <1>1 DEF ResKnows, Between
<1>10. MainKnows'
  BY <1>1, <1>2, <1>3, ThreadSets DEF IInv, MainKnows, Active, AllEnded, stacks
<1>11. QED BY <1>4, <1>5, <1>6, <1>7, <1>8, <1>9, <1>10 DEF IInv

LEMMA EnterKeeps == ASSUME IInv, Enter PROVE IInv'
<1>1. /\ pc = "enter" /\ pc' = "run" /\ res = "ok" /\ cur \in Threads
      /\ sp' = Restored(cur) /\ nested' \in BOOLEAN /\ task' \in BOOLEAN
      /\ UNCHANGED <<lists, blocks, woken, spawned, mode, cur, res>>
  BY DEF Enter, Goto, IInv, CurKnows, ResKnows, TypeOK, Dispatched, Context
<1>2. /\ threads \in [Threads -> Context] /\ threads' \in [Threads -> Context]
      /\ \A u \in Threads : u # cur => threads'[u] = threads[u]
      /\ threads'[cur].state = threads[cur].state /\ threads'[cur].kind = threads[cur].kind
      /\ threads'[cur].wake = threads[cur].wake /\ threads'[cur].frames = TRUE
      /\ threads'[cur].base = threads[cur].base /\ threads'[cur].saved = threads[cur].saved
  BY <1>1 DEF Enter, IInv, TypeOK, Context
<1>3. /\ threads[cur].state = "running"
      /\ cur # Main => threads[cur].base # NoStack
  BY <1>1 DEF IInv, CurKnows, Dispatched
<1>4. sp' = IF cur = Main THEN MainStack ELSE threads[cur].base
  <2>1. CASE cur = Main
    BY <1>1, <1>3, <2>1, ThreadSets
    DEF Restored, IInv, MainKnows, Contexts, ThreadKnows, Active
  <2>2. CASE cur # Main
    BY <1>1, <1>3, <2>2, ThreadSets DEF Restored, IInv, Contexts, ThreadKnows
  <2>3. QED BY <2>1, <2>2
<1>5. TypeOK'
  <2>1. sp' \in Stacks \ {NoStack}
    BY <1>1, <1>2, <1>3, <1>4, ThreadSets DEF Context, Stacks
  <2>2. QED BY <1>1, <1>2, <2>1 DEF IInv, TypeOK, lists
<1>6. Contexts'
  BY <1>1, <1>2, <1>3, ThreadSets DEF IInv, Contexts, ThreadKnows, Active
<1>7. Queues'
  BY <1>1, <1>2 DEF IInv, Queues, lists
<1>8. Bases'
  BY <1>1, <1>2 DEF IInv, Bases
<1>9. CurKnows'
  BY <1>1, <1>2, <1>3, <1>4 DEF IInv, CurKnows, RunsOnOwnStack, Dispatched
<1>10. ResKnows'
  BY <1>1, <1>2, <1>3 DEF IInv, ResKnows, Active, Between
<1>11. MainKnows'
  BY <1>1, <1>2, <1>3, <1>4, ThreadSets DEF IInv, MainKnows, Active, AllEnded
<1>12. QED BY <1>5, <1>6, <1>7, <1>8, <1>9, <1>10, <1>11 DEF IInv

-----------------------------------------------------------------------------
(* Guest code.                                                             *)

LEMMA SpawnKeeps == ASSUME IInv, Spawn PROVE IInv'
<1>1. PICK t \in FreeSlots :
        /\ threads' = [threads EXCEPT ![t].state = "ready", ![t].frames = FALSE]
        /\ ready' = Append(ready, t)
  <2>1. FreeSlots \in SUBSET Nat /\ FreeSlots # {}
    BY ExecutionAssumption DEF Spawn, FreeSlots, Workers
  <2>2. \E t \in FreeSlots : \A u \in FreeSlots : t <= u
    BY <2>1, SmallestExists
  <2>3. QED BY <2>2 DEF Spawn
<1>2. /\ t \in Workers /\ t \in Threads /\ t # Main /\ ~ Active(t)
      /\ pc = "run" /\ cur = Main /\ res = "ok" /\ spawned' = spawned + 1
      /\ UNCHANGED <<timeouts, stacks, platform, engine>>
  BY <1>1, ThreadSets DEF FreeSlots, Spawn, IInv, ResKnows
<1>3. /\ threads \in [Threads -> Context] /\ threads' \in [Threads -> Context]
      /\ \A u \in Threads : u # t => threads'[u] = threads[u]
      /\ threads'[t].state = "ready" /\ threads'[t].kind = threads[t].kind
      /\ threads'[t].wake = threads[t].wake /\ threads'[t].frames = FALSE
      /\ threads'[t].base = threads[t].base /\ threads'[t].saved = threads[t].saved
  BY <1>1, <1>2 DEF IInv, TypeOK, Context, States
<1>4. /\ threads[t].base = NoStack /\ threads[t].state = "terminated"
      /\ ~ Linked(t, ready) /\ ~ Linked(t, timeouts)
  BY <1>2 DEF IInv, Contexts, ThreadKnows, Queues, Active
<1>5. TypeOK'
  BY <1>1, <1>2, <1>3, AppendLinks DEF IInv, TypeOK, stacks, platform, engine
<1>6. Contexts'
  BY <1>2, <1>3, <1>4 DEF IInv, Contexts, ThreadKnows, Active, stacks
<1>7. Queues'
  <2>1. ready \in Seq(Threads) BY DEF IInv, TypeOK
  <2>2. QED BY <1>1, <1>2, <1>3, <1>4, <2>1, AppendLinks DEF IInv, Queues, engine
<1>8. Bases'
  BY <1>2, <1>3 DEF IInv, Bases, stacks, engine
<1>9. CurKnows'
  BY <1>2, <1>3, ThreadSets DEF IInv, CurKnows, RunsOnOwnStack, Dispatched, engine, stacks
<1>10. ResKnows'
  BY <1>2, <1>3 DEF IInv, ResKnows, Active, engine
<1>11. MainKnows'
  <2>1. Active(Main) BY <1>2 DEF IInv, CurKnows, Dispatched, Active
  <2>2. QED BY <1>2, <1>3, <2>1, ThreadSets DEF IInv, MainKnows, Active, stacks, engine
<1>12. QED BY <1>5, <1>6, <1>7, <1>8, <1>9, <1>10, <1>11 DEF IInv

(* The guest gives the processor up, or traps. *)
LEMMA LeaveKeeps ==
  ASSUME IInv, pc = "run", cur \in Threads,
         NEW result, result = "yield" \/ result = "error", NEW c \in Context,
         threads' = [threads EXCEPT ![cur] = c], c.frames = threads[cur].frames,
         c.base = threads[cur].base, c.saved = sp,
         c.state = "running" \/ (result = "yield" /\ c.state = "waiting"),
         c.kind # "none" <=> c.state = "waiting",
         c.kind \notin {"sleep", "event"} => c.wake = 0,
         Left(result),
         timeouts' = timeouts \/ (timeouts' = Append(timeouts, cur) /\ c.kind = "sleep"),
         UNCHANGED <<ready, stacks, woken, spawned, mode, cur, nested>>
  PROVE  IInv'
<1>1. /\ pc' = IF result # "yield" /\ threads[cur].base # NoStack THEN "free" ELSE "finish"
      /\ res' = result /\ task' = (task /\ ~ nested)
  BY DEF Left
<1>2. /\ res = "ok" /\ sp = (IF cur = Main THEN MainStack ELSE threads[cur].base)
      /\ threads[cur].state = "running" /\ threads[cur].kind = "none"
      /\ cur # Main => threads[cur].base # NoStack
  BY DEF IInv, ResKnows, CurKnows, RunsOnOwnStack, Contexts, ThreadKnows, Dispatched
<1>3. ~ Linked(cur, ready) /\ ~ Linked(cur, timeouts) /\ timeouts \in Seq(Threads)
  BY <1>2 DEF IInv, Queues, TypeOK
<1>4. threads \in [Threads -> Context] BY DEF IInv, TypeOK
<1>5. TypeOK'
  <2>1. timeouts' \in Seq(Threads) BY <1>3, AppendLinks
  <2>2. task' \in BOOLEAN BY <1>1 DEF IInv, TypeOK
  <2>3. QED BY <1>1, <1>4, <2>1, <2>2 DEF IInv, TypeOK, stacks
<1>6. Contexts'
  BY <1>2, <1>4, ThreadSets DEF IInv, Contexts, ThreadKnows, Active, stacks
<1>7. Queues'
  <2>1. NoDuplicates(timeouts') /\ \A u : Linked(u, timeouts') =>
                                     Linked(u, timeouts) \/ (u = cur /\ c.kind = "sleep")
    <3>1. NoDuplicates(timeouts) BY DEF IInv, Queues
    <3>2. CASE timeouts' = timeouts BY <3>1, <3>2
    <3>3. CASE timeouts' = Append(timeouts, cur) /\ c.kind = "sleep"
      BY <1>3, <3>1, <3>3, AppendLinks
    <3>4. QED BY <3>2, <3>3
  <2>2. QED BY <1>1, <1>3, <1>4, <2>1 DEF IInv, Queues
<1>8. Bases'
  BY <1>2, <1>4 DEF IInv, Bases, stacks
<1>9. CurKnows'
  BY <1>1, <1>2, <1>4 DEF CurKnows, RunsOnOwnStack, Dispatched, IInv, Contexts, ThreadKnows
<1>10. ResKnows'
  BY <1>1, <1>2, <1>4 DEF IInv, ResKnows, Active, Between
<1>11. MainKnows'
  <2>1. \A u \in Threads : Active(u)' <=> Active(u)
    BY <1>2, <1>4 DEF Active
  <2>2. threads[Main].saved = NoStack /\ cur # Main => threads'[Main].saved = NoStack
    BY <1>4, ThreadSets
  <2>3. threads'[Main].saved = IF cur = Main THEN MainStack ELSE threads[Main].saved
    BY <1>2, <1>4, ThreadSets
  <2>4. AllEnded' <=> AllEnded BY <2>1, ThreadSets DEF AllEnded
  <2>5. QED
    BY <1>1, <1>2, <2>1, <2>3, <2>4, ThreadSets DEF IInv, MainKnows, stacks
<1>12. QED BY <1>5, <1>6, <1>7, <1>8, <1>9, <1>10, <1>11 DEF IInv

LEMMA Saved ==
  ASSUME NEW c \in Context, NEW p \in Stacks, NEW r, r = [c EXCEPT !.saved = p]
  PROVE  /\ r \in Context /\ r.state = c.state /\ r.kind = c.kind /\ r.wake = c.wake
         /\ r.base = c.base /\ r.saved = p /\ r.frames = c.frames
BY DEF Context

LEMMA Parked ==
  ASSUME NEW c \in Context, NEW n \in Nat, NEW k, k = "sleep" \/ k = "event",
         NEW r, r = [c EXCEPT !.state = "waiting", !.kind = k, !.wake = n]
  PROVE  /\ r \in Context /\ r.state = "waiting" /\ r.kind = k /\ r.wake = n
         /\ r.base = c.base /\ r.saved = c.saved /\ r.frames = c.frames
BY DEF Context, States

LEMMA Awaiting ==
  ASSUME NEW c \in Context,
         NEW r, r = [c EXCEPT !.state = "waiting", !.kind = "notify"]
  PROVE  /\ r \in Context /\ r.state = "waiting" /\ r.kind = "notify" /\ r.wake = c.wake
         /\ r.base = c.base /\ r.saved = c.saved /\ r.frames = c.frames
BY DEF Context, States

(* The context in hand, which was t before, is saved. *)
LEMMA LeavesWith ==
  ASSUME IInv, pc = "run", NEW result, NEW t \in Context,
         threads' = [threads EXCEPT ![cur] = [t EXCEPT !.saved = sp]], Left(result),
         t.frames = threads[cur].frames, t.base = threads[cur].base,
         \/ /\ result = "yield" \/ result = "error"
            /\ t.state = "running" /\ t.kind = "none" /\ t.wake = 0
         \/ /\ result = "yield" /\ t.state = "waiting"
            /\ \/ t.kind = "sleep" \/ t.kind = "event"
               \/ t.kind = "notify" /\ t.wake = 0,
         timeouts' = timeouts \/ (timeouts' = Append(timeouts, cur) /\ t.kind = "sleep"),
         UNCHANGED <<ready, stacks, woken, spawned, mode, cur, nested>>
  PROVE  IInv'
<1> DEFINE c == [t EXCEPT !.saved = sp]
<1>1. cur \in Threads /\ sp \in Stacks
  BY DEF IInv, CurKnows, Dispatched, TypeOK
<1>2. /\ c \in Context /\ c.state = t.state /\ c.kind = t.kind /\ c.wake = t.wake
      /\ c.base = t.base /\ c.saved = sp /\ c.frames = t.frames
  BY <1>1, Saved
<1>3. threads' = [threads EXCEPT ![cur] = c]
  OBVIOUS
<1> HIDE DEF c
<1>4. /\ c.frames = threads[cur].frames /\ c.base = threads[cur].base
      /\ c.state = "running" \/ (result = "yield" /\ c.state = "waiting")
      /\ c.kind # "none" <=> c.state = "waiting"
      /\ c.kind \notin {"sleep", "event"} => c.wake = 0
      /\ timeouts' = timeouts \/ (timeouts' = Append(timeouts, cur) /\ c.kind = "sleep")
  BY <1>2
<1>5. QED BY <1>1, <1>2, <1>3, <1>4, LeaveKeeps

LEMMA GuestKeeps ==
  ASSUME IInv,
         \/ Yield \/ AwaitIo \/ Trap
         \/ \E n \in 0 .. MaxSleep : Sleep(n)
         \/ \E w \in Workers : Join(w)
  PROVE  IInv'
<1>1. /\ pc = "run" /\ UNCHANGED <<ready, stacks, woken, spawned, mode, cur, nested>>
  BY DEF Yield, AwaitIo, Trap, Sleep, Join, lists
<1>2. cur \in Threads /\ threads \in [Threads -> Context]
  BY <1>1 DEF IInv, CurKnows, Dispatched, TypeOK
<1>3. /\ threads[cur] \in Context /\ threads[cur].state = "running"
      /\ threads[cur].kind = "none" /\ threads[cur].wake = 0
  BY <1>1, <1>2 DEF IInv, CurKnows, Dispatched, Contexts, ThreadKnows
<1>4. CASE Yield \/ Trap
  <2> DEFINE d == threads[cur]
  <2>1. d \in Context /\ d.state = "running" /\ d.kind = "none" /\ d.wake = 0
    BY <1>3
  <2>2. timeouts' = timeouts BY <1>4 DEF Yield, Trap, lists
  <2>3. d.frames = threads[cur].frames /\ d.base = threads[cur].base
    OBVIOUS
  <2>4. \/ Left("yield") /\ threads' = [threads EXCEPT ![cur] = [d EXCEPT !.saved = sp]]
        \/ Left("error") /\ threads' = [threads EXCEPT ![cur] = [d EXCEPT !.saved = sp]]
    BY <1>4 DEF Yield, Trap, Leave
  <2> HIDE DEF d
  <2>5. QED BY <1>1, <2>1, <2>2, <2>3, <2>4, LeavesWith
<1>5. CASE AwaitIo
  <2> DEFINE d == [threads[cur] EXCEPT !.state = "waiting", !.kind = "notify"]
  <2>1. /\ d \in Context /\ d.state = "waiting" /\ d.kind = "notify" /\ d.wake = 0
        /\ d.base = threads[cur].base /\ d.frames = threads[cur].frames
    BY <1>3, Awaiting, ZenonT(40)
  <2>2. /\ threads' = [threads EXCEPT ![cur] = [d EXCEPT !.saved = sp]] /\ Left("yield")
        /\ timeouts' = timeouts
    BY <1>5 DEF AwaitIo, Leave, lists
  <2> HIDE DEF d
  <2>3. QED BY <1>1, <2>1, <2>2, LeavesWith
<1>6. ASSUME NEW n \in 0 .. MaxSleep, Sleep(n) PROVE IInv'
  <2> DEFINE d == [threads[cur] EXCEPT !.state = "waiting", !.kind = "sleep", !.wake = n]
  <2>1. /\ d \in Context /\ d.state = "waiting" /\ d.kind = "sleep"
        /\ d.base = threads[cur].base /\ d.frames = threads[cur].frames
    <3>1. n \in Nat BY ExecutionAssumption
    <3>2. QED BY <1>3, <3>1 DEF Context, States
  <2>2. /\ threads' = [threads EXCEPT ![cur] = [d EXCEPT !.saved = sp]] /\ Left("yield")
        /\ timeouts' = Append(timeouts, cur)
    BY <1>6 DEF Sleep, Leave
  <2> HIDE DEF d
  <2>3. QED BY <1>1, <2>1, <2>2, LeavesWith
<1>7. ASSUME NEW w \in Workers, Join(w) PROVE IInv'
  <2> DEFINE d == [threads[cur] EXCEPT !.state = "waiting", !.kind = "event", !.wake = w]
  <2>1. /\ d \in Context /\ d.state = "waiting" /\ d.kind = "event"
        /\ d.base = threads[cur].base /\ d.frames = threads[cur].frames
    <3>1. w \in Nat BY ExecutionAssumption DEF Workers
    <3>2. QED BY <1>3, <3>1 DEF Context, States
  <2>2. /\ threads' = [threads EXCEPT ![cur] = [d EXCEPT !.saved = sp]] /\ Left("yield")
        /\ timeouts' = timeouts
    BY <1>7 DEF Join, Leave, lists
  <2> HIDE DEF d
  <2>3. QED BY <1>1, <2>1, <2>2, LeavesWith
<1>8. QED BY <1>4, <1>5, <1>6, <1>7

LEMMA SignaledFits ==
  ASSUME NEW c \in Context
  PROVE  /\ Signaled(c) \in Context /\ Signaled(c).state = "ready"
         /\ Signaled(c).kind = "none" /\ Signaled(c).wake = 0
         /\ Signaled(c).base = c.base /\ Signaled(c).saved = c.saved
         /\ Signaled(c).frames = c.frames
BY DEF Signaled, Context, States

LEMMA ReturnKeeps ==
  ASSUME MainLast, IInv, NEW t \in Threads, Return(t)
  PROVE  IInv'
<1> DEFINE joined == threads[Main].kind = "event" /\ threads[Main].wake = t
           frames == [threads EXCEPT ![t].frames = FALSE, ![t].saved = sp]
<1>1. /\ pc = "run" /\ cur = t /\ res = "ok" /\ res' = "ok"
      /\ pc' = IF threads[cur].base # NoStack THEN "free" ELSE "finish"
      /\ task' = (task /\ ~ nested) /\ (t = Main => AllEnded)
      /\ ready' = (IF joined THEN Append(ready, Main) ELSE ready)
      /\ UNCHANGED <<timeouts, stacks, woken, spawned, mode, cur, nested>>
  BY DEF Return, Left, AllEnded, IInv, ResKnows, Between
<1>2. /\ threads \in [Threads -> Context] /\ Main \in Threads /\ sp \in Stacks
      /\ ready \in Seq(Threads)
  BY ThreadSets DEF IInv, TypeOK
<1>3. /\ threads[t].state = "running" /\ threads[t].kind = "none"
      /\ sp = (IF t = Main THEN MainStack ELSE threads[t].base)
      /\ (t = Main <=> threads[t].base = NoStack)
  BY <1>1, ThreadSets
  DEF IInv, CurKnows, RunsOnOwnStack, Dispatched, Contexts, ThreadKnows
<1>4. joined => /\ t # Main /\ threads[Main].state = "waiting"
                /\ ~ Linked(Main, ready) /\ ~ Linked(Main, timeouts)
  BY <1>2, <1>3 DEF IInv, Contexts, ThreadKnows, Queues
<1>5. /\ frames \in [Threads -> Context]
      /\ \A u \in Threads : u # t => frames[u] = threads[u]
      /\ frames[t].state = "running" /\ frames[t].kind = "none"
      /\ frames[t].wake = threads[t].wake /\ frames[t].base = threads[t].base
      /\ frames[t].frames = FALSE /\ frames[t].saved = sp
  BY <1>2, <1>3 DEF Context
<1>6. threads' = IF joined THEN [frames EXCEPT ![Main] = Signaled(frames[Main])] ELSE frames
  BY DEF Return
<1> HIDE DEF frames, joined
<1>7. /\ threads' \in [Threads -> Context]
      /\ \A u \in Threads : u # t /\ u # Main => threads'[u] = threads[u]
      /\ threads'[t].state = "running" /\ threads'[t].kind = "none"
      /\ threads'[t].wake = threads[t].wake /\ threads'[t].base = threads[t].base
      /\ threads'[t].frames = FALSE /\ threads'[t].saved = sp
  <2>1. CASE joined
    <3>1. Signaled(frames[Main]) \in Context BY <1>2, <1>5, SignaledFits
    <3>2. QED BY <1>2, <1>4, <1>5, <1>6, <2>1, <3>1
  <2>2. CASE ~ joined BY <1>5, <1>6, <2>2
  <2>3. QED BY <2>1, <2>2
<1>8. t # Main =>
        \/ joined /\ threads'[Main].state = "ready" /\ threads'[Main].kind = "none"
           /\ threads'[Main].wake = 0 /\ threads'[Main].base = threads[Main].base
           /\ threads'[Main].saved = threads[Main].saved
           /\ threads'[Main].frames = threads[Main].frames
        \/ ~ joined /\ threads'[Main] = threads[Main]
  <2>1. CASE joined
    <3>1. frames[Main] = threads[Main] /\ threads[Main] \in Context
      BY <1>2, <1>4, <1>5, <2>1
    <3>2. threads'[Main] = Signaled(threads[Main])
      BY <1>2, <1>5, <1>6, <2>1, <3>1
    <3>3. QED BY <2>1, <3>1, <3>2, SignaledFits
  <2>2. CASE ~ joined BY <1>2, <1>5, <1>6, <2>2
  <2>3. QED BY <2>1, <2>2
<1>9. \A u \in Threads : Active(u)' <=> Active(u)
  BY <1>2, <1>3, <1>4, <1>7, <1>8 DEF Active
<1>10. TypeOK'
  <2>1. ready' \in Seq(Threads) BY <1>1, <1>2, AppendLinks
  <2>2. task' \in BOOLEAN BY <1>1 DEF IInv, TypeOK
  <2>3. QED BY <1>1, <1>7, <2>1, <2>2 DEF IInv, TypeOK, stacks
<1>11. Contexts'
  <2>1. SUFFICES ASSUME NEW u \in Threads PROVE ThreadKnows(u)'
    BY DEF Contexts
  <2>2. ThreadKnows(u) BY DEF IInv, Contexts
  <2>3. CASE u = t
    BY <1>1, <1>3, <1>7, <1>9, <2>2, <2>3, ThreadSets DEF ThreadKnows, stacks
  <2>4. CASE u # t /\ u = Main
    BY <1>1, <1>2, <1>4, <1>8, <1>9, <2>2, <2>4 DEF ThreadKnows, stacks
  <2>5. CASE u # t /\ u # Main
    BY <1>1, <1>7, <1>9, <2>2, <2>5 DEF ThreadKnows, stacks
  <2>6. QED BY <2>3, <2>4, <2>5
<1>12. Queues'
  <2>1. \A u \in Threads : Linked(u, ready) => u # t
    BY <1>2, <1>3 DEF IInv, Queues
  <2>2. /\ NoDuplicates(ready')
        /\ \A u : Linked(u, ready') => Linked(u, ready) \/ (joined /\ u = Main)
    <3>1. NoDuplicates(ready) BY DEF IInv, Queues
    <3>2. CASE joined BY <1>1, <1>2, <1>4, <3>1, <3>2, AppendLinks
    <3>3. CASE ~ joined BY <1>1, <3>1, <3>3
    <3>4. QED BY <3>2, <3>3
  <2>3. \A u \in Threads : Linked(u, ready') => threads'[u].state = "ready"
    BY <1>2, <1>4, <1>7, <1>8, <2>1, <2>2 DEF IInv, Queues
  <2>4. \A u \in Threads : Linked(u, timeouts') => threads'[u].kind = "sleep"
    BY <1>1, <1>2, <1>3, <1>4, <1>7, <1>8 DEF IInv, Queues
  <2>5. QED BY <1>1, <2>2, <2>3, <2>4 DEF IInv, Queues
<1>13. Bases'
  <2>1. \A u \in Threads : threads'[u].base = threads[u].base
    BY <1>7, <1>8
  <2>2. QED BY <1>1, <2>1 DEF IInv, Bases, stacks
<1>14. CurKnows'
  BY <1>1, <1>3, <1>7 DEF CurKnows, RunsOnOwnStack, Dispatched
<1>15. ResKnows'
  <2>1. \A u \in Threads : ~ Active(u)' => ~ threads'[u].frames
    BY <1>1, <1>7, <1>8, <1>9 DEF IInv, ResKnows
  <2>2. QED BY <1>1, <1>7, <2>1 DEF ResKnows, Between
<1>16. MainKnows'
  <2>1. AllEnded' <=> AllEnded BY <1>9, ThreadSets DEF AllEnded
  <2>2. t # Main => ~ AllEnded
    BY <1>3, ThreadSets DEF AllEnded, Active
  <2>3. threads'[Main].saved = IF t = Main THEN MainStack ELSE threads[Main].saved
    BY <1>3, <1>7, <1>8
  <2>4. QED
    BY <1>1, <1>2, <1>3, <1>9, <2>1, <2>2, <2>3, ThreadSets DEF IInv, MainKnows, stacks
<1>17. QED BY <1>10, <1>11, <1>12, <1>13, <1>14, <1>15, <1>16 DEF IInv

-----------------------------------------------------------------------------
(* The end of a dispatch.                                                  *)

LEMMA FreeKeeps == ASSUME IInv, FreeThreadWasmStack PROVE IInv'
<1>1. /\ pc = "free" /\ cur \in Threads /\ cur # Main /\ res # "yield"
      /\ UNCHANGED <<lists, sp, woken, spawned, mode, cur, nested, res>>
      /\ threads \in [Threads -> Context]
  BY DEF FreeThreadWasmStack, IInv, CurKnows, ResKnows, Dispatched, TypeOK
<1>2. /\ threads[cur].state = "running" /\ threads[cur].base # NoStack
      /\ threads[cur].base \in blocks
  BY <1>1 DEF IInv, CurKnows, Dispatched, Contexts, ThreadKnows
<1>3. CASE threads[cur].frames
  <2>1. pc' = "resumed" /\ res = "error" /\ UNCHANGED <<threads, blocks, task>>
    BY <1>1, <1>3 DEF FreeThreadWasmStack, IInv, ResKnows, TypeOK
  <2>2. TypeOK'
    BY <1>1, <2>1 DEF IInv, TypeOK, lists
  <2>3. Contexts' /\ Queues'
    BY <1>1, <2>1 DEF IInv, Contexts, ThreadKnows, Queues, Active, lists
  <2>4. Bases' BY <1>1, <2>1 DEF IInv, Bases
  <2>5. CurKnows'
    BY <1>1, <1>2, <2>1 DEF CurKnows, RunsOnOwnStack, Dispatched
  <2>6. ResKnows' BY <1>1, <2>1 DEF ResKnows, Between
  <2>7. MainKnows' BY <1>1, <2>1 DEF IInv, MainKnows, Active, AllEnded
  <2>8. QED BY <2>2, <2>3, <2>4, <2>5, <2>6, <2>7 DEF IInv
<1>4. CASE ~ threads[cur].frames
  <2>1. /\ pc' = "finish" /\ blocks' = blocks \ {threads[cur].base} /\ task' = FALSE
    BY <1>4 DEF FreeThreadWasmStack
  <2>2. /\ threads' \in [Threads -> Context]
        /\ \A u \in Threads : u # cur => threads'[u] = threads[u]
        /\ threads'[cur].state = threads[cur].state /\ threads'[cur].kind = threads[cur].kind
        /\ threads'[cur].wake = threads[cur].wake /\ threads'[cur].frames = FALSE
        /\ threads'[cur].base = NoStack /\ threads'[cur].saved = NoStack
    BY <1>1, <1>4 DEF FreeThreadWasmStack, Context, Stacks
  <2>3. TypeOK'
    BY <1>1, <2>1, <2>2 DEF IInv, TypeOK, lists
  <2>4. Contexts'
    <3>1. SUFFICES ASSUME NEW u \in Threads PROVE ThreadKnows(u)'
      BY DEF Contexts
    <3>2. ThreadKnows(u) /\ (threads[u].base = threads[cur].base => u = cur)
      BY <1>1, <1>2 DEF IInv, Contexts, Bases
    <3>3. CASE u = cur BY <1>1, <2>2, <3>2, <3>3 DEF ThreadKnows
    <3>4. CASE u # cur
      BY <1>1, <2>1, <2>2, <3>2, <3>4 DEF ThreadKnows, Active
    <3>5. QED BY <3>3, <3>4
  <2>5. Queues' BY <1>1, <2>1, <2>2 DEF IInv, Queues, lists
  <2>6. Bases' BY <1>1, <2>1, <2>2 DEF IInv, Bases
  <2>7. CurKnows'
    BY <1>1, <1>2, <2>1, <2>2 DEF CurKnows, RunsOnOwnStack, Dispatched
  <2>8. ResKnows' BY <1>1, <1>2, <2>1, <2>2 DEF IInv, ResKnows, Between, Active
  <2>9. MainKnows'
    <3>1. /\ \A u \in Threads : Active(u)' <=> Active(u)
          /\ threads'[Main].saved = threads[Main].saved
      BY <1>1, <2>2, ThreadSets DEF Active
    <3>2. AllEnded' <=> AllEnded BY <3>1, ThreadSets DEF AllEnded
    <3>3. QED BY <1>1, <2>1, <3>1, <3>2, ThreadSets DEF IInv, MainKnows
  <2>10. QED BY <2>3, <2>4, <2>5, <2>6, <2>7, <2>8, <2>9 DEF IInv
<1>5. QED BY <1>3, <1>4

LEMMA RunsOnKeeps == ASSUME IInv, RunsOn PROVE IInv'
<1>1. /\ pc = "resumed" /\ pc' = "finish" /\ res = "error"
      /\ cur \in Threads /\ cur # Main
      /\ task' = FALSE /\ threads[cur].state = "running"
      /\ UNCHANGED <<lists, stacks, woken, spawned, mode, cur, nested, res>>
  BY DEF RunsOn, Goto, IInv, CurKnows, ResKnows, Dispatched
<1>2. /\ threads \in [Threads -> Context] /\ threads' \in [Threads -> Context]
      /\ \A u \in Threads : u # cur => threads'[u] = threads[u]
      /\ threads'[cur].state = threads[cur].state /\ threads'[cur].kind = threads[cur].kind
      /\ threads'[cur].wake = threads[cur].wake /\ threads'[cur].frames = FALSE
      /\ threads'[cur].base = NoStack /\ threads'[cur].saved = NoStack
  BY <1>1 DEF RunsOn, IInv, TypeOK, Context, Stacks
<1>3. TypeOK'
  BY <1>1, <1>2 DEF IInv, TypeOK, lists, stacks
<1>4. Contexts'
  BY <1>1, <1>2 DEF IInv, Contexts, ThreadKnows, Active, stacks
<1>5. Queues' BY <1>1, <1>2 DEF IInv, Queues, lists
<1>6. Bases' BY <1>1, <1>2 DEF IInv, Bases, stacks
<1>7. CurKnows'
  BY <1>1, <1>2 DEF CurKnows, RunsOnOwnStack, Dispatched
<1>8. ResKnows' BY <1>1, <1>2 DEF ResKnows, Between
<1>9. MainKnows' BY <1>1, <1>2, ThreadSets DEF IInv, MainKnows, Active, AllEnded, stacks
<1>10. QED BY <1>3, <1>4, <1>5, <1>6, <1>7, <1>8, <1>9 DEF IInv

LEMMA FinishKeeps == ASSUME IInv, Finish PROVE IInv'
<1>1. /\ pc = "finish" /\ cur \in Threads /\ cur' = NoThread
      /\ pc' = IF res = "error" THEN "off" ELSE "top"
      /\ res' = IF res = "error" THEN "error" ELSE "ok"
      /\ task' = (task /\ ~ (res = "error" /\ mode = "run"))
      /\ UNCHANGED <<timeouts, stacks, woken, spawned, mode, nested>>
      /\ threads \in [Threads -> Context] /\ ready \in Seq(Threads)
  BY DEF Finish, IInv, CurKnows, Dispatched, TypeOK
<1>2. /\ \/ threads[cur].state = "running"
         \/ res = "yield" /\ threads[cur].state = "waiting"
      /\ res # "yield" => threads[cur].base = NoStack
      /\ res = "ok" => ~ threads[cur].frames
      /\ ThreadKnows(cur)
  BY <1>1 DEF IInv, CurKnows, ResKnows, Contexts
<1>3. ~ Linked(cur, ready) BY <1>1, <1>2 DEF IInv, Queues
<1>4. NoDuplicates(ready) BY DEF IInv, Queues
<1>5. /\ threads' \in [Threads -> Context]
      /\ \A u \in Threads : u # cur => threads'[u] = threads[u]
      /\ threads'[cur].kind = threads[cur].kind /\ threads'[cur].wake = threads[cur].wake
      /\ threads'[cur].frames = threads[cur].frames
      /\ threads'[cur].base = threads[cur].base /\ threads'[cur].saved = threads[cur].saved
      /\ ready' \in Seq(Threads) /\ NoDuplicates(ready')
      /\ \/ /\ res # "yield" /\ threads'[cur].state = "terminated" /\ ready' = ready
         \/ /\ res = "yield" /\ threads[cur].state = "running"
            /\ threads'[cur].state = "ready"
            /\ \A u : Linked(u, ready') => Linked(u, ready) \/ u = cur
         \/ /\ res = "yield" /\ threads[cur].state = "waiting"
            /\ threads'[cur].state = "waiting" /\ ready' = ready
  <2>1. CASE res # "yield"
    <3>1. threads' = [threads EXCEPT ![cur].state = "terminated"] /\ ready' = ready
      BY <2>1 DEF Finish
    <3>2. QED BY <1>1, <1>4, <2>1, <3>1 DEF Context, States
  <2>2. CASE res = "yield" /\ threads[cur].state = "running"
    <3>1. /\ threads' = [threads EXCEPT ![cur].state = "ready"]
          /\ ready' = Append(ready, cur)
      BY <2>2 DEF Finish, Requeued
    <3>2. /\ ready' \in Seq(Threads) /\ NoDuplicates(ready')
          /\ \A u : Linked(u, ready') => Linked(u, ready) \/ u = cur
      BY <1>1, <1>3, <1>4, <3>1, AppendLinks
    <3>3. QED BY <1>1, <2>2, <3>1, <3>2 DEF Context, States
  <2>3. CASE res = "yield" /\ threads[cur].state = "waiting"
    <3>1. threads' = [threads EXCEPT ![cur].state = "waiting"] /\ ready' = ready
      BY <2>3 DEF Finish, Requeued
    <3>2. QED BY <1>1, <1>4, <2>3, <3>1 DEF Context, States
  <2>4. QED BY <1>2, <2>1, <2>2, <2>3
<1>6. TypeOK'
  <2>1. task' \in BOOLEAN BY <1>1 DEF IInv, TypeOK
  <2>2. QED BY <1>1, <1>5, <2>1 DEF IInv, TypeOK, stacks
<1>7. Contexts'
  BY <1>1, <1>2, <1>5 DEF IInv, Contexts, ThreadKnows, Active, stacks
<1>8. Queues'
  <2>1. \A u \in Threads : Linked(u, ready') => threads'[u].state = "ready"
    BY <1>1, <1>3, <1>5 DEF IInv, Queues
  <2>2. \A u \in Threads : Linked(u, timeouts') => threads'[u].kind = "sleep"
    BY <1>1, <1>5 DEF IInv, Queues
  <2>3. QED BY <1>1, <1>5, <2>1, <2>2 DEF IInv, Queues
<1>9. Bases'
  <2>1. \A u \in Threads : threads'[u].base = threads[u].base
    BY <1>5
  <2>2. QED BY <1>1, <2>1 DEF IInv, Bases, stacks
<1>10. CurKnows'
  BY <1>1, ThreadSets DEF CurKnows, RunsOnOwnStack, Dispatched
<1>11. ResKnows'
  BY <1>1, <1>2, <1>5 DEF IInv, TypeOK, ResKnows, Active, Between
<1>12. MainKnows'
  <2>1. cur # Main => ~ AllEnded
    BY <1>1, <1>2, ThreadSets DEF AllEnded, Active
  <2>2. \A u \in Threads : u # cur => (Active(u)' <=> Active(u))
    BY <1>5 DEF Active
  <2>3. cur = Main => (AllEnded' <=> AllEnded)
    BY <2>2, ThreadSets DEF AllEnded
  <2>4. Active(cur) /\ (threads'[cur].state # "terminated" <=> res = "yield")
    BY <1>2, <1>5 DEF Active
  <2>5. CASE cur = Main
    <3>1. /\ sp = MainStack /\ threads[Main].saved = MainStack
          /\ (res = "ok" => AllEnded) /\ mode = "execute"
      BY <1>1, <2>4, <2>5 DEF IInv, MainKnows, TypeOK
    <3>2. threads'[Main].saved # NoStack BY <1>5, <2>5, <3>1, ThreadSets
    <3>3. Active(Main)' <=> res = "yield" BY <2>4, <2>5 DEF Active, Main
    <3>4. res \in {"ok", "yield", "error"} BY DEF IInv, TypeOK
    <3>5. QED
      BY <1>1, <2>3, <2>5, <3>1, <3>2, <3>3, <3>4, ThreadSets DEF MainKnows, stacks
  <2>6. CASE cur # Main
    <3>1. threads'[Main] = threads[Main] /\ (Active(Main)' <=> Active(Main))
      BY <1>5, <2>2, <2>6, ThreadSets
    <3>2. QED
      BY <1>1, <2>1, <2>6, <3>1, ThreadSets DEF IInv, MainKnows, stacks
  <2>7. QED BY <2>5, <2>6
<1>13. QED BY <1>6, <1>7, <1>8, <1>9, <1>10, <1>11, <1>12 DEF IInv

-----------------------------------------------------------------------------
(* The rest of the world.                                                  *)

LEMMA TickKeeps == ASSUME IInv, Tick PROVE IInv'
<1>1. /\ UNCHANGED <<lists, stacks, platform, spawned, engine>>
      /\ threads \in [Threads -> Context]
  BY DEF Tick, IInv, TypeOK
<1>2. ASSUME NEW u \in Threads
      PROVE  /\ threads'[u] \in Context
             /\ threads'[u].state = threads[u].state /\ threads'[u].kind = threads[u].kind
             /\ threads'[u].frames = threads[u].frames
             /\ threads'[u].base = threads[u].base /\ threads'[u].saved = threads[u].saved
             /\ threads'[u].kind # "sleep" => threads'[u].wake = threads[u].wake
  <2>1. threads[u] \in Context BY <1>1
  <2>2. CASE u \in Sleepers /\ threads[u].wake > 0
    <3>1. threads'[u] = [threads[u] EXCEPT !.wake = threads[u].wake - 1]
      BY <2>2 DEF Tick
    <3>2. threads[u].kind = "sleep"
      BY <2>2 DEF Sleepers, IInv, Queues
    <3>3. threads[u].wake - 1 \in Nat
      BY <2>1, <2>2 DEF Context
    <3>4. QED BY <2>1, <3>1, <3>2, <3>3 DEF Context
  <2>3. CASE ~ (u \in Sleepers /\ threads[u].wake > 0)
    <3>1. threads'[u] = threads[u] BY <2>3 DEF Tick
    <3>2. QED BY <2>1, <3>1
  <2>4. QED BY <2>2, <2>3
<1>3. threads' \in [Threads -> Context]
  BY <1>2 DEF Tick
<1>4. \A u \in Threads : Active(u)' <=> Active(u)
  BY <1>2 DEF Active
<1>5. TypeOK'
  BY <1>1, <1>3 DEF IInv, TypeOK, lists, stacks, platform, engine
<1>6. Contexts'
  <2>1. SUFFICES ASSUME NEW u \in Threads PROVE ThreadKnows(u)'
    BY DEF Contexts
  <2>2. ThreadKnows(u) BY DEF IInv, Contexts
  <2>3. QED BY <1>1, <1>2, <1>4, <2>2 DEF ThreadKnows, stacks
<1>7. Queues' BY <1>1, <1>2 DEF IInv, Queues, lists, engine
<1>8. Bases' BY <1>1, <1>2 DEF IInv, Bases, stacks, engine
<1>9. CurKnows'
  BY <1>1, <1>2 DEF IInv, CurKnows, RunsOnOwnStack, Dispatched, stacks, engine
<1>10. ResKnows'
  BY <1>1, <1>2, <1>4 DEF IInv, ResKnows, CurKnows, Dispatched, engine
<1>11. MainKnows'
  BY <1>1, <1>2, <1>4, ThreadSets DEF IInv, MainKnows, AllEnded, stacks, engine
<1>12. QED BY <1>5, <1>6, <1>7, <1>8, <1>9, <1>10, <1>11 DEF IInv

LEMMA ThreadNotifyKeeps ==
  ASSUME IInv, NEW t \in Threads, ThreadNotify(t)
  PROVE  IInv'
<1>1. /\ threads[t].state = "waiting" /\ threads[t].kind = "notify" /\ cur # t
      /\ ready' = Append(ready, t) /\ ready \in Seq(Threads)
      /\ UNCHANGED <<timeouts, stacks, task, spawned, engine>>
      /\ threads \in [Threads -> Context] /\ threads[t].wake = 0
  BY DEF ThreadNotify, IInv, TypeOK, Contexts, ThreadKnows
<1>2. /\ threads' \in [Threads -> Context]
      /\ \A u \in Threads : u # t => threads'[u] = threads[u]
      /\ threads'[t].state = "ready" /\ threads'[t].kind = "none"
      /\ threads'[t].wake = threads[t].wake /\ threads'[t].frames = threads[t].frames
      /\ threads'[t].base = threads[t].base /\ threads'[t].saved = threads[t].saved
  BY <1>1 DEF ThreadNotify, Context, States
<1>3. ~ Linked(t, ready) /\ ~ Linked(t, timeouts) /\ NoDuplicates(ready)
  BY <1>1 DEF IInv, Queues
<1>4. \A u \in Threads : Active(u)' <=> Active(u)
  BY <1>1, <1>2 DEF Active
<1>5. TypeOK'
  <2>1. woken' \in BOOLEAN BY DEF ThreadNotify, Notified, IInv, TypeOK
  <2>2. QED BY <1>1, <1>2, <2>1, AppendLinks DEF IInv, TypeOK, stacks, engine
<1>6. Contexts'
  BY <1>1, <1>2, <1>4 DEF IInv, Contexts, ThreadKnows, stacks
<1>7. Queues'
  BY <1>1, <1>2, <1>3, AppendLinks DEF IInv, Queues, engine
<1>8. Bases'
  BY <1>1, <1>2 DEF IInv, Bases, stacks, engine
<1>9. CurKnows'
  BY <1>1, <1>2 DEF IInv, CurKnows, RunsOnOwnStack, Dispatched, stacks, engine
<1>10. ResKnows'
  BY <1>1, <1>2, <1>4 DEF IInv, ResKnows, CurKnows, Dispatched, engine
<1>11. MainKnows'
  BY <1>1, <1>2, <1>4, ThreadSets DEF IInv, MainKnows, AllEnded, stacks, engine
<1>12. QED BY <1>5, <1>6, <1>7, <1>8, <1>9, <1>10, <1>11 DEF IInv

LEMMA StepKeeps == ASSUME MainLast, IInv, [Next]_vars PROVE IInv'
<1>1. CASE Execute BY <1>1, ExecuteKeeps
<1>2. CASE Run \/ ExecuteTop \/ RunTop \/ WaitForActivity \/ PollDone
  BY <1>2, LoopKeeps
<1>3. CASE ExecuteReturns BY <1>3, ExecuteReturnsKeeps
<1>4. CASE Pick BY <1>4, PickKeeps
<1>5. CASE AllocThreadWasmStack BY <1>5, AllocKeeps
<1>6. CASE AllocThreadWasmStackFails BY <1>6, AllocFailsKeeps
<1>7. CASE Enter BY <1>7, EnterKeeps
<1>8. CASE FreeThreadWasmStack BY <1>8, FreeKeeps
<1>9. CASE RunsOn BY <1>9, RunsOnKeeps
<1>10. CASE Finish BY <1>10, FinishKeeps
<1>11. CASE \E i \in DOMAIN timeouts : PollExpired(i) BY <1>11, PollExpiredKeeps
<1>12. CASE Spawn BY <1>12, SpawnKeeps
<1>13. CASE \/ Yield \/ AwaitIo \/ Trap
            \/ \E n \in 0 .. MaxSleep : Sleep(n)
            \/ \E w \in Workers : Join(w)
  BY <1>13, GuestKeeps
<1>14. CASE Tick BY <1>14, TickKeeps
<1>15. CASE \E t \in Threads : Return(t) BY <1>15, ReturnKeeps
<1>16. CASE \E t \in Threads : ThreadNotify(t) BY <1>16, ThreadNotifyKeeps
<1>17. CASE \E t \in Workers : StartThread(t) BY <1>17, StartThreadKeeps
<1>18. CASE UNCHANGED vars
  <2>1. TypeOK' BY <1>18 DEF IInv, TypeOK, vars, lists, stacks, platform, engine
  <2>2. Contexts' /\ Queues' /\ Bases'
    BY <1>18 DEF IInv, Contexts, ThreadKnows, Queues, Bases, Active, vars, lists, stacks, engine
  <2>3. CurKnows' /\ ResKnows' /\ MainKnows'
    BY <1>18 DEF IInv, CurKnows, RunsOnOwnStack, ResKnows, MainKnows, Active, AllEnded,
                 vars, stacks, engine
  <2>4. QED BY <2>1, <2>2, <2>3 DEF IInv
<1>19. QED
  BY <1>1, <1>2, <1>3, <1>4, <1>5, <1>6, <1>7, <1>8, <1>9, <1>10, <1>11, <1>12,
     <1>13, <1>14, <1>15, <1>16, <1>17, <1>18 DEF Next, LoopStep, GuestStep

(* Contexts, lists, blocks and the engine's place fit together: the
   inductive invariant holds in every reachable state, if the main thread
   joins the workers it spawned. *)
THEOREM ExecutionInvariant == ASSUME MainLast PROVE Spec => []IInv
<1>1. Init => IInv BY InitHolds
<1>2. IInv /\ [Next]_vars => IInv' BY StepKeeps
<1>3. QED BY <1>1, <1>2, PTL DEF Spec

LEMMA IInvGivesOwnStacks == ASSUME IInv PROVE OwnStacks
<1>1. RunsOnOwnStack BY DEF IInv, CurKnows
<1>2. ASSUME res # "error" PROVE blocks = {threads[t].base : t \in Threads} \ {NoStack}
  <2>1. blocks \subseteq Blocks /\ NoStack \notin Blocks
    BY ThreadSets DEF IInv, TypeOK
  <2>2. \A b \in blocks : \E t \in Threads : threads[t].base = b
    BY <1>2 DEF IInv, Bases
  <2>3. \A t \in Threads : threads[t].base # NoStack => threads[t].base \in blocks
    BY DEF IInv, Contexts, ThreadKnows
  <2>4. QED BY <2>1, <2>2, <2>3
<1>3. \A t \in Threads : threads[t].base # NoStack => Active(t)
  BY DEF IInv, Contexts, ThreadKnows
<1>4. QED BY <1>1, <1>2, <1>3 DEF OwnStacks, StacksBalanced, IInv, Bases

(* OwnStacks, for any number of threads: guest code runs on the stack of its
   thread, and no stack is shared or, without an error, leaked. *)
THEOREM OwnStacksCorrect == ASSUME MainLast PROVE Spec => []OwnStacks
BY ExecutionInvariant, IInvGivesOwnStacks, PTL

LEMMA UnlinkedEmpty ==
  ASSUME NEW T, NEW s \in Seq(T), \A t \in T : ~ Linked(t, s)
  PROVE  s = << >>
<1>1. SUFFICES ASSUME s # << >> PROVE FALSE
  OBVIOUS
<1>2. 1 \in DOMAIN s /\ s[1] \in T BY <1>1
<1>3. QED BY <1>2 DEF Linked

LEMMA SameContext ==
  ASSUME NEW c \in Context, NEW d \in Context, c.state = d.state, c.kind = d.kind,
         c.wake = d.wake, c.frames = d.frames, c.base = d.base, c.saved = d.saved
  PROVE  c = d
BY DEF Context

LEMMA EndedFresh ==
  ASSUME NEW c \in Context, c.state = "terminated", c.kind = "none", c.wake = 0,
         c.frames = FALSE, c.base = NoStack
  PROVE  c = [Fresh EXCEPT !.saved = c.saved]
<1> DEFINE d == [Fresh EXCEPT !.saved = c.saved]
<1>1. /\ Fresh.state = "terminated" /\ Fresh.kind = "none" /\ Fresh.wake = 0
      /\ Fresh.frames = FALSE /\ Fresh.base = NoStack
  BY DEF Fresh
<1>2. c.saved \in Stacks BY DEF Context
<1>3. /\ d \in Context /\ d.state = Fresh.state /\ d.kind = Fresh.kind
      /\ d.wake = Fresh.wake /\ d.base = Fresh.base /\ d.saved = c.saved
      /\ d.frames = Fresh.frames
  BY <1>2, FreshFits, Saved
<1> HIDE DEF d
<1>4. c = d BY <1>1, <1>3, SameContext
<1>5. QED BY <1>4 DEF d

LEMMA IInvGivesDone == ASSUME IInv PROVE DoneWhenOk
<1>1. SUFFICES ASSUME pc = "off", res = "ok"
               PROVE  /\ \A t \in Threads :
                           threads[t] = [Fresh EXCEPT !.saved = threads[t].saved]
                      /\ ready = << >> /\ timeouts = << >> /\ blocks = {}
  BY DEF DoneWhenOk
<1>2. \A t \in Threads : ~ Active(t)
  BY <1>1, ThreadSets DEF IInv, MainKnows, AllEnded
<1>3. ASSUME NEW t \in Threads
      PROVE  /\ threads[t] = [Fresh EXCEPT !.saved = threads[t].saved]
             /\ ~ Linked(t, ready) /\ ~ Linked(t, timeouts) /\ threads[t].base = NoStack
  <2>1. threads[t] \in Context /\ threads[t].state = "terminated"
    BY <1>2 DEF IInv, TypeOK, Active
  <2>2. threads[t].kind = "none" /\ threads[t].wake = 0 /\ threads[t].base = NoStack
    BY <1>2, <2>1 DEF IInv, Contexts, ThreadKnows
  <2>3. threads[t].frames = FALSE
    BY <1>1, <1>2, <2>1 DEF IInv, ResKnows, Context
  <2>4. ~ Linked(t, ready) /\ ~ Linked(t, timeouts)
    BY <2>1, <2>2 DEF IInv, Queues
  <2>5. QED BY <2>1, <2>2, <2>3, <2>4, EndedFresh
<1>4. ready = << >> /\ timeouts = << >>
  BY <1>3, UnlinkedEmpty DEF IInv, TypeOK
<1>5. blocks = {}
  <2>1. NoStack \notin blocks BY ThreadSets DEF IInv, TypeOK
  <2>2. QED BY <1>1, <1>3, <2>1 DEF IInv, Bases
<1>6. QED BY <1>3, <1>4, <1>5

(* DoneWhenOk, for any number of threads: when Execute() has returned kOk,
   every thread has ended and given back what it had. *)
THEOREM DoneCorrect == ASSUME MainLast PROVE Spec => []DoneWhenOk
BY ExecutionInvariant, IInvGivesDone, PTL

-----------------------------------------------------------------------------
(* The notification.                                                       *)

(* WakesForReady on the std::thread port, whose PlatformNotifyActivity()
   needs no registered task, whether the main thread goes last or not. *)
THEOREM WakesCorrect == ASSUME Port = "std" PROVE Spec => []WakesForReady
<1>1. Init => WakesForReady
  BY DEF Init, WakesForReady
<1>2. ASSUME WakesForReady, [Next]_vars PROVE WakesForReady'
  <2> USE <1>2 DEF WakesForReady
  <2>1. CASE \/ Execute \/ Run \/ ExecuteReturns \/ ExecuteTop \/ RunTop \/ Enter
             \/ AllocThreadWasmStack \/ AllocThreadWasmStackFails \/ RunsOn
    BY <2>1 DEF Execute, Run, ExecuteReturns, ExecuteTop, RunTop, Enter,
                AllocThreadWasmStack, AllocThreadWasmStackFails, RunsOn, Goto
  <2>2. CASE WaitForActivity \/ Pick \/ FreeThreadWasmStack \/ Finish
    BY <2>2 DEF WaitForActivity, Pick, FreeThreadWasmStack, Finish
  <2>3. CASE PollDone \/ \E i \in DOMAIN timeouts : PollExpired(i)
    BY <2>3 DEF PollDone, PollExpired, Polling, lists, engine
  <2>4. CASE Spawn \/ Yield \/ AwaitIo \/ Trap
    BY <2>4 DEF Spawn, Yield, AwaitIo, Trap, Leave, Left, engine
  <2>5. CASE \/ \E n \in 0 .. MaxSleep : Sleep(n)
             \/ \E w \in Workers : Join(w)
             \/ \E t \in Threads : Return(t)
    BY <2>5 DEF Sleep, Join, Return, Leave, Left
  <2>6. CASE Tick \/ UNCHANGED vars
    BY <2>6 DEF Tick, vars, lists, platform, engine
  <2>7. CASE \/ \E t \in Workers : StartThread(t)
             \/ \E t \in Threads : ThreadNotify(t)
    BY <2>7 DEF StartThread, ThreadNotify, Notified
  <2>8. QED
    BY <2>1, <2>2, <2>3, <2>4, <2>5, <2>6, <2>7 DEF Next, LoopStep, GuestStep
<1>3. QED BY <1>1, <1>2, PTL DEF Spec
=============================================================================
