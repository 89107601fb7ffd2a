--------------------------- MODULE SchedulerProofs ---------------------------
(* Proofs about Scheduler.                                                 *)
EXTENDS Scheduler, LinkedListLemmas, TLAPS, WellFoundedInduction, NaturalsInduction

-----------------------------------------------------------------------------
(* The inductive invariant.  Typing alone is not inductive: where the       *)
(* engine thread is tells which of its variables name a thread.             *)

Dispatched == {"alloc", "run", "signal", "spawn", "iowait", "iopark",
               "after", "callback"}

Places ==
  /\ pc \in Dispatched <=> cur \in Threads
  /\ pc = "spawn" => slot \in Threads
  /\ pc = "signal" <=> signaling \in Events
  /\ \A h \in Hosts : hpc[h] = "start" => handle[h] \in Threads

TypeInv == TypeOK /\ Places

(* What the engine thread, and a host inside StartThread, rely on about the
   state of the thread they have in hand. *)
EngineKnows ==
  /\ pc \in {"alloc", "run", "signal", "spawn", "iowait", "iopark"}
       => threads[cur].state = "Running"
  /\ pc = "after" => \/ threads[cur].state = "Running"
                     \/ res = "yield" /\ threads[cur].state \in {"Ready", "Waiting"}
  /\ pc = "callback" => threads[cur].state # "Running"
  /\ pc = "spawn" => threads[slot].state \in {"Null", "Terminated"}

HostsKnow ==
  \A h \in Hosts :
    /\ hpc[h] = "start" => threads[handle[h]].state = "Created"
    /\ handle[h] # NoThread => threads[handle[h]].state # "Null"

(* ThreadWait on its way to parking the thread: the notification is either
   still to come or already recorded. *)
IoKnows ==
  /\ pc = "iowait" /\ Named => io[cur] = "submitted" \/ threads[cur].pending
  /\ pc = "iopark" => io[cur] = "submitted" /\ ~ threads[cur].pending

EngineInv == EngineKnows /\ OneRunning /\ NoWaiterOfSignaled
IoInv == IoKnows /\ NoLostNotify

SafetyInv ==
  /\ QueuesMatchStates /\ EngineInv /\ HostsKnow /\ IoInv
  /\ HandlesExclusive

IInv == TypeInv /\ SafetyInv

-----------------------------------------------------------------------------
LEMMA FirstSlotIsSlot ==
  ASSUME SchedulerAssumption, NEW S \in SUBSET Threads, S # {}
  PROVE  FirstSlot(S) \in S
<1>1. S \in SUBSET Nat
  BY DEF Threads, SchedulerAssumption
<1>2. \E t \in S : \A u \in S : t <= u
  BY <1>1, SmallestExists
<1>3. QED BY <1>2 DEF FirstSlot

LEMMA MinSleepTimeoutType ==
  ASSUME SchedulerAssumption, TypeOK
  PROVE  MinSleepTimeout \in 0 .. Forever
<1> DEFINE left == {threads[timeouts[i]].wake : i \in DOMAIN timeouts}
<1>1. \A i \in DOMAIN timeouts : timeouts[i] \in Threads
  BY DEF TypeOK, ListsOK
<1>2. \A t \in Threads : threads[t].wake \in 0 .. MaxSleep
  BY DEF TypeOK, ThreadsOK, Context
<1>3. left \in SUBSET (0 .. MaxSleep) /\ MaxSleep \in Nat
  BY <1>1, <1>2 DEF SchedulerAssumption
<1>4. CASE left = {}
  BY <1>3, <1>4 DEF MinSleepTimeout, Forever
<1>5. CASE left # {}
  <2>1. MinSleepTimeout = CHOOSE n \in left : \A m \in left : n <= m
    BY <1>5, Zenon DEF MinSleepTimeout
  <2> HIDE DEF left
  <2>2. left \in SUBSET Nat
    BY <1>3
  <2>3. \E n \in left : \A m \in left : n <= m
    BY <2>2, <1>5, SmallestExists
  <2>4. \A n \in left : n \in 0 .. Forever
    BY <1>3 DEF Forever
  <2>5. MinSleepTimeout \in left
    BY <2>1, <2>3, Zenon
  <2>6. QED BY <2>4, <2>5
<1>6. QED BY <1>4, <1>5

LEMMA MinusType ==
  ASSUME NEW n \in Nat, NEW k \in 0 .. n
  PROVE  Minus1(k) \in 0 .. n
BY DEF Minus1
(* What the actions do to a context leaves a context. *)
LEMMA ContextUpdates ==
  ASSUME NEW c \in Context
  PROVE  /\ \A s \in States : [c EXCEPT !.state = s] \in Context
         /\ \A k \in Kinds : [c EXCEPT !.state = "Waiting", !.kind = k] \in Context
         /\ \A d \in 0 .. MaxSleep :
              [c EXCEPT !.state = "Waiting", !.kind = "Sleep", !.wake = d] \in Context
         /\ \A d \in 0 .. MaxSleep : [c EXCEPT !.wake = d] \in Context
         /\ MakeReady(c) \in Context
         /\ [MakeReady(c) EXCEPT !.pending = FALSE] \in Context
         /\ [c EXCEPT !.pending = TRUE] \in Context
         /\ [c EXCEPT !.fresh = FALSE] \in Context
         /\ [c EXCEPT !.cb = TRUE] \in Context
         /\ \A r \in Results : Terminate(c, r) \in Context
         /\ Claimed(c) \in Context
<1> USE DEF Context
<1>1. \A s \in States : [c EXCEPT !.state = s] \in Context
  OBVIOUS
<1>2. \A k \in Kinds : [c EXCEPT !.state = "Waiting", !.kind = k] \in Context
  BY DEF States
<1>3. \A d \in 0 .. MaxSleep :
        [c EXCEPT !.state = "Waiting", !.kind = "Sleep", !.wake = d] \in Context
  BY DEF States, Kinds
<1>4. \A d \in 0 .. MaxSleep : [c EXCEPT !.wake = d] \in Context
  OBVIOUS
<1>5. /\ MakeReady(c) \in Context
      /\ [MakeReady(c) EXCEPT !.pending = FALSE] \in Context
  BY DEF States, Kinds, MakeReady
<1>6. /\ [c EXCEPT !.pending = TRUE] \in Context
      /\ [c EXCEPT !.fresh = FALSE] \in Context
      /\ [c EXCEPT !.cb = TRUE] \in Context
  OBVIOUS
<1>7. \A r \in Results : Terminate(c, r) \in Context
  BY DEF States, Terminate
<1>8. Claimed(c) \in Context
  BY DEF States, Claimed
<1> HIDE DEF Context
<1>9. QED BY <1>1, <1>2, <1>3, <1>4, <1>5, <1>6, <1>7, <1>8

LEMMA NewContexts ==
  ASSUME SchedulerAssumption
  PROVE  /\ Reset \in Context
         /\ NullSlot \in Context
         /\ \A t \in Threads :
              /\ [Reset EXCEPT !.id = t] \in Context
              /\ [Reset EXCEPT !.id = t, !.state = "Created", !.owned = TRUE] \in Context
<1> USE DEF Context, States
<1>1. Reset \in Context
  BY DEF Reset, Kinds, Results, SchedulerAssumption
<1>2. NullSlot \in Context
  BY <1>1 DEF NullSlot
<1>3. ASSUME NEW t \in Threads
      PROVE  /\ [Reset EXCEPT !.id = t] \in Context
             /\ [Reset EXCEPT !.id = t, !.state = "Created", !.owned = TRUE] \in Context
  BY <1>1
<1>4. QED BY <1>1, <1>2, <1>3

LEMMA TickedType ==
  ASSUME SchedulerAssumption, NEW c \in Context
  PROVE  [c EXCEPT !.wake = Minus1(@)] \in Context
<1>1. c.wake \in 0 .. MaxSleep /\ MaxSleep \in Nat
  BY DEF Context, SchedulerAssumption
<1>2. Minus1(c.wake) \in 0 .. MaxSleep
  BY <1>1, MinusType
<1>3. QED BY <1>2, ContextUpdates

LEMMA YieldedType ==
  ASSUME NEW c \in Context
  PROVE  Yielded(c.state) \in States
BY DEF Context, States, Yielded

LEMMA AppendTyped ==
  ASSUME NEW T, NEW s \in Seq(T), NEW t \in T
  PROVE  Append(s, t) \in Seq(T)
OBVIOUS

LEMMA UnlinkTyped ==
  ASSUME NEW T, NEW s \in Seq(T), NEW i \in 1 .. Len(s)
  PROVE  Unlink(s, i) \in Seq(T)
BY DEF Unlink

LEMMA CountType ==
  ASSUME NEW n \in 0 .. 2
  PROVE  (IF n < 2 THEN n + 1 ELSE n) \in 0 .. 2
OBVIOUS
(* Every step keeps the types. *)
LEMMA TypeInvStep ==
  ASSUME SchedulerAssumption, TypeInv, [Next]_vars
  PROVE  TypeInv'
<1> USE DEF TypeInv, TypeOK, others, host, lists, platform, engine, scratch
<1>0. NoThread \notin Threads /\ NoEvent \notin Events
  BY DEF Threads, Events, NoThread, NoEvent, SchedulerAssumption
<1>1. CASE RunBegin
  <2>1. ThreadsOK'
    BY <1>1 DEF RunBegin, Goto, ThreadsOK
  <2>2. ListsOK'
    BY <1>1 DEF RunBegin, Goto, ListsOK
  <2>3. (EngineOK /\ Places)'
    BY <1>0, <1>1 DEF RunBegin, Goto, EngineOK, Places, PCs, Dispatched
  <2>4. OthersOK'
    BY <1>1 DEF RunBegin, Goto, OthersOK
  <2>5. QED BY <2>1, <2>2, <2>3, <2>4
<1>2. CASE LoopTop
  <2>1. ThreadsOK'
    BY <1>2 DEF LoopTop, ThreadsOK
  <2>2. ListsOK'
    BY <1>2 DEF LoopTop, ListsOK
  <2>3. (EngineOK /\ Places)'
    BY <1>0, <1>2 DEF LoopTop, EngineOK, Places, PCs, Dispatched
  <2>4. OthersOK'
    BY <1>2 DEF LoopTop, OthersOK
  <2>5. QED BY <2>1, <2>2, <2>3, <2>4
<1>3. CASE PollExpired
  <2>0. cursor \in 1 .. Len(timeouts) /\ timeouts[cursor] \in Threads
    BY <1>3 DEF PollExpired, ListsOK, EngineOK
  <2>1. ThreadsOK'
    <3>1. CASE threads[timeouts[cursor]].wake = 0
      <4>1. threads' = [threads EXCEPT ![timeouts[cursor]] = MakeReady(@)]
        BY <1>3, <3>1 DEF PollExpired
      <4>2. QED BY <4>1, <2>0, ContextUpdates DEF ThreadsOK
    <3>2. CASE threads[timeouts[cursor]].wake # 0
      <4>1. UNCHANGED threads
        BY <1>3, <3>2 DEF PollExpired
      <4>2. QED BY <4>1 DEF ThreadsOK
    <3>3. QED BY <3>1, <3>2
  <2>2. ListsOK'
    <3>1. CASE threads[timeouts[cursor]].wake = 0
      <4>1. /\ ready' = Append(ready, timeouts[cursor])
            /\ timeouts' = Unlink(timeouts, cursor) /\ waiters' = waiters
        BY <1>3, <3>1 DEF PollExpired
      <4>2. QED BY <4>1, <2>0, AppendTyped, UnlinkTyped DEF ListsOK
    <3>2. CASE threads[timeouts[cursor]].wake # 0
      <4>1. UNCHANGED <<ready, timeouts, waiters>>
        BY <1>3, <3>2 DEF PollExpired
      <4>2. QED BY <4>1 DEF ListsOK
    <3>3. QED BY <3>1, <3>2
  <2>3. (EngineOK /\ Places)'
    BY <1>0, <1>3 DEF PollExpired, EngineOK, Places, PCs, Dispatched
  <2>4. OthersOK'
    BY <1>3 DEF PollExpired, OthersOK
  <2>5. QED BY <2>1, <2>2, <2>3, <2>4
<1>4. CASE PollDone
  <2>1. ThreadsOK'
    BY <1>4 DEF PollDone, Goto, ThreadsOK
  <2>2. ListsOK'
    BY <1>4 DEF PollDone, Goto, ListsOK
  <2>3. (EngineOK /\ Places)'
    BY <1>0, <1>4 DEF PollDone, Goto, EngineOK, Places, PCs, Dispatched
  <2>4. OthersOK'
    BY <1>4 DEF PollDone, Goto, OthersOK
  <2>5. QED BY <2>1, <2>2, <2>3, <2>4
<1>5. CASE Pick
  <2>0. Head(ready) \in Threads /\ Tail(ready) \in Seq(Threads)
    BY <1>5 DEF Pick, ListsOK
  <2>1. ThreadsOK'
    BY <1>5, <2>0, ContextUpdates DEF Pick, ThreadsOK, States
  <2>2. ListsOK'
    BY <1>5, <2>0 DEF Pick, ListsOK
  <2>3. (EngineOK /\ Places)'
    BY <1>0, <1>5, <2>0 DEF Pick, EngineOK, Places, PCs, Dispatched
  <2>4. OthersOK'
    BY <1>5 DEF Pick, OthersOK
  <2>5. QED BY <2>1, <2>2, <2>3, <2>4
<1>6. CASE PickNone
  <2>0. deadline' \in 0 .. Forever
    BY <1>6, MinSleepTimeoutType DEF PickNone, Goto, Forever,
      SchedulerAssumption
  <2>1. ThreadsOK'
    BY <1>6 DEF PickNone, Goto, ThreadsOK
  <2>2. ListsOK'
    BY <1>6 DEF PickNone, Goto, ListsOK
  <2>3. (EngineOK /\ Places)'
    BY <1>0, <1>6, <2>0 DEF PickNone, Goto, EngineOK, Places, PCs,
      Dispatched
  <2>4. OthersOK'
    BY <1>6 DEF PickNone, Goto, OthersOK
  <2>5. QED BY <2>1, <2>2, <2>3, <2>4
<1>7. CASE WakeUp
  <2>1. ThreadsOK'
    BY <1>7 DEF WakeUp, Goto, ThreadsOK
  <2>2. ListsOK'
    BY <1>7 DEF WakeUp, Goto, ListsOK
  <2>3. (EngineOK /\ Places)'
    BY <1>0, <1>7 DEF WakeUp, Goto, EngineOK, Places, PCs, Dispatched,
      Forever, SchedulerAssumption
  <2>4. OthersOK'
    BY <1>7 DEF WakeUp, Goto, OthersOK
  <2>5. QED BY <2>1, <2>2, <2>3, <2>4
<1>8. CASE AllocStack
  <2>0. cur \in Threads
    BY <1>8 DEF AllocStack, Goto, Places, Dispatched
  <2>1. ThreadsOK'
    BY <1>8, <2>0, ContextUpdates DEF AllocStack, Goto, ThreadsOK
  <2>2. ListsOK'
    BY <1>8 DEF AllocStack, Goto, ListsOK
  <2>3. (EngineOK /\ Places)'
    BY <1>0, <1>8 DEF AllocStack, Goto, EngineOK, Places, PCs, Dispatched
  <2>4. OthersOK'
    BY <1>8 DEF AllocStack, Goto, OthersOK
  <2>5. QED BY <2>1, <2>2, <2>3, <2>4
<1>9. CASE AllocStackFails
  <2>0. cur \in Threads
    BY <1>9 DEF AllocStackFails, Complete, EndRound, Places, Dispatched
  <2>1. ThreadsOK'
    BY <1>9, <2>0, ContextUpdates DEF AllocStackFails, Complete, EndRound,
      ThreadsOK, Results
  <2>2. ListsOK'
    BY <1>9 DEF AllocStackFails, Complete, EndRound, ListsOK
  <2>3. (EngineOK /\ Places)'
    BY <1>0, <1>9, <2>0 DEF AllocStackFails, Complete, EndRound, EngineOK,
      Places, PCs, Dispatched, Results
  <2>4. OthersOK'
    BY <1>9 DEF AllocStackFails, Complete, EndRound, OthersOK
  <2>5. QED BY <2>1, <2>2, <2>3, <2>4
<1>10. CASE Requeue
  <2>0. cur \in Threads
    BY <1>10 DEF Requeue, EndRound, Places, Dispatched
  <2>1. ThreadsOK'
    BY <1>10, <2>0, YieldedType, ContextUpdates DEF Requeue, EndRound,
      ThreadsOK
  <2>2. ListsOK'
    BY <1>10, <2>0 DEF Requeue, EndRound, ListsOK, Relink
  <2>3. (EngineOK /\ Places)'
    BY <1>0, <1>10, <2>0 DEF Requeue, EndRound, EngineOK, Places, PCs,
      Dispatched, Results
  <2>4. OthersOK'
    BY <1>10 DEF Requeue, EndRound, OthersOK
  <2>5. QED BY <2>1, <2>2, <2>3, <2>4
<1>11. CASE Finish
  <2>0. cur \in Threads
    BY <1>11 DEF Finish, Complete, EndRound, Places, Dispatched
  <2>1. ThreadsOK'
    BY <1>11, <2>0, ContextUpdates DEF Finish, Complete, EndRound,
      ThreadsOK, EngineOK
  <2>2. ListsOK'
    BY <1>11 DEF Finish, Complete, EndRound, ListsOK
  <2>3. (EngineOK /\ Places)'
    BY <1>0, <1>11, <2>0 DEF Finish, Complete, EndRound, EngineOK, Places,
      PCs, Dispatched, Results
  <2>4. OthersOK'
    BY <1>11 DEF Finish, Complete, EndRound, OthersOK
  <2>5. QED BY <2>1, <2>2, <2>3, <2>4
<1>12. CASE Callback
  <2>1. ThreadsOK'
    BY <1>12 DEF Callback, EndRound, ThreadsOK
  <2>2. ListsOK'
    BY <1>12 DEF Callback, EndRound, ListsOK
  <2>3. (EngineOK /\ Places)'
    BY <1>0, <1>12 DEF Callback, EndRound, EngineOK, Places, PCs,
      Dispatched, Results
  <2>4. OthersOK'
    BY <1>12, CountType DEF Callback, EndRound, OthersOK
  <2>5. QED BY <2>1, <2>2, <2>3, <2>4
<1>13. CASE SignalWaiter
  <2>0. signaling \in Events /\ Head(waiters[signaling]) \in Threads /\ Tail(waiters[signaling]) \in Seq(Threads)
    BY <1>13 DEF SignalWaiter, ListsOK, Places
  <2>1. ThreadsOK'
    BY <1>13, <2>0, ContextUpdates DEF SignalWaiter, ThreadsOK
  <2>2. ListsOK'
    BY <1>13, <2>0 DEF SignalWaiter, ListsOK
  <2>3. (EngineOK /\ Places)'
    BY <1>0, <1>13 DEF SignalWaiter, EngineOK, Places, PCs, Dispatched
  <2>4. OthersOK'
    BY <1>13 DEF SignalWaiter, OthersOK
  <2>5. QED BY <2>1, <2>2, <2>3, <2>4
<1>14. CASE SignalDone
  <2>1. ThreadsOK'
    BY <1>14 DEF SignalDone, Goto, ThreadsOK
  <2>2. ListsOK'
    BY <1>14 DEF SignalDone, Goto, ListsOK
  <2>3. (EngineOK /\ Places)'
    BY <1>0, <1>14 DEF SignalDone, Goto, EngineOK, Places, PCs, Dispatched
  <2>4. OthersOK'
    BY <1>14 DEF SignalDone, Goto, OthersOK
  <2>5. QED BY <2>1, <2>2, <2>3, <2>4
<1>15. CASE SpawnClaim
  <2>0. slot \in Threads
    BY <1>15 DEF SpawnClaim, Goto, Places
  <2>1. ThreadsOK'
    BY <1>15, <2>0, ContextUpdates, NewContexts DEF SpawnClaim, Goto,
      ThreadsOK
  <2>2. ListsOK'
    BY <1>15, <2>0 DEF SpawnClaim, Goto, ListsOK
  <2>3. (EngineOK /\ Places)'
    BY <1>0, <1>15 DEF SpawnClaim, Goto, EngineOK, Places, PCs, Dispatched
  <2>4. OthersOK'
    BY <1>15 DEF SpawnClaim, Goto, OthersOK
  <2>5. QED BY <2>1, <2>2, <2>3, <2>4
<1>16. CASE SpawnFails
  <2>1. ThreadsOK'
    BY <1>16 DEF SpawnFails, Goto, ThreadsOK
  <2>2. ListsOK'
    BY <1>16 DEF SpawnFails, Goto, ListsOK
  <2>3. (EngineOK /\ Places)'
    BY <1>0, <1>16 DEF SpawnFails, Goto, EngineOK, Places, PCs, Dispatched
  <2>4. OthersOK'
    BY <1>16 DEF SpawnFails, Goto, OthersOK
  <2>5. QED BY <2>1, <2>2, <2>3, <2>4
<1>17. CASE ThreadWaitCheck
  <2>0. cur \in Threads
    BY <1>17 DEF ThreadWaitCheck, Places, Dispatched
  <2>1. ThreadsOK'
    <3>1. CASE Named /\ ~ NotifiedEarly
      <4>1. UNCHANGED threads
        BY <1>17, <3>1 DEF ThreadWaitCheck
      <4>2. QED BY <4>1 DEF ThreadsOK
    <3>2. CASE Named /\ NotifiedEarly
      <4>1. threads' = [threads EXCEPT ![cur] = [MakeReady(@) EXCEPT !.pending = FALSE]]
        BY <1>17, <3>2 DEF ThreadWaitCheck
      <4>2. QED BY <4>1, <2>0, ContextUpdates DEF ThreadsOK
    <3>3. CASE ~ Named
      <4>1. UNCHANGED threads
        BY <1>17, <3>3 DEF ThreadWaitCheck
      <4>2. QED BY <4>1 DEF ThreadsOK
    <3>4. QED BY <3>1, <3>2, <3>3
  <2>2. ListsOK'
    BY <1>17 DEF ThreadWaitCheck, ListsOK
  <2>3. (EngineOK /\ Places)'
    BY <1>0, <1>17 DEF ThreadWaitCheck, EngineOK, Places, PCs, Dispatched
  <2>4. OthersOK'
    BY <1>17 DEF ThreadWaitCheck, OthersOK
  <2>5. QED BY <2>1, <2>2, <2>3, <2>4
<1>18. CASE ThreadWaitPark
  <2>0. cur \in Threads
    BY <1>18 DEF ThreadWaitPark, Places, Dispatched
  <2>1. ThreadsOK'
    BY <1>18, <2>0, ContextUpdates DEF ThreadWaitPark, ThreadsOK, Kinds
  <2>2. ListsOK'
    BY <1>18 DEF ThreadWaitPark, ListsOK
  <2>3. (EngineOK /\ Places)'
    BY <1>0, <1>18 DEF ThreadWaitPark, EngineOK, Places, PCs, Dispatched
  <2>4. OthersOK'
    BY <1>18 DEF ThreadWaitPark, OthersOK
  <2>5. QED BY <2>1, <2>2, <2>3, <2>4
<1>19. CASE Yield
  <2>1. ThreadsOK'
    BY <1>19 DEF Yield, Returns, ThreadsOK
  <2>2. ListsOK'
    BY <1>19 DEF Yield, Returns, ListsOK
  <2>3. (EngineOK /\ Places)'
    BY <1>0, <1>19 DEF Yield, Returns, EngineOK, Places, PCs, Dispatched
  <2>4. OthersOK'
    BY <1>19 DEF Yield, Returns, OthersOK
  <2>5. QED BY <2>1, <2>2, <2>3, <2>4
<1>20. ASSUME NEW r \in Results, Return(r) PROVE TypeInv'
  <2>1. ThreadsOK'
    BY <1>20 DEF Return, Returns, ThreadsOK
  <2>2. ListsOK'
    BY <1>20 DEF Return, Returns, ListsOK
  <2>3. (EngineOK /\ Places)'
    BY <1>0, <1>20 DEF Return, Returns, EngineOK, Places, PCs, Dispatched
  <2>4. OthersOK'
    BY <1>20 DEF Return, Returns, OthersOK
  <2>5. QED BY <2>1, <2>2, <2>3, <2>4
<1>21. ASSUME NEW e \in Events, EventWait(e) PROVE TypeInv'
  <2>0. cur \in Threads
    BY <1>21 DEF EventWait, Returns, Places, Dispatched
  <2>1. ThreadsOK'
    <3>1. CASE ~ Named
      <4>1. UNCHANGED threads
        BY <1>21, <3>1 DEF EventWait, Returns
      <4>2. QED BY <4>1 DEF ThreadsOK
    <3>2. CASE Named /\ signaled[e]
      <4>1. threads' = [threads EXCEPT ![cur] = MakeReady(@)]
        BY <1>21, <3>2 DEF EventWait, Returns
      <4>2. QED BY <4>1, <2>0, ContextUpdates DEF ThreadsOK, Kinds
    <3>3. CASE Named /\ ~ signaled[e]
      <4>1. threads' = [threads EXCEPT ![cur].state = "Waiting",
                                       ![cur].kind = "Event"]
        BY <1>21, <3>3 DEF EventWait, Returns
      <4>2. QED BY <4>1, <2>0, ContextUpdates DEF ThreadsOK, Kinds
    <3>4. QED BY <3>1, <3>2, <3>3
  <2>2. ListsOK'
    <3>1. CASE ~ Named
      <4>1. UNCHANGED <<ready, timeouts, waiters>>
        BY <1>21, <3>1 DEF EventWait, Returns
      <4>2. QED BY <4>1 DEF ListsOK
    <3>2. CASE Named /\ signaled[e]
      <4>1. UNCHANGED <<ready, timeouts, waiters>>
        BY <1>21, <3>2 DEF EventWait, Returns
      <4>2. QED BY <4>1 DEF ListsOK
    <3>3. CASE Named /\ ~ signaled[e]
      <4>1. /\ waiters' = [waiters EXCEPT ![e] = Append(@, cur)]
            /\ UNCHANGED <<ready, timeouts>>
        BY <1>21, <3>3 DEF EventWait, Returns
      <4>2. QED BY <4>1, <2>0, AppendTyped DEF ListsOK
    <3>4. QED BY <3>1, <3>2, <3>3
  <2>3. (EngineOK /\ Places)'
    BY <1>0, <1>21 DEF EventWait, Returns, EngineOK, Places, PCs, Dispatched
  <2>4. OthersOK'
    BY <1>21 DEF EventWait, Returns, OthersOK
  <2>5. QED BY <2>1, <2>2, <2>3, <2>4
<1>22. ASSUME NEW d \in 0 .. MaxSleep, Sleep(d) PROVE TypeInv'
  <2>0. cur \in Threads
    BY <1>22 DEF Sleep, Returns, Places, Dispatched
  <2>1. ThreadsOK'
    <3>1. CASE Named
      <4>1. threads' = [threads EXCEPT ![cur].state = "Waiting",
                                       ![cur].kind = "Sleep", ![cur].wake = d]
        BY <1>22, <3>1 DEF Sleep, Returns
      <4>2. QED BY <4>1, <2>0, ContextUpdates DEF ThreadsOK
    <3>2. CASE ~ Named
      <4>1. UNCHANGED threads
        BY <1>22, <3>2 DEF Sleep, Returns
      <4>2. QED BY <4>1 DEF ThreadsOK
    <3>3. QED BY <3>1, <3>2
  <2>2. ListsOK'
    <3>1. CASE Named
      <4>1. /\ timeouts' = Append(timeouts, cur)
            /\ UNCHANGED <<ready, waiters>>
        BY <1>22, <3>1 DEF Sleep, Returns
      <4>2. QED BY <4>1, <2>0, AppendTyped DEF ListsOK
    <3>2. CASE ~ Named
      <4>1. UNCHANGED <<ready, timeouts, waiters>>
        BY <1>22, <3>2 DEF Sleep, Returns
      <4>2. QED BY <4>1 DEF ListsOK
    <3>3. QED BY <3>1, <3>2
  <2>3. (EngineOK /\ Places)'
    BY <1>0, <1>22 DEF Sleep, Returns, EngineOK, Places, PCs, Dispatched
  <2>4. OthersOK'
    BY <1>22 DEF Sleep, Returns, OthersOK
  <2>5. QED BY <2>1, <2>2, <2>3, <2>4
<1>23. CASE IoRegister
  <2>1. ThreadsOK'
    BY <1>23 DEF IoRegister, Goto, ThreadsOK
  <2>2. ListsOK'
    BY <1>23 DEF IoRegister, Goto, ListsOK
  <2>3. (EngineOK /\ Places)'
    BY <1>0, <1>23 DEF IoRegister, Goto, EngineOK, Places, PCs, Dispatched
  <2>4. OthersOK'
    BY <1>23 DEF IoRegister, Goto, OthersOK
  <2>5. QED BY <2>1, <2>2, <2>3, <2>4
<1>24. ASSUME NEW e \in Events, EventSignal(e) PROVE TypeInv'
  <2>1. ThreadsOK'
    BY <1>24 DEF EventSignal, Goto, ThreadsOK
  <2>2. ListsOK'
    BY <1>24 DEF EventSignal, Goto, ListsOK
  <2>3. (EngineOK /\ Places)'
    BY <1>0, <1>24 DEF EventSignal, Goto, EngineOK, Places, PCs, Dispatched
  <2>4. OthersOK'
    BY <1>24 DEF EventSignal, Goto, OthersOK
  <2>5. QED BY <2>1, <2>2, <2>3, <2>4
<1>25. CASE SpawnFind
  <2>0. slot' \in Threads
    BY <1>25, FirstSlotIsSlot DEF SpawnFind, Goto, SpawnSlots
  <2>1. ThreadsOK'
    BY <1>25 DEF SpawnFind, Goto, ThreadsOK
  <2>2. ListsOK'
    BY <1>25 DEF SpawnFind, Goto, ListsOK
  <2>3. (EngineOK /\ Places)'
    BY <1>0, <1>25, <2>0 DEF SpawnFind, Goto, EngineOK, Places, PCs,
      Dispatched
  <2>4. OthersOK'
    BY <1>25 DEF SpawnFind, Goto, OthersOK
  <2>5. QED BY <2>1, <2>2, <2>3, <2>4
<1>26. ASSUME NEW h \in Hosts, CreateHostThread(h) PROVE TypeInv'
  <2>0. FirstSlot(HostSlots) \in Threads
    BY <1>26, FirstSlotIsSlot DEF CreateHostThread, HostStep, HostSlots
  <2>1. ThreadsOK'
    BY <1>26, <2>0, NewContexts DEF CreateHostThread, HostStep, ThreadsOK
  <2>2. ListsOK'
    BY <1>26 DEF CreateHostThread, HostStep, ListsOK
  <2>3. (EngineOK /\ Places)'
    BY <1>0, <1>26 DEF CreateHostThread, HostStep, EngineOK, Places, PCs,
      Dispatched
  <2>4. OthersOK'
    BY <1>26, <2>0 DEF CreateHostThread, HostStep, OthersOK
  <2>5. QED BY <2>1, <2>2, <2>3, <2>4
<1>27. ASSUME NEW h \in Hosts, SetThreadCallback(h) PROVE TypeInv'
  <2>0. handle[h] \in Threads
    BY <1>27 DEF SetThreadCallback, HostStep, OthersOK
  <2>1. ThreadsOK'
    BY <1>27, <2>0, ContextUpdates DEF SetThreadCallback, HostStep,
      ThreadsOK
  <2>2. ListsOK'
    BY <1>27 DEF SetThreadCallback, HostStep, ListsOK
  <2>3. (EngineOK /\ Places)'
    BY <1>0, <1>27 DEF SetThreadCallback, HostStep, EngineOK, Places, PCs,
      Dispatched
  <2>4. OthersOK'
    BY <1>27 DEF SetThreadCallback, HostStep, OthersOK
  <2>5. QED BY <2>1, <2>2, <2>3, <2>4
<1>28. ASSUME NEW h \in Hosts, StartThreadCheck(h) PROVE TypeInv'
  <2>1. ThreadsOK'
    BY <1>28 DEF StartThreadCheck, HostStep, ThreadsOK
  <2>2. ListsOK'
    BY <1>28 DEF StartThreadCheck, HostStep, ListsOK
  <2>3. (EngineOK /\ Places)'
    BY <1>0, <1>28 DEF StartThreadCheck, HostStep, EngineOK, Places, PCs,
      Dispatched, OthersOK
  <2>4. OthersOK'
    BY <1>28 DEF StartThreadCheck, HostStep, OthersOK
  <2>5. QED BY <2>1, <2>2, <2>3, <2>4
<1>29. ASSUME NEW h \in Hosts, DestroyHostThread(h) PROVE TypeInv'
  <2>0. handle[h] \in Threads
    BY <1>29 DEF DestroyHostThread, HostStep, OthersOK
  <2>1. ThreadsOK'
    BY <1>29, <2>0, NewContexts DEF DestroyHostThread, HostStep, ThreadsOK
  <2>2. ListsOK'
    BY <1>29 DEF DestroyHostThread, HostStep, ListsOK
  <2>3. (EngineOK /\ Places)'
    BY <1>0, <1>29 DEF DestroyHostThread, HostStep, EngineOK, Places, PCs,
      Dispatched
  <2>4. OthersOK'
    BY <1>29 DEF DestroyHostThread, HostStep, OthersOK
  <2>5. QED BY <2>1, <2>2, <2>3, <2>4
<1>30. ASSUME NEW h \in Hosts, Stop(h) PROVE TypeInv'
  <2>1. ThreadsOK'
    BY <1>30 DEF Stop, HostStep, ThreadsOK
  <2>2. ListsOK'
    BY <1>30 DEF Stop, HostStep, ListsOK
  <2>3. (EngineOK /\ Places)'
    BY <1>0, <1>30 DEF Stop, HostStep, EngineOK, Places, PCs, Dispatched
  <2>4. OthersOK'
    BY <1>30 DEF Stop, HostStep, OthersOK
  <2>5. QED BY <2>1, <2>2, <2>3, <2>4
<1>31. ASSUME NEW h \in Hosts, StartThread(h) PROVE TypeInv'
  <2>0. handle[h] \in Threads
    BY <1>31 DEF StartThread, HostStep, Places
  <2>1. ThreadsOK'
    BY <1>31, <2>0, ContextUpdates DEF StartThread, HostStep, ThreadsOK,
      States
  <2>2. ListsOK'
    BY <1>31, <2>0 DEF StartThread, HostStep, ListsOK
  <2>3. (EngineOK /\ Places)'
    BY <1>0, <1>31 DEF StartThread, HostStep, EngineOK, Places, PCs,
      Dispatched
  <2>4. OthersOK'
    BY <1>31 DEF StartThread, HostStep, OthersOK
  <2>5. QED BY <2>1, <2>2, <2>3, <2>4
<1>32. ASSUME NEW h \in Hosts, HostNotifyActivity(h) PROVE TypeInv'
  <2>1. ThreadsOK'
    BY <1>32 DEF HostNotifyActivity, HostStep, ThreadsOK
  <2>2. ListsOK'
    BY <1>32 DEF HostNotifyActivity, HostStep, ListsOK
  <2>3. (EngineOK /\ Places)'
    BY <1>0, <1>32 DEF HostNotifyActivity, HostStep, EngineOK, Places, PCs,
      Dispatched
  <2>4. OthersOK'
    BY <1>32 DEF HostNotifyActivity, HostStep, OthersOK
  <2>5. QED BY <2>1, <2>2, <2>3, <2>4
<1>33. ASSUME NEW t \in Threads, ThreadNotify(t) PROVE TypeInv'
  <2>1. ThreadsOK'
    <3>1. CASE threads[t].state = "Waiting" /\ threads[t].kind = "Notify"
      <4>1. threads' = [threads EXCEPT ![t] = MakeReady(@)]
        BY <1>33, <3>1 DEF ThreadNotify
      <4>2. QED BY <4>1, ContextUpdates DEF ThreadsOK
    <3>2. CASE ~ (threads[t].state = "Waiting" /\ threads[t].kind = "Notify")
      <4>1. threads' = [threads EXCEPT ![t].pending = TRUE]
        BY <1>33, <3>2 DEF ThreadNotify
      <4>2. QED BY <4>1, ContextUpdates DEF ThreadsOK
    <3>3. QED BY <3>1, <3>2
  <2>2. ListsOK'
    <3>1. CASE threads[t].state = "Waiting" /\ threads[t].kind = "Notify"
      <4>1. /\ ready' = Append(ready, t)
            /\ UNCHANGED <<timeouts, waiters>>
        BY <1>33, <3>1 DEF ThreadNotify
      <4>2. QED BY <4>1, AppendTyped DEF ListsOK
    <3>2. CASE ~ (threads[t].state = "Waiting" /\ threads[t].kind = "Notify")
      <4>1. UNCHANGED <<ready, timeouts, waiters>>
        BY <1>33, <3>2 DEF ThreadNotify
      <4>2. QED BY <4>1 DEF ListsOK
    <3>3. QED BY <3>1, <3>2
  <2>3. (EngineOK /\ Places)'
    BY <1>0, <1>33 DEF ThreadNotify, EngineOK, Places, PCs, Dispatched
  <2>4. OthersOK'
    BY <1>33 DEF ThreadNotify, OthersOK
  <2>5. QED BY <2>1, <2>2, <2>3, <2>4
<1>34. ASSUME NEW t \in Threads, IoNotifyActivity(t) PROVE TypeInv'
  <2>1. ThreadsOK'
    BY <1>34 DEF IoNotifyActivity, ThreadsOK
  <2>2. ListsOK'
    BY <1>34 DEF IoNotifyActivity, ListsOK
  <2>3. (EngineOK /\ Places)'
    BY <1>0, <1>34 DEF IoNotifyActivity, EngineOK, Places, PCs, Dispatched
  <2>4. OthersOK'
    BY <1>34 DEF IoNotifyActivity, OthersOK
  <2>5. QED BY <2>1, <2>2, <2>3, <2>4
<1>35. CASE Tick
  <2>1. ThreadsOK'
    BY <1>35, <1>0, TickedType DEF Tick, ThreadsOK
  <2>2. ListsOK'
    BY <1>35 DEF Tick, ListsOK
  <2>3. (EngineOK /\ Places)'
    BY <1>0, <1>35, MinusType DEF Tick, EngineOK, Places, PCs, Dispatched,
      Forever, SchedulerAssumption, Minus1
  <2>4. OthersOK'
    BY <1>35 DEF Tick, OthersOK
  <2>5. QED BY <2>1, <2>2, <2>3, <2>4
<1>36. CASE UNCHANGED vars
  BY <1>36 DEF vars, ThreadsOK, ListsOK, EngineOK, OthersOK, Places
<1>37. QED
    BY <1>1, <1>2, <1>3, <1>4, <1>5, <1>6, <1>7, <1>8, <1>9, <1>10, <1>11,
      <1>12, <1>13, <1>14, <1>15, <1>16, <1>17, <1>18, <1>19, <1>20, <1>21,
      <1>22, <1>23, <1>24, <1>25, <1>26, <1>27, <1>28, <1>29, <1>30, <1>31,
      <1>32, <1>33, <1>34, <1>35, <1>36 DEF Next, EngineStep, GuestLeaves,
      GuestGoesOn, HostStarts, HostFinishes, IoFinishes
-----------------------------------------------------------------------------
(* The inductive step of IInv, by actor.  Each step first says what the     *)
(* action does to the lists and to the one context it touches; the          *)
(* conjuncts of IInv follow from that.                                    *)

OnlyAt(t) == \A u \in Threads \ {t} : threads'[u] = threads[u]

Keeps(t) == /\ threads'[t].id = threads[t].id
            /\ threads'[t].owned = threads[t].owned

KeepsPending(t) == threads'[t].pending = threads[t].pending

LEMMA EngineKeepsSafety ==
  ASSUME SchedulerAssumption, Windows = {}, IInv, TypeInv', EngineStep
  PROVE  SafetyInv'
<1> USE DEF others, host, lists, platform, scratch, engine
<1>0. /\ NoThread \notin Threads /\ NoEvent \notin Events
      /\ ThreadsOK /\ ListsOK /\ EngineOK /\ OthersOK /\ Places
      /\ EngineOK' /\ Places'
      /\ QueuesMatchStates /\ EngineInv /\ HostsKnow /\ IoInv /\ HandlesExclusive
  BY DEF Threads, Events, NoThread, NoEvent, SchedulerAssumption, IInv, SafetyInv,
     TypeInv, TypeOK
<1>1. CASE LoopTop
  BY <1>0, <1>1 DEF LoopTop, SafetyInv, QueuesMatchStates, ReadyMatches,
     TimeoutsMatch, WaitersMatch, Waits, InHand, EngineInv, EngineKnows,
     OneRunning, NoWaiterOfSignaled, Places, Dispatched, HostsKnow, Places,
     OthersOK, IoInv, IoKnows, NoLostNotify, Waits, Named, HandlesExclusive,
     Mine, OthersOK
<1>2. CASE PollDone
  BY <1>0, <1>2 DEF PollDone, Goto, SafetyInv, QueuesMatchStates,
     ReadyMatches, TimeoutsMatch, WaitersMatch, Waits, InHand, EngineInv,
     EngineKnows, OneRunning, NoWaiterOfSignaled, Places, Dispatched,
     HostsKnow, Places, OthersOK, IoInv, IoKnows, NoLostNotify, Waits,
     Named, HandlesExclusive, Mine, OthersOK
<1>3. CASE PickNone
  BY <1>0, <1>3 DEF PickNone, Goto, SafetyInv, QueuesMatchStates,
     ReadyMatches, TimeoutsMatch, WaitersMatch, Waits, InHand, EngineInv,
     EngineKnows, OneRunning, NoWaiterOfSignaled, Places, Dispatched,
     HostsKnow, Places, OthersOK, IoInv, IoKnows, NoLostNotify, Waits,
     Named, HandlesExclusive, Mine, OthersOK
<1>4. CASE WakeUp
  BY <1>0, <1>4 DEF WakeUp, Goto, SafetyInv, QueuesMatchStates,
     ReadyMatches, TimeoutsMatch, WaitersMatch, Waits, InHand, EngineInv,
     EngineKnows, OneRunning, NoWaiterOfSignaled, Places, Dispatched,
     HostsKnow, Places, OthersOK, IoInv, IoKnows, NoLostNotify, Waits,
     Named, HandlesExclusive, Mine, OthersOK
<1>5. CASE SignalDone
  BY <1>0, <1>5 DEF SignalDone, Goto, SafetyInv, QueuesMatchStates,
     ReadyMatches, TimeoutsMatch, WaitersMatch, Waits, InHand, EngineInv,
     EngineKnows, OneRunning, NoWaiterOfSignaled, Places, Dispatched,
     HostsKnow, Places, OthersOK, IoInv, IoKnows, NoLostNotify, Waits,
     Named, HandlesExclusive, Mine, OthersOK
<1>6. CASE SpawnFails
  BY <1>0, <1>6 DEF SpawnFails, Goto, SafetyInv, QueuesMatchStates,
     ReadyMatches, TimeoutsMatch, WaitersMatch, Waits, InHand, EngineInv,
     EngineKnows, OneRunning, NoWaiterOfSignaled, Places, Dispatched,
     HostsKnow, Places, OthersOK, IoInv, IoKnows, NoLostNotify, Waits,
     Named, HandlesExclusive, Mine, OthersOK
<1>7. CASE Callback
  BY <1>0, <1>7 DEF Callback, EndRound, SafetyInv, QueuesMatchStates,
     ReadyMatches, TimeoutsMatch, WaitersMatch, Waits, InHand, EngineInv,
     EngineKnows, OneRunning, NoWaiterOfSignaled, Places, Dispatched,
     HostsKnow, Places, OthersOK, IoInv, IoKnows, NoLostNotify, Waits,
     Named, HandlesExclusive, Mine, OthersOK
<1>8. CASE PollExpired /\ threads[timeouts[cursor]].wake # 0
  <2>1. UNCHANGED <<threads, ready, timeouts, waiters, signaled, signaling, pc, cur, res,
                     slot, io, hpc, handle>>
    BY <1>0, <1>8 DEF PollExpired
  <2>2. QueuesMatchStates'
    BY <1>0, <2>1 DEF QueuesMatchStates, ReadyMatches, TimeoutsMatch,
       WaitersMatch, Waits, InHand, OnlyAt
  <2>3. EngineInv'
    BY <1>0, <2>1 DEF EngineInv, EngineKnows, OneRunning,
       NoWaiterOfSignaled, Places, Dispatched, OnlyAt
  <2>4. HostsKnow'
    BY <1>0, <2>1 DEF HostsKnow, Places, OthersOK, OnlyAt
  <2>5. IoInv'
    BY <1>0, <2>1 DEF IoInv, IoKnows, NoLostNotify, Waits, Named, OnlyAt,
       KeepsPending, Keeps
  <2>6. HandlesExclusive'
    BY <1>0, <2>1 DEF HandlesExclusive, Mine, OthersOK, OnlyAt, Keeps
  <2>7. QED BY <2>2, <2>3, <2>4, <2>5, <2>6 DEF SafetyInv
<1>9. CASE PollExpired /\ threads[timeouts[cursor]].wake = 0
  <2> DEFINE t == timeouts[cursor]
  <2>1. /\ pc = "poll" /\ cursor \in 1 .. Len(timeouts)
        /\ ready' = Append(ready, t) /\ timeouts' = Unlink(timeouts, cursor)
        /\ threads' = [threads EXCEPT ![t] = MakeReady(@)]
        /\ UNCHANGED <<waiters, signaled, signaling, pc, cur, res, slot, io, hpc, handle>>
    BY <1>0, <1>9 DEF PollExpired, EngineOK
  <2>2. /\ t \in Threads /\ Waits(t, "Sleep")
    BY <1>0, <2>1 DEF ListsOK, QueuesMatchStates, TimeoutsMatch, Linked
  <2>3. /\ NoDuplicates(timeouts')
        /\ \A u : Linked(u, timeouts') <=> Linked(u, timeouts) /\ u # t
    BY <1>0, <2>1, <2>2, UnlinkRemoves DEF ListsOK, QueuesMatchStates,
       TimeoutsMatch
  <2>4. /\ NoDuplicates(ready')
        /\ \A u : Linked(u, ready') <=> Linked(u, ready) \/ u = t
    BY <1>0, <2>1, <2>2, <2>3, AppendLinks DEF ListsOK, Waits,
       QueuesMatchStates, ReadyMatches
  <2>5. /\ OnlyAt(t) /\ Keeps(t) /\ KeepsPending(t)
        /\ threads'[t].state = "Ready" /\ threads'[t].kind = "None"
    BY <1>0, <2>1, <2>2, <2>3, <2>4 DEF MakeReady, ThreadsOK, Context,
       OnlyAt, Keeps, KeepsPending
  <2> HIDE DEF t
  <2>6. QueuesMatchStates'
    BY <1>0, <2>1, <2>2, <2>3, <2>4, <2>5 DEF QueuesMatchStates,
       ReadyMatches, TimeoutsMatch, WaitersMatch, Waits, InHand, OnlyAt
  <2>7. EngineInv'
    BY <1>0, <2>1, <2>2, <2>3, <2>4, <2>5 DEF EngineInv, EngineKnows,
       OneRunning, NoWaiterOfSignaled, Places, Dispatched, OnlyAt
  <2>8. HostsKnow'
    BY <1>0, <2>1, <2>2, <2>3, <2>4, <2>5 DEF HostsKnow, Places, OthersOK,
       OnlyAt, Waits
  <2>9. IoInv'
    BY <1>0, <2>1, <2>2, <2>3, <2>4, <2>5 DEF IoInv, IoKnows, NoLostNotify,
       Waits, Named, OnlyAt, KeepsPending, Keeps
  <2>10. HandlesExclusive'
    BY <1>0, <2>1, <2>2, <2>3, <2>4, <2>5 DEF HandlesExclusive, Mine,
       OthersOK, OnlyAt, Keeps
  <2>11. QED BY <2>6, <2>7, <2>8, <2>9, <2>10 DEF SafetyInv
<1>10. CASE Pick
  <2> DEFINE t == Head(ready)
  <2>1. /\ t \in Threads /\ Linked(t, ready)
        /\ NoDuplicates(ready')
        /\ \A u : Linked(u, ready') <=> Linked(u, ready) /\ u # t
    BY <1>0, <1>10, TailUnlinks DEF Pick, ListsOK, QueuesMatchStates,
       ReadyMatches
  <2>2. /\ OnlyAt(t) /\ Keeps(t) /\ KeepsPending(t)
        /\ threads'[t].state = "Running" /\ threads'[t].kind = threads[t].kind
        /\ threads[t].state = "Ready"
    BY <1>0, <1>10, <2>1 DEF Pick, ThreadsOK, Context, OnlyAt, Keeps,
       KeepsPending, QueuesMatchStates, ReadyMatches
  <2>3. /\ pc = "pick" /\ pc' \in {"alloc", "run"} /\ cur' = t
        /\ UNCHANGED <<timeouts, waiters, signaled, signaling, io, hpc, handle>>
    BY <1>0, <1>10, <2>1, <2>2 DEF Pick
  <2> HIDE DEF t
  <2>4. QueuesMatchStates'
    BY <1>0, <2>1, <2>2, <2>3 DEF QueuesMatchStates, ReadyMatches,
       TimeoutsMatch, WaitersMatch, Waits, InHand, OnlyAt
  <2>5. EngineInv'
    BY <1>0, <2>1, <2>2, <2>3 DEF EngineInv, EngineKnows, OneRunning,
       NoWaiterOfSignaled, Places, Dispatched, OnlyAt
  <2>6. HostsKnow'
    BY <1>0, <2>1, <2>2, <2>3 DEF HostsKnow, Places, OthersOK, OnlyAt
  <2>7. IoInv'
    BY <1>0, <2>1, <2>2, <2>3 DEF IoInv, IoKnows, NoLostNotify, Waits,
       Named, OnlyAt, KeepsPending, Keeps
  <2>8. HandlesExclusive'
    BY <1>0, <2>1, <2>2, <2>3 DEF HandlesExclusive, Mine, OthersOK, OnlyAt,
       Keeps
  <2>9. QED BY <2>4, <2>5, <2>6, <2>7, <2>8 DEF SafetyInv
<1>11. CASE AllocStack
  <2>1. cur \in Threads /\ threads[cur].state = "Running"
    BY <1>0, <1>11 DEF AllocStack, Goto, EngineInv, EngineKnows, Places,
       Dispatched
  <2>2. /\ OnlyAt(cur) /\ Keeps(cur) /\ KeepsPending(cur)
        /\ threads'[cur].state = "Running" /\ threads'[cur].kind = threads[cur].kind
    BY <1>0, <1>11, <2>1 DEF AllocStack, Goto, ThreadsOK, Context, OnlyAt,
       Keeps, KeepsPending
  <2>3. /\ pc = "alloc" /\ pc' = "run"
        /\ UNCHANGED <<ready, timeouts, waiters, signaled, signaling, cur, io, hpc, handle>>
    BY <1>0, <1>11, <2>1, <2>2 DEF AllocStack, Goto
  <2>4. QueuesMatchStates'
    BY <1>0, <2>1, <2>2, <2>3 DEF QueuesMatchStates, ReadyMatches,
       TimeoutsMatch, WaitersMatch, Waits, InHand, OnlyAt
  <2>5. EngineInv'
    BY <1>0, <2>1, <2>2, <2>3 DEF EngineInv, EngineKnows, OneRunning,
       NoWaiterOfSignaled, Places, Dispatched, OnlyAt
  <2>6. HostsKnow'
    BY <1>0, <2>1, <2>2, <2>3 DEF HostsKnow, Places, OthersOK, OnlyAt
  <2>7. IoInv'
    BY <1>0, <2>1, <2>2, <2>3 DEF IoInv, IoKnows, NoLostNotify, Waits,
       Named, OnlyAt, KeepsPending, Keeps
  <2>8. HandlesExclusive'
    BY <1>0, <2>1, <2>2, <2>3 DEF HandlesExclusive, Mine, OthersOK, OnlyAt,
       Keeps
  <2>9. QED BY <2>4, <2>5, <2>6, <2>7, <2>8 DEF SafetyInv
<1>12. CASE AllocStackFails
  <2>1. cur \in Threads /\ threads[cur].state = "Running"
    BY <1>0, <1>12 DEF AllocStackFails, Complete, EngineInv, EngineKnows,
       Places, Dispatched
  <2>2. /\ OnlyAt(cur) /\ Keeps(cur) /\ KeepsPending(cur)
        /\ threads'[cur].state = "Terminated" /\ threads'[cur].kind = threads[cur].kind
    BY <1>0, <1>12, <2>1 DEF AllocStackFails, Complete, ThreadsOK, Context,
       OnlyAt, Keeps, KeepsPending, Terminate
  <2>3. /\ pc \in {"alloc", "after"}
        /\ \/ pc' \in {"top", "idle"} /\ cur' = NoThread
           \/ pc' = "callback" /\ cur' = cur
        /\ UNCHANGED <<ready, timeouts, waiters, signaled, signaling, io, hpc, handle>>
    BY <1>0, <1>12, <2>1, <2>2 DEF AllocStackFails, Complete, EndRound
  <2>4. QueuesMatchStates'
    BY <1>0, <2>1, <2>2, <2>3 DEF QueuesMatchStates, ReadyMatches,
       TimeoutsMatch, WaitersMatch, Waits, InHand, OnlyAt
  <2>5. EngineInv'
    BY <1>0, <2>1, <2>2, <2>3 DEF EngineInv, EngineKnows, OneRunning,
       NoWaiterOfSignaled, Places, Dispatched, OnlyAt
  <2>6. HostsKnow'
    BY <1>0, <2>1, <2>2, <2>3 DEF HostsKnow, Places, OthersOK, OnlyAt
  <2>7. IoInv'
    BY <1>0, <2>1, <2>2, <2>3 DEF IoInv, IoKnows, NoLostNotify, Waits,
       Named, OnlyAt, KeepsPending, Keeps
  <2>8. HandlesExclusive'
    BY <1>0, <2>1, <2>2, <2>3 DEF HandlesExclusive, Mine, OthersOK, OnlyAt,
       Keeps
  <2>9. QED BY <2>4, <2>5, <2>6, <2>7, <2>8 DEF SafetyInv
<1>13. CASE Finish
  <2>1. cur \in Threads /\ threads[cur].state = "Running"
    BY <1>0, <1>13 DEF Finish, Complete, EngineInv, EngineKnows, Places,
       Dispatched
  <2>2. /\ OnlyAt(cur) /\ Keeps(cur) /\ KeepsPending(cur)
        /\ threads'[cur].state = "Terminated" /\ threads'[cur].kind = threads[cur].kind
    BY <1>0, <1>13, <2>1 DEF Finish, Complete, ThreadsOK, Context, OnlyAt,
       Keeps, KeepsPending, Terminate
  <2>3. /\ pc \in {"alloc", "after"}
        /\ \/ pc' \in {"top", "idle"} /\ cur' = NoThread
           \/ pc' = "callback" /\ cur' = cur
        /\ UNCHANGED <<ready, timeouts, waiters, signaled, signaling, io, hpc, handle>>
    BY <1>0, <1>13, <2>1, <2>2 DEF Finish, Complete, EndRound
  <2>4. QueuesMatchStates'
    BY <1>0, <2>1, <2>2, <2>3 DEF QueuesMatchStates, ReadyMatches,
       TimeoutsMatch, WaitersMatch, Waits, InHand, OnlyAt
  <2>5. EngineInv'
    BY <1>0, <2>1, <2>2, <2>3 DEF EngineInv, EngineKnows, OneRunning,
       NoWaiterOfSignaled, Places, Dispatched, OnlyAt
  <2>6. HostsKnow'
    BY <1>0, <2>1, <2>2, <2>3 DEF HostsKnow, Places, OthersOK, OnlyAt
  <2>7. IoInv'
    BY <1>0, <2>1, <2>2, <2>3 DEF IoInv, IoKnows, NoLostNotify, Waits,
       Named, OnlyAt, KeepsPending, Keeps
  <2>8. HandlesExclusive'
    BY <1>0, <2>1, <2>2, <2>3 DEF HandlesExclusive, Mine, OthersOK, OnlyAt,
       Keeps
  <2>9. QED BY <2>4, <2>5, <2>6, <2>7, <2>8 DEF SafetyInv
<1>14. CASE Requeue
  <2>1. /\ cur \in Threads /\ pc = "after" /\ ~ Linked(cur, ready)
        /\ threads[cur].state \in {"Running", "Ready", "Waiting"}
    BY <1>0, <1>14 DEF Requeue, EngineInv, EngineKnows, Places, Dispatched,
       InHand, QueuesMatchStates, ReadyMatches
  <2>2. /\ OnlyAt(cur) /\ Keeps(cur) /\ KeepsPending(cur)
        /\ threads'[cur].state \in {"Ready", "Waiting"}
        /\ threads'[cur].state = "Waiting" <=> threads[cur].state = "Waiting"
        /\ threads'[cur].kind = threads[cur].kind
    BY <1>0, <1>14, <2>1 DEF Requeue, Yielded, ThreadsOK, Context, OnlyAt,
       Keeps, KeepsPending
  <2>3. /\ pc' = "top" /\ cur' = NoThread
        /\ ready' = Relink(ready, cur, threads'[cur].state)
        /\ UNCHANGED <<timeouts, waiters, signaled, signaling, io, hpc, handle>>
    BY <1>0, <1>14, <2>1, <2>2 DEF Requeue, EndRound, ThreadsOK, Context
  <2>4. /\ NoDuplicates(ready')
        /\ \A u : Linked(u, ready') <=>
                   Linked(u, ready) \/ (u = cur /\ threads'[cur].state = "Ready")
    <3>1. CASE threads'[cur].state = "Ready"
      <4>1. ready' = Append(ready, cur)
        BY <2>3, <3>1 DEF Relink
      <4>2. QED
        BY <1>0, <2>1, <3>1, <4>1, AppendLinks
        DEF ListsOK, QueuesMatchStates, ReadyMatches
    <3>2. CASE threads'[cur].state # "Ready"
      <4>1. ready' = ready
        BY <2>3, <3>2 DEF Relink
      <4>2. QED BY <1>0, <3>2, <4>1 DEF QueuesMatchStates, ReadyMatches
    <3>3. QED BY <3>1, <3>2
  <2>5. QueuesMatchStates'
    <3>1. ReadyMatches'
      BY <1>0, <2>1, <2>2, <2>3, <2>4 DEF QueuesMatchStates, ReadyMatches,
         InHand, OnlyAt
    <3>2. TimeoutsMatch'
      BY <1>0, <2>1, <2>2, <2>3, <2>4 DEF QueuesMatchStates, TimeoutsMatch,
         Waits, OnlyAt
    <3>3. WaitersMatch'
      BY <1>0, <2>1, <2>2, <2>3, <2>4 DEF QueuesMatchStates, WaitersMatch,
         Waits, OnlyAt
    <3>4. QED BY <3>1, <3>2, <3>3 DEF QueuesMatchStates
  <2>6. EngineInv'
    BY <1>0, <2>1, <2>2, <2>3, <2>4 DEF EngineInv, EngineKnows, OneRunning,
       NoWaiterOfSignaled, Places, Dispatched, OnlyAt
  <2>7. HostsKnow'
    BY <1>0, <2>1, <2>2, <2>3, <2>4 DEF HostsKnow, Places, OthersOK, OnlyAt
  <2>8. IoInv'
    BY <1>0, <2>1, <2>2, <2>3, <2>4 DEF IoInv, IoKnows, NoLostNotify, Waits,
       Named, OnlyAt, KeepsPending, Keeps
  <2>9. HandlesExclusive'
    BY <1>0, <2>1, <2>2, <2>3, <2>4 DEF HandlesExclusive, Mine, OthersOK,
       OnlyAt, Keeps
  <2>10. QED BY <2>5, <2>6, <2>7, <2>8, <2>9 DEF SafetyInv
<1>15. CASE SignalWaiter
  <2> DEFINE t == Head(waiters[signaling])
  <2>1. /\ pc = "signal" /\ signaling \in Events
        /\ UNCHANGED <<timeouts, signaled, signaling, pc, cur, io, hpc, handle>>
    BY <1>0, <1>15 DEF SignalWaiter, Places
  <2>2. /\ waiters[signaling] # << >> /\ waiters[signaling] \in Seq(Threads)
        /\ waiters' = [waiters EXCEPT ![signaling] = Tail(@)]
        /\ ready' = Append(ready, t)
    BY <1>0, <1>15, <2>1 DEF SignalWaiter, ListsOK
  <2>3. t \in Threads /\ Waits(t, "Event") /\ Linked(t, waiters[signaling])
    BY <1>0, <2>1, <2>2, TailUnlinks DEF QueuesMatchStates, WaitersMatch
  <2>4. /\ NoDuplicates(waiters'[signaling])
        /\ \A e \in Events \ {signaling} : waiters'[e] = waiters[e]
        /\ \A u : Linked(u, waiters'[signaling]) <=>
                   Linked(u, waiters[signaling]) /\ u # t
    BY <1>0, <2>1, <2>2, <2>3, TailUnlinks DEF QueuesMatchStates,
       WaitersMatch, ListsOK
  <2>5. /\ NoDuplicates(ready')
        /\ \A u : Linked(u, ready') <=> Linked(u, ready) \/ u = t
    BY <1>0, <2>1, <2>2, <2>3, <2>4, AppendLinks DEF ListsOK, Waits,
       QueuesMatchStates, ReadyMatches
  <2>6. /\ OnlyAt(t) /\ Keeps(t) /\ KeepsPending(t)
        /\ threads'[t].state = "Ready" /\ threads'[t].kind = "None"
    BY <1>0, <1>15, <2>1, <2>2, <2>3, <2>4, <2>5 DEF SignalWaiter,
       MakeReady, ThreadsOK, Context, OnlyAt, Keeps, KeepsPending
  <2> HIDE DEF t
  <2>7. QueuesMatchStates'
    <3>1. ReadyMatches'
      BY <1>0, <2>1, <2>3, <2>4, <2>5, <2>6 DEF QueuesMatchStates,
         ReadyMatches, InHand, OnlyAt
    <3>2. TimeoutsMatch'
      BY <1>0, <2>1, <2>3, <2>4, <2>5, <2>6 DEF QueuesMatchStates,
         TimeoutsMatch, Waits, OnlyAt
    <3>3. WaitersMatch'
      BY <1>0, <2>1, <2>3, <2>4, <2>5, <2>6 DEF QueuesMatchStates,
         WaitersMatch, Waits, OnlyAt
    <3>4. QED BY <3>1, <3>2, <3>3 DEF QueuesMatchStates
  <2>8. EngineInv'
    BY <1>0, <2>1, <2>3, <2>4, <2>6 DEF EngineInv, EngineKnows, OneRunning,
       NoWaiterOfSignaled, Places, Dispatched, OnlyAt, Waits
  <2>9. HostsKnow'
    BY <1>0, <2>1, <2>3, <2>6 DEF HostsKnow, Places, OthersOK, OnlyAt, Waits
  <2>10. IoInv'
    BY <1>0, <2>1, <2>3, <2>6 DEF IoInv, IoKnows, NoLostNotify, Waits,
       Named, OnlyAt, KeepsPending, Keeps
  <2>11. HandlesExclusive'
    BY <1>0, <2>1, <2>3, <2>6 DEF HandlesExclusive, Mine, OthersOK, OnlyAt,
       Keeps
  <2>12. QED BY <2>7, <2>8, <2>9, <2>10, <2>11 DEF SafetyInv
<1>16. CASE SpawnClaim
  <2>1. /\ slot \in Threads /\ threads[slot].state \in {"Null", "Terminated"}
        /\ pc = "spawn" /\ pc' = "run"
        /\ ready' = Append(ready, slot)
        /\ UNCHANGED <<timeouts, waiters, signaled, signaling, cur, io, hpc, handle>>
    BY <1>0, <1>16 DEF SpawnClaim, Goto, EngineInv, EngineKnows, Places
  <2>2. /\ NoDuplicates(ready')
        /\ \A u : Linked(u, ready') <=> Linked(u, ready) \/ u = slot
    BY <1>0, <2>1, AppendLinks DEF ListsOK, QueuesMatchStates, ReadyMatches
  <2>3. /\ OnlyAt(slot) /\ threads'[slot].state = "Ready"
        /\ threads[slot].state # "Null" => Keeps(slot)
    <3>1. CASE threads[slot].state = "Null"
      <4>1. threads' = [threads EXCEPT ![slot] = Claimed([Reset EXCEPT !.id = slot])]
        BY <1>16, <3>1 DEF SpawnClaim
      <4>2. QED BY <1>0, <2>1, <3>1, <4>1 DEF Claimed, Reset, ThreadsOK, OnlyAt
    <3>2. CASE threads[slot].state # "Null"
      <4>1. threads' = [threads EXCEPT ![slot] = Claimed(@)]
        BY <1>16, <3>2 DEF SpawnClaim
      <4>2. QED
        BY <1>0, <2>1, <4>1 DEF Claimed, ThreadsOK, Context, OnlyAt, Keeps
    <3>3. QED BY <3>1, <3>2
  <2>4. QueuesMatchStates'
    BY <1>0, <2>1, <2>2, <2>3 DEF QueuesMatchStates, ReadyMatches,
       TimeoutsMatch, WaitersMatch, Waits, InHand, OnlyAt
  <2>5. EngineInv'
    BY <1>0, <2>1, <2>2, <2>3 DEF EngineInv, EngineKnows, OneRunning,
       NoWaiterOfSignaled, Places, Dispatched, OnlyAt
  <2>6. HostsKnow'
    BY <1>0, <2>1, <2>2, <2>3 DEF HostsKnow, Places, OthersOK, OnlyAt
  <2>7. IoInv'
    BY <1>0, <2>1, <2>2, <2>3 DEF IoInv, IoKnows, NoLostNotify, Waits,
       Named, OnlyAt, KeepsPending, Keeps
  <2>8. HandlesExclusive'
    BY <1>0, <2>1, <2>2, <2>3 DEF HandlesExclusive, Mine, OthersOK, OnlyAt,
       Keeps, HostsKnow
  <2>9. QED BY <2>4, <2>5, <2>6, <2>7, <2>8 DEF SafetyInv
<1>17. CASE ThreadWaitCheck /\ Named /\ ~ NotifiedEarly
  BY <1>0, <1>17 DEF ThreadWaitCheck, NotifiedEarly, SafetyInv,
     QueuesMatchStates, ReadyMatches, TimeoutsMatch, WaitersMatch, Waits,
     InHand, EngineInv, EngineKnows, OneRunning, NoWaiterOfSignaled, Places,
     Dispatched, HostsKnow, Places, OthersOK, IoInv, IoKnows, NoLostNotify,
     Waits, Named, HandlesExclusive, Mine, OthersOK
<1>18. CASE ThreadWaitCheck /\ ~ Named
  BY <1>0, <1>18 DEF ThreadWaitCheck, NotifiedEarly, SafetyInv,
     QueuesMatchStates, ReadyMatches, TimeoutsMatch, WaitersMatch, Waits,
     InHand, EngineInv, EngineKnows, OneRunning, NoWaiterOfSignaled, Places,
     Dispatched, HostsKnow, Places, OthersOK, IoInv, IoKnows, NoLostNotify,
     Waits, Named, HandlesExclusive, Mine, OthersOK
<1>19. CASE ThreadWaitCheck /\ Named /\ NotifiedEarly
  <2>1. cur \in Threads /\ threads[cur].state = "Running"
    BY <1>0, <1>19 DEF ThreadWaitCheck, EngineInv, EngineKnows, Places,
       Dispatched
  <2>2. /\ pc = "iowait" /\ pc' = "after" /\ res' = "yield"
        /\ threads' = [threads EXCEPT ![cur] = [MakeReady(@) EXCEPT !.pending = FALSE]]
        /\ UNCHANGED <<ready, timeouts, waiters, signaled, signaling, cur, io, hpc, handle>>
    BY <1>0, <1>19, <2>1 DEF ThreadWaitCheck
  <2>3. /\ OnlyAt(cur) /\ Keeps(cur)
        /\ threads'[cur].state = "Ready" /\ threads'[cur].kind = "None"
    BY <1>0, <2>1, <2>2 DEF MakeReady, ThreadsOK, Context, OnlyAt, Keeps,
       KeepsPending
  <2>4. QueuesMatchStates'
    BY <1>0, <2>1, <2>2, <2>3 DEF QueuesMatchStates, ReadyMatches,
       TimeoutsMatch, WaitersMatch, Waits, InHand, OnlyAt
  <2>5. EngineInv'
    BY <1>0, <2>1, <2>2, <2>3 DEF EngineInv, EngineKnows, OneRunning,
       NoWaiterOfSignaled, Places, Dispatched, OnlyAt
  <2>6. HostsKnow'
    BY <1>0, <2>1, <2>2, <2>3 DEF HostsKnow, Places, OthersOK, OnlyAt
  <2>7. IoInv'
    BY <1>0, <2>1, <2>2, <2>3 DEF IoInv, IoKnows, NoLostNotify, Waits,
       Named, OnlyAt, KeepsPending, Keeps
  <2>8. HandlesExclusive'
    BY <1>0, <2>1, <2>2, <2>3 DEF HandlesExclusive, Mine, OthersOK, OnlyAt,
       Keeps
  <2>9. QED BY <2>4, <2>5, <2>6, <2>7, <2>8 DEF SafetyInv
<1>20. CASE ThreadWaitPark
  <2>1. cur \in Threads /\ threads[cur].state = "Running"
    BY <1>0, <1>20 DEF ThreadWaitPark, EngineInv, EngineKnows, Places,
       Dispatched
  <2>2. /\ pc = "iopark" /\ pc' = "after" /\ res' = "yield"
        /\ UNCHANGED <<ready, timeouts, waiters, signaled, signaling, cur, io, hpc, handle>>
    BY <1>0, <1>20, <2>1 DEF ThreadWaitPark
  <2>3. /\ OnlyAt(cur) /\ Keeps(cur) /\ KeepsPending(cur)
        /\ threads'[cur].state = "Waiting" /\ threads'[cur].kind = "Notify"
    BY <1>0, <1>20, <2>1, <2>2 DEF ThreadWaitPark, ThreadsOK, Context,
       OnlyAt, Keeps, KeepsPending
  <2>4. QueuesMatchStates'
    BY <1>0, <2>1, <2>2, <2>3 DEF QueuesMatchStates, ReadyMatches,
       TimeoutsMatch, WaitersMatch, Waits, InHand, OnlyAt
  <2>5. EngineInv'
    BY <1>0, <2>1, <2>2, <2>3 DEF EngineInv, EngineKnows, OneRunning,
       NoWaiterOfSignaled, Places, Dispatched, OnlyAt
  <2>6. HostsKnow'
    BY <1>0, <2>1, <2>2, <2>3 DEF HostsKnow, Places, OthersOK, OnlyAt
  <2>7. IoInv'
    BY <1>0, <2>1, <2>2, <2>3 DEF IoInv, IoKnows, NoLostNotify, Waits,
       Named, OnlyAt, KeepsPending, Keeps
  <2>8. HandlesExclusive'
    BY <1>0, <2>1, <2>2, <2>3 DEF HandlesExclusive, Mine, OthersOK, OnlyAt,
       Keeps
  <2>9. QED BY <2>4, <2>5, <2>6, <2>7, <2>8 DEF SafetyInv
<1>21. QED
  BY <1>1, <1>2, <1>3, <1>4, <1>5, <1>6, <1>7, <1>8, <1>9, <1>10, <1>11,
     <1>12, <1>13, <1>14, <1>15, <1>16, <1>17, <1>18, <1>19, <1>20 DEF
     EngineStep

LEMMA GuestKeepsSafety ==
  ASSUME SchedulerAssumption, Windows = {}, IInv, TypeInv', GuestLeaves \/ GuestGoesOn
  PROVE  SafetyInv'
<1> USE DEF others, host, lists, platform, scratch, engine
<1>0. /\ NoThread \notin Threads /\ NoEvent \notin Events
      /\ ThreadsOK /\ ListsOK /\ EngineOK /\ OthersOK /\ Places
      /\ EngineOK' /\ Places'
      /\ QueuesMatchStates /\ EngineInv /\ HostsKnow /\ IoInv /\ HandlesExclusive
  BY DEF Threads, Events, NoThread, NoEvent, SchedulerAssumption, IInv, SafetyInv,
     TypeInv, TypeOK
<1>1. ASSUME NEW r \in Results, Return(r) PROVE SafetyInv'
  BY <1>0, <1>1 DEF Return, Returns, SafetyInv, QueuesMatchStates,
     ReadyMatches, TimeoutsMatch, WaitersMatch, Waits, InHand, EngineInv,
     EngineKnows, OneRunning, NoWaiterOfSignaled, Places, Dispatched,
     HostsKnow, Places, OthersOK, IoInv, IoKnows, NoLostNotify, Waits,
     Named, HandlesExclusive, Mine, OthersOK
<1>2. CASE Yield
  BY <1>0, <1>2 DEF Yield, Returns, SafetyInv, QueuesMatchStates,
     ReadyMatches, TimeoutsMatch, WaitersMatch, Waits, InHand, EngineInv,
     EngineKnows, OneRunning, NoWaiterOfSignaled, Places, Dispatched,
     HostsKnow, Places, OthersOK, IoInv, IoKnows, NoLostNotify, Waits,
     Named, HandlesExclusive, Mine, OthersOK
<1>3. ASSUME NEW e \in Events, EventWait(e), ~ Named PROVE SafetyInv'
  BY <1>0, <1>3 DEF EventWait, Returns, SafetyInv, QueuesMatchStates,
     ReadyMatches, TimeoutsMatch, WaitersMatch, Waits, InHand, EngineInv,
     EngineKnows, OneRunning, NoWaiterOfSignaled, Places, Dispatched,
     HostsKnow, Places, OthersOK, IoInv, IoKnows, NoLostNotify, Waits,
     Named, HandlesExclusive, Mine, OthersOK
<1>4. ASSUME NEW e \in Events, EventWait(e), Named, signaled[e] PROVE SafetyInv'
  <2>1. /\ cur \in Threads /\ threads[cur].state = "Running"
    BY <1>0, <1>4 DEF EventWait, Returns, EngineInv, EngineKnows, Places,
       Dispatched
  <2>2. /\ pc = "run" /\ pc' = "after" /\ res' = "yield"
        /\ threads' = [threads EXCEPT ![cur] = MakeReady(@)]
        /\ \A f \in Events \ {e} : signaled'[f] = signaled[f]
        /\ signaled'[e] = FALSE
        /\ UNCHANGED <<ready, timeouts, waiters, signaling, cur, io, hpc, handle>>
    BY <1>0, <1>4, <2>1 DEF EventWait, Returns, OthersOK
  <2>3. /\ OnlyAt(cur) /\ Keeps(cur) /\ KeepsPending(cur)
        /\ threads'[cur].state = "Ready" /\ threads'[cur].kind = "None"
    BY <1>0, <2>1, <2>2 DEF MakeReady, ThreadsOK, Context, OnlyAt, Keeps,
       KeepsPending
  <2>4. QueuesMatchStates'
    BY <1>0, <2>1, <2>2, <2>3 DEF QueuesMatchStates, ReadyMatches,
       TimeoutsMatch, WaitersMatch, Waits, InHand, OnlyAt
  <2>5. EngineInv'
    BY <1>0, <2>1, <2>2, <2>3 DEF EngineInv, EngineKnows, OneRunning,
       NoWaiterOfSignaled, Places, Dispatched, OnlyAt
  <2>6. HostsKnow'
    BY <1>0, <2>1, <2>2, <2>3 DEF HostsKnow, Places, OthersOK, OnlyAt
  <2>7. IoInv'
    BY <1>0, <2>1, <2>2, <2>3 DEF IoInv, IoKnows, NoLostNotify, Waits,
       Named, OnlyAt, KeepsPending, Keeps
  <2>8. HandlesExclusive'
    BY <1>0, <2>1, <2>2, <2>3 DEF HandlesExclusive, Mine, OthersOK, OnlyAt,
       Keeps
  <2>9. QED BY <2>4, <2>5, <2>6, <2>7, <2>8 DEF SafetyInv
<1>5. ASSUME NEW e \in Events, EventWait(e), Named, ~ signaled[e] PROVE SafetyInv'
  <2>1. /\ cur \in Threads /\ threads[cur].state = "Running"
    BY <1>0, <1>5 DEF EventWait, Returns, EngineInv, EngineKnows, Places,
       Dispatched
  <2>2. /\ threads' = [threads EXCEPT ![cur].state = "Waiting", ![cur].kind = "Event"]
        /\ waiters' = [waiters EXCEPT ![e] = Append(@, cur)]
    BY <1>0, <1>5, <2>1 DEF EventWait, Returns
  <2>3. /\ pc = "run" /\ pc' = "after" /\ res' = "yield"
        /\ UNCHANGED <<ready, timeouts, signaled, signaling, cur, io, hpc, handle>>
    BY <1>0, <1>5, <2>1, <2>2 DEF EventWait, Returns
  <2>4. \A f \in Events : ~ Linked(cur, waiters[f])
    BY <1>0, <2>1, <2>2, <2>3 DEF QueuesMatchStates, WaitersMatch, Waits
  <2>5. /\ \A f \in Events \ {e} : waiters'[f] = waiters[f]
        /\ NoDuplicates(waiters'[e])
        /\ \A u : Linked(u, waiters'[e]) <=> Linked(u, waiters[e]) \/ u = cur
    BY <1>0, <2>1, <2>2, <2>3, <2>4, AppendLinks DEF QueuesMatchStates,
       WaitersMatch, ListsOK
  <2>6. /\ OnlyAt(cur) /\ Keeps(cur) /\ KeepsPending(cur)
        /\ threads'[cur].state = "Waiting" /\ threads'[cur].kind = "Event"
    BY <1>0, <2>1, <2>2, <2>3, <2>4, <2>5 DEF ThreadsOK, Context, OnlyAt,
       Keeps, KeepsPending
  <2>7. QueuesMatchStates'
    <3>1. ReadyMatches'
      BY <1>0, <2>1, <2>3, <2>4, <2>5, <2>6, <1>5 DEF QueuesMatchStates,
         ReadyMatches, InHand, OnlyAt
    <3>2. TimeoutsMatch'
      BY <1>0, <2>1, <2>3, <2>4, <2>5, <2>6, <1>5 DEF QueuesMatchStates,
         TimeoutsMatch, Waits, OnlyAt
    <3>3. WaitersMatch'
      BY <1>0, <2>1, <2>3, <2>4, <2>5, <2>6, <1>5 DEF QueuesMatchStates,
         WaitersMatch, Waits, OnlyAt
    <3>4. QED BY <3>1, <3>2, <3>3 DEF QueuesMatchStates
  <2>8. EngineInv'
    BY <1>0, <2>1, <2>3, <2>5, <2>6, <1>5 DEF EngineInv, EngineKnows,
       OneRunning, NoWaiterOfSignaled, Places, Dispatched, OnlyAt
  <2>9. HostsKnow'
    BY <1>0, <2>1, <2>3, <2>6 DEF HostsKnow, Places, OthersOK, OnlyAt
  <2>10. IoInv'
    BY <1>0, <2>1, <2>3, <2>6 DEF IoInv, IoKnows, NoLostNotify, Waits,
       Named, OnlyAt, KeepsPending, Keeps
  <2>11. HandlesExclusive'
    BY <1>0, <2>1, <2>3, <2>6 DEF HandlesExclusive, Mine, OthersOK, OnlyAt,
       Keeps
  <2>12. QED BY <2>7, <2>8, <2>9, <2>10, <2>11 DEF SafetyInv
<1>6. ASSUME NEW d \in 0 .. MaxSleep, Sleep(d), ~ Named PROVE SafetyInv'
  BY <1>0, <1>6 DEF Sleep, Returns, SafetyInv, QueuesMatchStates,
     ReadyMatches, TimeoutsMatch, WaitersMatch, Waits, InHand, EngineInv,
     EngineKnows, OneRunning, NoWaiterOfSignaled, Places, Dispatched,
     HostsKnow, Places, OthersOK, IoInv, IoKnows, NoLostNotify, Waits,
     Named, HandlesExclusive, Mine, OthersOK
<1>7. ASSUME NEW d \in 0 .. MaxSleep, Sleep(d), Named PROVE SafetyInv'
  <2>1. /\ cur \in Threads /\ threads[cur].state = "Running"
    BY <1>0, <1>7 DEF Sleep, Returns, EngineInv, EngineKnows, Places,
       Dispatched
  <2>2. /\ threads' = [threads EXCEPT ![cur].state = "Waiting",
                                      ![cur].kind = "Sleep", ![cur].wake = d]
        /\ timeouts' = Append(timeouts, cur)
    BY <1>0, <1>7, <2>1 DEF Sleep, Returns
  <2>3. /\ pc = "run" /\ pc' = "after" /\ res' = "yield"
        /\ UNCHANGED <<ready, waiters, signaled, signaling, cur, io, hpc, handle>>
    BY <1>0, <1>7, <2>1, <2>2 DEF Sleep, Returns
  <2>4. ~ Linked(cur, timeouts)
    BY <1>0, <2>1, <2>2, <2>3 DEF QueuesMatchStates, TimeoutsMatch, Waits
  <2>5. /\ NoDuplicates(timeouts')
        /\ \A u : Linked(u, timeouts') <=> Linked(u, timeouts) \/ u = cur
    BY <1>0, <2>1, <2>2, <2>3, <2>4, AppendLinks DEF ListsOK,
       QueuesMatchStates, TimeoutsMatch
  <2>6. /\ OnlyAt(cur) /\ Keeps(cur) /\ KeepsPending(cur)
        /\ threads'[cur].state = "Waiting" /\ threads'[cur].kind = "Sleep"
    BY <1>0, <2>1, <2>2, <2>3, <2>4, <2>5 DEF ThreadsOK, Context, OnlyAt,
       Keeps, KeepsPending
  <2>7. QueuesMatchStates'
    <3>1. ReadyMatches'
      BY <1>0, <2>1, <2>3, <2>4, <2>5, <2>6 DEF QueuesMatchStates,
         ReadyMatches, InHand, OnlyAt
    <3>2. TimeoutsMatch'
      BY <1>0, <2>1, <2>3, <2>4, <2>5, <2>6 DEF QueuesMatchStates,
         TimeoutsMatch, Waits, OnlyAt
    <3>3. WaitersMatch'
      BY <1>0, <2>1, <2>3, <2>4, <2>5, <2>6 DEF QueuesMatchStates,
         WaitersMatch, Waits, OnlyAt
    <3>4. QED BY <3>1, <3>2, <3>3 DEF QueuesMatchStates
  <2>8. EngineInv'
    BY <1>0, <2>1, <2>3, <2>6 DEF EngineInv, EngineKnows, OneRunning,
       NoWaiterOfSignaled, Places, Dispatched, OnlyAt
  <2>9. HostsKnow'
    BY <1>0, <2>1, <2>3, <2>6 DEF HostsKnow, Places, OthersOK, OnlyAt
  <2>10. IoInv'
    BY <1>0, <2>1, <2>3, <2>6 DEF IoInv, IoKnows, NoLostNotify, Waits,
       Named, OnlyAt, KeepsPending, Keeps
  <2>11. HandlesExclusive'
    BY <1>0, <2>1, <2>3, <2>6 DEF HandlesExclusive, Mine, OthersOK, OnlyAt,
       Keeps
  <2>12. QED BY <2>7, <2>8, <2>9, <2>10, <2>11 DEF SafetyInv
<1>8. CASE IoRegister
  BY <1>0, <1>8 DEF IoRegister, Goto, SafetyInv, QueuesMatchStates,
     ReadyMatches, TimeoutsMatch, WaitersMatch, Waits, InHand, EngineInv,
     EngineKnows, OneRunning, NoWaiterOfSignaled, Places, Dispatched,
     HostsKnow, Places, OthersOK, IoInv, IoKnows, NoLostNotify, Waits,
     Named, HandlesExclusive, Mine, OthersOK
<1>9. ASSUME NEW e \in Events, EventSignal(e) PROVE SafetyInv'
  BY <1>0, <1>9 DEF EventSignal, Goto, SafetyInv, QueuesMatchStates,
     ReadyMatches, TimeoutsMatch, WaitersMatch, Waits, InHand, EngineInv,
     EngineKnows, OneRunning, NoWaiterOfSignaled, Places, Dispatched,
     HostsKnow, Places, OthersOK, IoInv, IoKnows, NoLostNotify, Waits,
     Named, HandlesExclusive, Mine, OthersOK
<1>10. CASE SpawnFind
  <2>1. slot' \in SpawnSlots
    BY <1>10, FirstSlotIsSlot DEF SpawnFind, SpawnSlots
  <2>2. QED
    BY <1>0, <1>10, <2>1 DEF SpawnFind, Goto, SpawnSlots, SafetyInv,
       QueuesMatchStates, ReadyMatches, TimeoutsMatch, WaitersMatch, Waits,
       InHand, EngineInv, EngineKnows, OneRunning, NoWaiterOfSignaled,
       Places, Dispatched, HostsKnow, Places, OthersOK, IoInv, IoKnows,
       NoLostNotify, Waits, Named, HandlesExclusive, Mine, OthersOK
<1>11. QED
  BY <1>1, <1>2, <1>3, <1>4, <1>5, <1>6, <1>7, <1>8, <1>9, <1>10 DEF
     GuestLeaves, GuestGoesOn

LEMMA CallersKeepSafety ==
  ASSUME SchedulerAssumption, Windows = {}, IInv, TypeInv', RunBegin \/ Tick \/ UNCHANGED vars
         \/ (\E h \in Hosts : HostStarts(h) \/ HostFinishes(h))
         \/ (\E t \in Threads : IoFinishes(t))
  PROVE  SafetyInv'
<1> USE DEF others, host, lists, platform, scratch, engine
<1>0. /\ NoThread \notin Threads /\ NoEvent \notin Events
      /\ ThreadsOK /\ ListsOK /\ EngineOK /\ OthersOK /\ Places
      /\ EngineOK' /\ Places'
      /\ QueuesMatchStates /\ EngineInv /\ HostsKnow /\ IoInv /\ HandlesExclusive
  BY DEF Threads, Events, NoThread, NoEvent, SchedulerAssumption, IInv, SafetyInv,
     TypeInv, TypeOK
<1>1. ASSUME NEW h \in Hosts, StartThreadCheck(h) PROVE SafetyInv'
  BY <1>0, <1>1 DEF StartThreadCheck, HostStep, Open, Startable, SafetyInv,
     QueuesMatchStates, ReadyMatches, TimeoutsMatch, WaitersMatch, Waits,
     InHand, EngineInv, EngineKnows, OneRunning, NoWaiterOfSignaled, Places,
     Dispatched, HostsKnow, Places, OthersOK, IoInv, IoKnows, NoLostNotify,
     Waits, Named, HandlesExclusive, Mine, OthersOK
<1>2. ASSUME NEW h \in Hosts, Stop(h) PROVE SafetyInv'
  BY <1>0, <1>2 DEF Stop, HostStep, SafetyInv, QueuesMatchStates,
     ReadyMatches, TimeoutsMatch, WaitersMatch, Waits, InHand, EngineInv,
     EngineKnows, OneRunning, NoWaiterOfSignaled, Places, Dispatched,
     HostsKnow, Places, OthersOK, IoInv, IoKnows, NoLostNotify, Waits,
     Named, HandlesExclusive, Mine, OthersOK
<1>3. ASSUME NEW h \in Hosts, HostNotifyActivity(h) PROVE SafetyInv'
  BY <1>0, <1>3 DEF HostNotifyActivity, HostStep, SafetyInv,
     QueuesMatchStates, ReadyMatches, TimeoutsMatch, WaitersMatch, Waits,
     InHand, EngineInv, EngineKnows, OneRunning, NoWaiterOfSignaled, Places,
     Dispatched, HostsKnow, Places, OthersOK, IoInv, IoKnows, NoLostNotify,
     Waits, Named, HandlesExclusive, Mine, OthersOK
<1>4. ASSUME NEW h \in Hosts, CreateHostThread(h) PROVE SafetyInv'
  <2> DEFINE t == FirstSlot(HostSlots)
  <2>1. HostSlots \in SUBSET Threads /\ HostSlots # {}
    BY <1>0, <1>4 DEF CreateHostThread, HostStep, HostSlots
  <2>2. t \in HostSlots
    BY <1>0, <1>4, <2>1, FirstSlotIsSlot DEF CreateHostThread, HostStep
  <2> HIDE DEF t
  <2>3. /\ t \in Threads /\ threads[t].state \in {"Null", "Terminated"}
        /\ threads[t].state = "Null" \/ ~ threads[t].owned
    BY <1>0, <2>1, <2>2 DEF HostSlots
  <2>4. \A g \in Hosts : handle[g] # t
    BY <1>0, <2>1, <2>2, <2>3 DEF HandlesExclusive, Mine, HostsKnow
  <2> USE DEF t
  <2>5. /\ OnlyAt(t) /\ threads'[t].state = "Created"
        /\ threads'[t].owned /\ threads'[t].id = t
    BY <1>0, <1>4, <2>1, <2>2, <2>3, <2>4 DEF CreateHostThread, HostStep,
       Reset, ThreadsOK, OnlyAt
  <2>6. /\ hpc' = [hpc EXCEPT ![h] = "notify"] /\ handle' = [handle EXCEPT ![h] = t]
        /\ pc # "spawn" /\ pc # "poll" /\ pc # "pick"
        /\ UNCHANGED <<ready, timeouts, waiters, signaled, signaling, pc, cur, res, slot, io>>
    BY <1>0, <1>4, <2>1, <2>2, <2>3, <2>4, <2>5 DEF CreateHostThread,
       HostStep, Open, EngineHoldsLock
  <2> HIDE DEF t
  <2>7. QueuesMatchStates'
    BY <1>0, <2>1, <2>2, <2>3, <2>4, <2>5, <2>6 DEF QueuesMatchStates,
       ReadyMatches, TimeoutsMatch, WaitersMatch, Waits, InHand, OnlyAt
  <2>8. EngineInv'
    BY <1>0, <2>1, <2>2, <2>3, <2>4, <2>5, <2>6 DEF EngineInv, EngineKnows,
       OneRunning, NoWaiterOfSignaled, Places, Dispatched, OnlyAt
  <2>9. HostsKnow'
    BY <1>0, <2>1, <2>2, <2>3, <2>4, <2>5, <2>6 DEF HostsKnow, Places,
       OthersOK, OnlyAt
  <2>10. IoInv'
    BY <1>0, <2>1, <2>2, <2>3, <2>4, <2>5, <2>6 DEF IoInv, IoKnows,
       NoLostNotify, Waits, Named, OnlyAt, KeepsPending, Keeps, EngineInv,
       EngineKnows, Places, Dispatched
  <2>11. HandlesExclusive'
    BY <1>0, <2>1, <2>2, <2>3, <2>4, <2>5, <2>6 DEF HandlesExclusive, Mine,
       OthersOK, OnlyAt, Keeps
  <2>12. QED BY <2>7, <2>8, <2>9, <2>10, <2>11 DEF SafetyInv
<1>5. ASSUME NEW h \in Hosts, SetThreadCallback(h) PROVE SafetyInv'
  <2> DEFINE t == handle[h]
  <2>1. t \in Threads
    BY <1>0, <1>5 DEF SetThreadCallback, HostStep, OthersOK
  <2>2. /\ OnlyAt(t) /\ Keeps(t) /\ KeepsPending(t)
        /\ threads'[t].state = threads[t].state /\ threads'[t].kind = threads[t].kind
    BY <1>0, <1>5, <2>1 DEF SetThreadCallback, HostStep, ThreadsOK, Context,
       OnlyAt, Keeps, KeepsPending, Mine
  <2>3. /\ hpc' = [hpc EXCEPT ![h] = "free"]
        /\ UNCHANGED <<ready, timeouts, waiters, signaled, signaling, pc, cur, res,
                       slot, io, handle>>
    BY <1>0, <1>5, <2>1, <2>2 DEF SetThreadCallback, HostStep
  <2> HIDE DEF t
  <2>4. QueuesMatchStates'
    BY <1>0, <2>1, <2>2, <2>3 DEF QueuesMatchStates, ReadyMatches,
       TimeoutsMatch, WaitersMatch, Waits, InHand, OnlyAt
  <2>5. EngineInv'
    BY <1>0, <2>1, <2>2, <2>3 DEF EngineInv, EngineKnows, OneRunning,
       NoWaiterOfSignaled, Places, Dispatched, OnlyAt
  <2>6. HostsKnow'
    BY <1>0, <2>1, <2>2, <2>3 DEF HostsKnow, Places, OthersOK, OnlyAt
  <2>7. IoInv'
    BY <1>0, <2>1, <2>2, <2>3 DEF IoInv, IoKnows, NoLostNotify, Waits,
       Named, OnlyAt, KeepsPending, Keeps, EngineInv, EngineKnows, Places,
       Dispatched
  <2>8. HandlesExclusive'
    BY <1>0, <2>1, <2>2, <2>3 DEF HandlesExclusive, Mine, OthersOK, OnlyAt,
       Keeps
  <2>9. QED BY <2>4, <2>5, <2>6, <2>7, <2>8 DEF SafetyInv
<1>6. ASSUME NEW h \in Hosts, StartThread(h) PROVE SafetyInv'
  <2> DEFINE t == handle[h]
  <2>1. /\ t \in Threads /\ threads[t].state = "Created"
        /\ \A g \in Hosts \ {h} : handle[g] # t
    BY <1>0, <1>6 DEF StartThread, HostStep, Places, HostsKnow,
       HandlesExclusive
  <2>2. /\ OnlyAt(t) /\ Keeps(t) /\ KeepsPending(t)
        /\ threads'[t].state = "Ready" /\ threads'[t].kind = threads[t].kind
    BY <1>0, <1>6, <2>1 DEF StartThread, HostStep, ThreadsOK, Context,
       OnlyAt, Keeps, KeepsPending
  <2>3. /\ hpc' = [hpc EXCEPT ![h] = "notify"] /\ ready' = Append(ready, t)
        /\ pc # "spawn"
        /\ UNCHANGED <<timeouts, waiters, signaled, signaling, pc, cur, res, slot, io,
                       handle>>
    BY <1>0, <1>6, <2>1, <2>2 DEF StartThread, HostStep, Open
  <2>4. /\ NoDuplicates(ready')
        /\ \A u : Linked(u, ready') <=> Linked(u, ready) \/ u = t
    BY <1>0, <2>1, <2>2, <2>3, AppendLinks DEF ListsOK, QueuesMatchStates,
       ReadyMatches
  <2> HIDE DEF t
  <2>5. QueuesMatchStates'
    BY <1>0, <2>1, <2>2, <2>3, <2>4 DEF QueuesMatchStates, ReadyMatches,
       TimeoutsMatch, WaitersMatch, Waits, InHand, OnlyAt, EngineInv,
       EngineKnows, Places, Dispatched
  <2>6. EngineInv'
    BY <1>0, <2>1, <2>2, <2>3, <2>4 DEF EngineInv, EngineKnows, OneRunning,
       NoWaiterOfSignaled, Places, Dispatched, OnlyAt
  <2>7. HostsKnow'
    BY <1>0, <2>1, <2>2, <2>3, <2>4 DEF HostsKnow, Places, OthersOK, OnlyAt
  <2>8. IoInv'
    BY <1>0, <2>1, <2>2, <2>3, <2>4 DEF IoInv, IoKnows, NoLostNotify, Waits,
       Named, OnlyAt, KeepsPending, Keeps, EngineInv, EngineKnows, Places,
       Dispatched
  <2>9. HandlesExclusive'
    BY <1>0, <2>1, <2>2, <2>3, <2>4 DEF HandlesExclusive, Mine, OthersOK,
       OnlyAt, Keeps
  <2>10. QED BY <2>5, <2>6, <2>7, <2>8, <2>9 DEF SafetyInv
<1>7. ASSUME NEW h \in Hosts, DestroyHostThread(h) PROVE SafetyInv'
  <2> DEFINE t == handle[h]
  <2>1. /\ t \in Threads /\ threads[t].state \in {"Created", "Terminated"}
        /\ hpc[h] = "free" /\ \A g \in Hosts \ {h} : handle[g] # t
    BY <1>0, <1>7 DEF DestroyHostThread, HostStep, Mine, OthersOK,
       HandlesExclusive
  <2>2. OnlyAt(t) /\ threads'[t].state = "Terminated"
    BY <1>0, <1>7, <2>1 DEF DestroyHostThread, HostStep, Reset, ThreadsOK,
       OnlyAt
  <2>3. /\ hpc' = [hpc EXCEPT ![h] = "free"] /\ handle' = [handle EXCEPT ![h] = NoThread]
        /\ pc # "spawn"
        /\ UNCHANGED <<ready, timeouts, waiters, signaled, signaling, pc, cur, res, slot, io>>
    BY <1>0, <1>7, <2>1, <2>2 DEF DestroyHostThread, HostStep, Open
  <2> HIDE DEF t
  <2>4. QueuesMatchStates'
    <3>1. ReadyMatches'
      BY <1>0, <2>1, <2>2, <2>3 DEF QueuesMatchStates, ReadyMatches, InHand,
         OnlyAt
    <3>2. TimeoutsMatch'
      BY <1>0, <2>1, <2>2, <2>3 DEF QueuesMatchStates, TimeoutsMatch, Waits,
         OnlyAt
    <3>3. WaitersMatch'
      BY <1>0, <2>1, <2>2, <2>3 DEF QueuesMatchStates, WaitersMatch, Waits,
         OnlyAt
    <3>4. QED BY <3>1, <3>2, <3>3 DEF QueuesMatchStates
  <2>5. EngineInv'
    BY <1>0, <2>1, <2>2, <2>3 DEF EngineInv, EngineKnows, OneRunning,
       NoWaiterOfSignaled, Places, Dispatched, OnlyAt
  <2>6. HostsKnow'
    BY <1>0, <2>1, <2>2, <2>3 DEF HostsKnow, Places, OthersOK, OnlyAt
  <2>7. IoInv'
    BY <1>0, <2>1, <2>2, <2>3 DEF IoInv, IoKnows, NoLostNotify, Waits,
       Named, OnlyAt, KeepsPending, Keeps, EngineInv, EngineKnows, Places,
       Dispatched
  <2>8. HandlesExclusive'
    BY <1>0, <2>1, <2>2, <2>3 DEF HandlesExclusive, Mine, OthersOK, OnlyAt,
       Keeps
  <2>9. QED BY <2>4, <2>5, <2>6, <2>7, <2>8 DEF SafetyInv
<1>8. ASSUME NEW t \in Threads, ThreadNotify(t), Waits(t, "Notify") PROVE SafetyInv'
  <2>1. /\ threads' = [threads EXCEPT ![t] = MakeReady(@)]
        /\ ready' = Append(ready, t)
        /\ io' = [io EXCEPT ![t] = "notify"]
        /\ ~ (pc \in {"iopark", "after"} /\ cur = t)
        /\ UNCHANGED <<timeouts, waiters, signaled, signaling, pc, cur, res, slot,
                       hpc, handle>>
    BY <1>0, <1>8 DEF ThreadNotify, Open, Waits
  <2>2. /\ OnlyAt(t) /\ Keeps(t) /\ KeepsPending(t)
        /\ threads'[t].state = "Ready" /\ threads'[t].kind = "None"
    BY <1>0, <2>1 DEF MakeReady, ThreadsOK, Context, OnlyAt, Keeps,
       KeepsPending
  <2>3. /\ NoDuplicates(ready')
        /\ \A u : Linked(u, ready') <=> Linked(u, ready) \/ u = t
    BY <1>0, <1>8, <2>1, <2>2, AppendLinks DEF ThreadNotify, ListsOK, Waits,
       QueuesMatchStates, ReadyMatches
  <2>4. QueuesMatchStates'
    BY <1>0, <2>1, <2>2, <2>3, <1>8 DEF QueuesMatchStates, ReadyMatches,
       TimeoutsMatch, WaitersMatch, Waits, InHand, OnlyAt
  <2>5. EngineInv'
    BY <1>0, <2>1, <2>2, <2>3, <1>8 DEF EngineInv, EngineKnows, OneRunning,
       NoWaiterOfSignaled, Places, Dispatched, OnlyAt, Waits
  <2>6. HostsKnow'
    BY <1>0, <2>1, <2>2, <2>3, <1>8 DEF HostsKnow, Places, OthersOK, OnlyAt,
       Waits
  <2>7. IoInv'
    BY <1>0, <2>1, <2>2, <2>3, <1>8 DEF IoInv, IoKnows, NoLostNotify, Waits,
       Named, OnlyAt, KeepsPending, Keeps, OthersOK, EngineInv, EngineKnows
  <2>8. HandlesExclusive'
    BY <1>0, <2>1, <2>2, <2>3 DEF HandlesExclusive, Mine, OthersOK, OnlyAt,
       Keeps
  <2>9. QED BY <2>4, <2>5, <2>6, <2>7, <2>8 DEF SafetyInv
<1>9. ASSUME NEW t \in Threads, ThreadNotify(t), ~ Waits(t, "Notify") PROVE SafetyInv'
  <2>1. /\ threads' = [threads EXCEPT ![t].pending = TRUE]
        /\ io' = [io EXCEPT ![t] = "none"]
        /\ ~ (pc \in {"iopark", "after"} /\ cur = t)
        /\ UNCHANGED <<ready, timeouts, waiters, signaled, signaling, pc, cur, res,
                       slot, hpc, handle>>
    BY <1>0, <1>9 DEF ThreadNotify, Open, Waits
  <2>2. /\ OnlyAt(t) /\ Keeps(t)
        /\ threads'[t].state = threads[t].state /\ threads'[t].kind = threads[t].kind /\ threads'[t].pending
    BY <1>0, <2>1 DEF ThreadsOK, Context, OnlyAt, Keeps, KeepsPending
  <2>3. QueuesMatchStates'
    BY <1>0, <2>1, <2>2 DEF QueuesMatchStates, ReadyMatches, TimeoutsMatch,
       WaitersMatch, Waits, InHand, OnlyAt
  <2>4. EngineInv'
    BY <1>0, <2>1, <2>2 DEF EngineInv, EngineKnows, OneRunning,
       NoWaiterOfSignaled, Places, Dispatched, OnlyAt
  <2>5. HostsKnow'
    BY <1>0, <2>1, <2>2 DEF HostsKnow, Places, OthersOK, OnlyAt
  <2>6. IoInv'
    BY <1>0, <2>1, <2>2, <1>9 DEF IoInv, IoKnows, NoLostNotify, Waits,
       Named, OnlyAt, KeepsPending, Keeps, OthersOK
  <2>7. HandlesExclusive'
    BY <1>0, <2>1, <2>2 DEF HandlesExclusive, Mine, OthersOK, OnlyAt, Keeps
  <2>8. QED BY <2>3, <2>4, <2>5, <2>6, <2>7 DEF SafetyInv
<1>10. ASSUME NEW t \in Threads, IoNotifyActivity(t) PROVE SafetyInv'
  BY <1>0, <1>10 DEF IoNotifyActivity, SafetyInv, QueuesMatchStates,
     ReadyMatches, TimeoutsMatch, WaitersMatch, Waits, InHand, EngineInv,
     EngineKnows, OneRunning, NoWaiterOfSignaled, Places, Dispatched,
     HostsKnow, Places, OthersOK, IoInv, IoKnows, NoLostNotify, Waits,
     Named, HandlesExclusive, Mine, OthersOK
<1>11. CASE Tick
  <2>1. \A t \in Threads :
          /\ threads'[t].state = threads[t].state /\ threads'[t].kind = threads[t].kind
          /\ Keeps(t) /\ KeepsPending(t)
    BY <1>0, <1>11 DEF Tick, ThreadsOK, Context, OnlyAt, Keeps, KeepsPending
  <2>2. UNCHANGED <<ready, timeouts, waiters, signaled, signaling, pc, cur, res, slot,
                    io, hpc, handle>>
    BY <1>0, <1>11, <2>1 DEF Tick
  <2>3. QueuesMatchStates'
    BY <1>0, <2>1, <2>2 DEF QueuesMatchStates, ReadyMatches, TimeoutsMatch,
       WaitersMatch, Waits, InHand, OnlyAt
  <2>4. EngineInv'
    BY <1>0, <2>1, <2>2 DEF EngineInv, EngineKnows, OneRunning,
       NoWaiterOfSignaled, Places, Dispatched, OnlyAt
  <2>5. HostsKnow'
    BY <1>0, <2>1, <2>2 DEF HostsKnow, Places, OthersOK, OnlyAt
  <2>6. IoInv'
    BY <1>0, <2>1, <2>2 DEF IoInv, IoKnows, NoLostNotify, Waits, Named,
       OnlyAt, KeepsPending, Keeps, EngineInv, EngineKnows, Places,
       Dispatched
  <2>7. HandlesExclusive'
    BY <1>0, <2>1, <2>2 DEF HandlesExclusive, Mine, OthersOK, OnlyAt, Keeps
  <2>8. QED BY <2>3, <2>4, <2>5, <2>6, <2>7 DEF SafetyInv
<1>12. CASE UNCHANGED vars
  BY <1>0, <1>12 DEF vars, SafetyInv, QueuesMatchStates, ReadyMatches,
     TimeoutsMatch, WaitersMatch, Waits, InHand, EngineInv, EngineKnows,
     OneRunning, NoWaiterOfSignaled, Places, Dispatched, HostsKnow, Places,
     OthersOK, IoInv, IoKnows, NoLostNotify, Waits, Named, HandlesExclusive,
     Mine, OthersOK
<1>13. CASE RunBegin
  BY <1>0, <1>13 DEF RunBegin, Goto, SafetyInv, QueuesMatchStates,
     ReadyMatches, TimeoutsMatch, WaitersMatch, Waits, InHand, EngineInv,
     EngineKnows, OneRunning, NoWaiterOfSignaled, Places, Dispatched,
     HostsKnow, Places, OthersOK, IoInv, IoKnows, NoLostNotify, Waits,
     Named, HandlesExclusive, Mine, OthersOK
<1>14. QED
  BY <1>1, <1>2, <1>3, <1>4, <1>5, <1>6, <1>7, <1>8, <1>9, <1>10, <1>11,
     <1>12, <1>13 DEF HostStarts, HostFinishes, IoFinishes


-----------------------------------------------------------------------------
LEMMA InitInv ==
  ASSUME SchedulerAssumption, Init
  PROVE  IInv
<1>0. /\ NoThread \notin Threads /\ NoEvent \notin Events
      /\ << >> \in Seq(Threads)
  BY DEF Threads, Events, NoThread, NoEvent, SchedulerAssumption
<1>1. ThreadsOK
  BY NewContexts DEF Init, ThreadsOK
<1>2. ListsOK /\ OthersOK
  <2>1. ListsOK
    BY <1>0 DEF Init, ListsOK
  <2>2. /\ signaled \in [Events -> BOOLEAN]
        /\ stop \in BOOLEAN /\ notified \in BOOLEAN
    BY DEF Init
  <2>3. io \in [Threads -> {"none", "submitted", "notify"}]
    BY DEF Init
  <2>4. hpc \in [Hosts -> {"free", "start", "notify"}]
    BY DEF Init
  <2>5. handle \in [Hosts -> {NoThread} \cup Threads]
    BY DEF Init
  <2>6. fired \in [Threads -> 0 .. 2]
    BY DEF Init
  <2>7. QED BY <2>1, <2>2, <2>3, <2>4, <2>5, <2>6 DEF OthersOK
<1>3. EngineOK /\ Places
  BY <1>0 DEF Init, EngineOK, Places, Dispatched, PCs, Results, Forever, SchedulerAssumption
<1>4. /\ \A t \in Threads : threads[t].state = "Null"
      /\ \A t : ~ Linked(t, ready) /\ ~ Linked(t, timeouts)
      /\ \A e \in Events : \A t : ~ Linked(t, waiters[e])
      /\ NoDuplicates(ready) /\ NoDuplicates(timeouts)
      /\ \A e \in Events : NoDuplicates(waiters[e])
  BY DEF Init, NullSlot, Reset, Linked, NoDuplicates
<1>5. QueuesMatchStates
  BY <1>4 DEF QueuesMatchStates, ReadyMatches, TimeoutsMatch, WaitersMatch, Waits
<1>6. EngineInv
  BY <1>4 DEF Init, EngineInv, EngineKnows, OneRunning, NoWaiterOfSignaled
<1>7. HostsKnow /\ HandlesExclusive
  BY DEF Init, HostsKnow, HandlesExclusive
<1>8. IoInv
  BY <1>4 DEF Init, IoInv, IoKnows, NoLostNotify, Waits
<1>9. QED
  BY <1>1, <1>2, <1>3, <1>5, <1>6, <1>7, <1>8 DEF IInv, TypeInv, TypeOK, SafetyInv

LEMMA SafetyStep ==
  ASSUME SchedulerAssumption, Windows = {}, IInv, [Next]_vars
  PROVE  IInv'
<1>1. TypeInv'
  BY TypeInvStep DEF IInv
<1>2. SafetyInv'
  BY <1>1, EngineKeepsSafety, GuestKeepsSafety, CallersKeepSafety DEF Next
<1>3. QED BY <1>1, <1>2 DEF IInv

-----------------------------------------------------------------------------
(* The completion callback.  A host thread that terminated keeps its slot   *)
(* and its result until Callback has run, and is counted there only once.   *)

CallbackPending ==
  pc = "callback" => /\ threads[cur].owned /\ threads[cur].state = "Terminated"
                     /\ threads[cur].result = res /\ fired[cur] = 0

CallbackInv ==
  /\ CallbackOnce /\ CallbackPending
  /\ \A t \in Threads : threads[t].cb => threads[t].owned

(* What most steps leave alone, as far as the callbacks are concerned. *)
Undisturbed(t) ==
  /\ threads'[t].owned = threads[t].owned /\ threads'[t].cb = threads[t].cb
  /\ threads'[t].result = threads[t].result
  /\ threads'[t].state = "Terminated" <=> threads[t].state = "Terminated"

AwayFromCallback ==
  /\ fired' = fired
  /\ pc = "callback" <=> pc' = "callback"
  /\ pc = "callback" => UNCHANGED <<cur, res>>

LEMMA UndisturbedKeeps ==
  ASSUME TypeInv, TypeInv', CallbackInv, AwayFromCallback,
         \A t \in Threads : Undisturbed(t)
  PROVE  CallbackInv'
<1>1. pc = "callback" => cur \in Threads /\ cur' = cur
  BY DEF TypeInv, Places, Dispatched, AwayFromCallback
<1>2. CallbackOnce'
  BY DEF CallbackInv, CallbackOnce, AwayFromCallback, Undisturbed
<1>3. CallbackPending'
  BY <1>1 DEF CallbackInv, CallbackPending, AwayFromCallback, Undisturbed
<1>4. (\A t \in Threads : threads[t].cb => threads[t].owned)'
  BY DEF CallbackInv, Undisturbed
<1>5. QED BY <1>2, <1>3, <1>4 DEF CallbackInv

(* Readying a thread that has not terminated disturbs no context.           *)
LEMMA ReadyUndisturbed ==
  ASSUME ThreadsOK, NEW t \in Threads, threads[t].state # "Terminated",
         \/ threads' = [threads EXCEPT ![t] = MakeReady(@)]
         \/ threads' = [threads EXCEPT ![t] = [MakeReady(@) EXCEPT !.pending = FALSE]]
  PROVE  \A u \in Threads : Undisturbed(u)
<1>1. threads[t] \in Context
  BY DEF ThreadsOK
<1>2. CASE threads' = [threads EXCEPT ![t] = MakeReady(@)]
  BY <1>1, <1>2 DEF ThreadsOK, Context, MakeReady, Undisturbed
<1>3. CASE threads' = [threads EXCEPT ![t] = [MakeReady(@) EXCEPT !.pending = FALSE]]
  BY <1>1, <1>3 DEF ThreadsOK, Context, MakeReady, Undisturbed
<1>4. QED BY <1>2, <1>3

(* A thread that runs terminates, and only its callback, if it has one, is  *)
(* then owed.                                                               *)
LEMMA CompleteKeeps ==
  ASSUME TypeInv, TypeInv', CallbackInv, NEW r \in Results, Complete(r),
         cur \in Threads, threads[cur].state = "Running", pc # "callback"
  PROVE  CallbackInv'
<1>1. /\ threads' = [threads EXCEPT ![cur] = Terminate(@, r)] /\ fired' = fired
      /\ threads[cur].cb => pc' = "callback" /\ res' = r /\ cur' = cur
      /\ ~ threads[cur].cb => pc' # "callback"
  BY DEF Complete, EndRound, others
<1>2. \A u \in Threads \ {cur} : threads'[u] = threads[u]
  BY <1>1 DEF TypeInv, TypeOK, ThreadsOK
<1>3. /\ threads'[cur].owned = threads[cur].owned /\ threads'[cur].cb = threads[cur].cb
      /\ threads'[cur].state = "Terminated" /\ threads'[cur].result = r
  BY <1>1 DEF TypeInv, TypeOK, ThreadsOK, Context, Terminate
<1>4. threads[cur].owned => fired[cur] = 0
  BY DEF CallbackInv, CallbackOnce, TypeInv, TypeOK, OthersOK
<1>5. CallbackOnce'
  BY <1>1, <1>2, <1>3, <1>4 DEF CallbackInv, CallbackOnce
<1>6. CallbackPending'
  BY <1>1, <1>3, <1>4 DEF CallbackInv, CallbackPending
<1>7. (\A t \in Threads : threads[t].cb => threads[t].owned)'
  BY <1>2, <1>3 DEF CallbackInv
<1>8. QED BY <1>5, <1>6, <1>7 DEF CallbackInv

LEMMA EngineKeepsCallbacks ==
  ASSUME SchedulerAssumption, IInv, TypeInv', CallbackInv, EngineStep,
         "spawn" \notin GuestOps, pc # "spawn"
  PROVE  CallbackInv'
<1> USE DEF others, host, lists, platform, scratch, engine
<1>0. /\ ThreadsOK /\ ListsOK /\ EngineOK /\ OthersOK /\ Places
      /\ QueuesMatchStates /\ EngineKnows /\ HandlesExclusive
      /\ TypeInv /\ \A t \in Threads : threads[t] \in Context
  BY DEF IInv, SafetyInv, TypeInv, TypeOK, EngineInv, ThreadsOK
<1>1. ASSUME UNCHANGED threads, AwayFromCallback PROVE CallbackInv'
  BY <1>0, <1>1, UndisturbedKeeps DEF Undisturbed
<1>2. CASE LoopTop
  BY <1>1, <1>2 DEF LoopTop, AwayFromCallback
<1>3. CASE PollDone
  BY <1>1, <1>3 DEF PollDone, Goto, AwayFromCallback
<1>4. CASE PickNone
  BY <1>1, <1>4 DEF PickNone, Goto, AwayFromCallback
<1>5. CASE WakeUp
  BY <1>1, <1>5 DEF WakeUp, Goto, AwayFromCallback
<1>6. CASE SignalDone
  BY <1>1, <1>6 DEF SignalDone, Goto, AwayFromCallback
<1>7. CASE PollExpired
  <2>1. AwayFromCallback
    BY <1>7 DEF PollExpired, AwayFromCallback
  <2>2. CASE threads[timeouts[cursor]].wake = 0
    <3> DEFINE t == timeouts[cursor]
    <3>1. t \in Threads /\ threads' = [threads EXCEPT ![t] = MakeReady(@)]
      BY <1>0, <1>7, <2>2 DEF PollExpired, ListsOK, EngineOK
    <3>2. Linked(t, timeouts)
      BY <1>0, <1>7 DEF PollExpired, Linked, ListsOK, EngineOK
    <3> HIDE DEF t
    <3>3. threads[t].state = "Waiting"
      BY <1>0, <3>1, <3>2 DEF QueuesMatchStates, TimeoutsMatch, Waits
    <3>4. \A u \in Threads : Undisturbed(u)
      BY <1>0, <3>1, <3>3 DEF ThreadsOK, Context, MakeReady, Undisturbed
    <3>5. QED BY <1>0, <2>1, <3>4, UndisturbedKeeps
  <2>3. CASE threads[timeouts[cursor]].wake # 0
    BY <1>1, <1>7, <2>1, <2>3 DEF PollExpired
  <2>4. QED BY <2>2, <2>3
<1>8. CASE Pick
  <2>1. AwayFromCallback
    BY <1>8 DEF Pick, AwayFromCallback
  <2> DEFINE t == Head(ready)
  <2>2. t \in Threads /\ threads' = [threads EXCEPT ![t].state = "Running"]
    BY <1>0, <1>8 DEF Pick, ListsOK
  <2>3. Linked(t, ready)
    BY <1>0, <1>8 DEF Pick, Linked, ListsOK
  <2> HIDE DEF t
  <2>4. threads[t].state = "Ready"
    BY <1>0, <2>2, <2>3 DEF QueuesMatchStates, ReadyMatches
  <2>5. \A u \in Threads : Undisturbed(u)
    BY <1>0, <2>2, <2>4 DEF ThreadsOK, Context, Undisturbed
  <2>6. QED BY <1>0, <2>1, <2>5, UndisturbedKeeps
<1>9. CASE AllocStack
  <2>1. AwayFromCallback
    BY <1>9 DEF AllocStack, Goto, AwayFromCallback
  <2>2. \A u \in Threads : Undisturbed(u)
    BY <1>0, <1>9 DEF AllocStack, Goto, ThreadsOK, Context, Undisturbed, Places, Dispatched
  <2>3. QED BY <1>0, <2>1, <2>2, UndisturbedKeeps
<1>10. CASE AllocStackFails
  BY <1>0, <1>10, CompleteKeeps DEF AllocStackFails, Results, EngineKnows, Places, Dispatched
<1>11. CASE Requeue
  <2>1. AwayFromCallback
    BY <1>11 DEF Requeue, EndRound, AwayFromCallback
  <2>2. cur \in Threads /\ threads[cur].state \in {"Running", "Ready", "Waiting"}
    BY <1>0, <1>11 DEF Requeue, EngineKnows, Places, Dispatched
  <2>3. \A u \in Threads : Undisturbed(u)
    BY <1>0, <1>11, <2>2 DEF Requeue, Yielded, ThreadsOK, Context, Undisturbed
  <2>4. QED BY <1>0, <2>1, <2>3, UndisturbedKeeps
<1>12. CASE Finish
  <2>1. /\ res \in Results /\ cur \in Threads /\ threads[cur].state = "Running"
        /\ pc # "callback" /\ Complete(res)
    BY <1>0, <1>12 DEF Finish, EngineKnows, Places, Dispatched, EngineOK
  <2>2. QED BY <1>0, <2>1, CompleteKeeps
<1>13. CASE Callback
  <2>1. /\ cur \in Threads /\ threads[cur].owned /\ threads[cur].state = "Terminated"
        /\ fired[cur] = 0
    BY <1>0, <1>13 DEF Callback, CallbackInv, CallbackPending, Places, Dispatched
  <2>2. /\ threads' = threads /\ pc' # "callback"
        /\ fired' = [fired EXCEPT ![cur] = 1]
    BY <1>0, <1>13, <2>1 DEF Callback, EndRound, OthersOK
  <2>3. QED
    BY <1>0, <2>1, <2>2 DEF CallbackInv, CallbackOnce, CallbackPending, OthersOK
<1>14. CASE SignalWaiter
  <2>1. AwayFromCallback
    BY <1>14 DEF SignalWaiter, AwayFromCallback
  <2> DEFINE t == Head(waiters[signaling])
  <2>2. signaling \in Events
    BY <1>0, <1>14 DEF SignalWaiter, Places
  <2>3. t \in Threads /\ threads' = [threads EXCEPT ![t] = MakeReady(@)]
    BY <1>0, <1>14, <2>2 DEF SignalWaiter, ListsOK
  <2>4. Linked(t, waiters[signaling])
    BY <1>0, <1>14, <2>2 DEF SignalWaiter, Linked, ListsOK
  <2> HIDE DEF t
  <2>5. threads[t].state = "Waiting"
    BY <1>0, <2>2, <2>3, <2>4 DEF QueuesMatchStates, WaitersMatch, Waits
  <2>6. \A u \in Threads : Undisturbed(u)
    BY <1>0, <2>3, <2>5 DEF ThreadsOK, Context, MakeReady, Undisturbed
  <2>7. QED BY <1>0, <2>1, <2>6, UndisturbedKeeps
<1>15. CASE SpawnClaim \/ SpawnFails
  BY <1>15 DEF SpawnClaim, SpawnFails, Goto
<1>16. CASE ThreadWaitCheck
  <2>1. AwayFromCallback
    BY <1>16 DEF ThreadWaitCheck, AwayFromCallback
  <2>2. cur \in Threads /\ threads[cur].state = "Running"
    BY <1>0, <1>16 DEF ThreadWaitCheck, EngineKnows, Places, Dispatched
  <2>3. \A u \in Threads : Undisturbed(u)
    <3>1. \/ threads' = [threads EXCEPT ![cur] = [MakeReady(@) EXCEPT !.pending = FALSE]]
          \/ threads' = threads
      BY <1>16 DEF ThreadWaitCheck
    <3>2. QED BY <1>0, <2>2, <3>1, ReadyUndisturbed DEF Undisturbed
  <2>4. QED BY <1>0, <2>1, <2>3, UndisturbedKeeps
<1>17. CASE ThreadWaitPark
  <2>1. AwayFromCallback
    BY <1>17 DEF ThreadWaitPark, AwayFromCallback
  <2>2. cur \in Threads /\ threads[cur].state = "Running"
    BY <1>0, <1>17 DEF ThreadWaitPark, EngineKnows, Places, Dispatched
  <2>3. \A u \in Threads : Undisturbed(u)
    BY <1>0, <1>17, <2>2 DEF ThreadWaitPark, ThreadsOK, Context, Undisturbed
  <2>4. QED BY <1>0, <2>1, <2>3, UndisturbedKeeps
<1>18. QED
  BY <1>2, <1>3, <1>4, <1>5, <1>6, <1>7, <1>8, <1>9, <1>10, <1>11, <1>12, <1>13,
     <1>14, <1>15, <1>16, <1>17 DEF EngineStep

LEMMA GuestKeepsCallbacks ==
  ASSUME SchedulerAssumption, IInv, TypeInv', CallbackInv, GuestLeaves \/ GuestGoesOn,
         "spawn" \notin GuestOps
  PROVE  CallbackInv'
<1> USE DEF others, host, lists, platform, scratch, engine
<1>0. /\ ThreadsOK /\ ListsOK /\ EngineOK /\ OthersOK /\ Places
      /\ EngineKnows /\ TypeInv /\ \A t \in Threads : threads[t] \in Context
  BY DEF IInv, SafetyInv, TypeInv, TypeOK, EngineInv, ThreadsOK
<1>1. ASSUME UNCHANGED threads, AwayFromCallback PROVE CallbackInv'
  BY <1>0, <1>1, UndisturbedKeeps DEF Undisturbed
<1>2. CASE Yield
  BY <1>1, <1>2 DEF Yield, Returns, AwayFromCallback
<1>3. ASSUME NEW r \in Results, Return(r) PROVE CallbackInv'
  BY <1>1, <1>3 DEF Return, Returns, AwayFromCallback
<1>4. ASSUME NEW e \in Events, EventWait(e) PROVE CallbackInv'
  <2>1. AwayFromCallback
    BY <1>4 DEF EventWait, Returns, AwayFromCallback
  <2>2. cur \in Threads /\ threads[cur].state = "Running"
    BY <1>0, <1>4 DEF EventWait, Returns, EngineKnows, Places, Dispatched
  <2>3. \A u \in Threads : Undisturbed(u)
    <3>1. \/ threads' = threads
          \/ threads' = [threads EXCEPT ![cur] = MakeReady(@)]
          \/ threads' = [threads EXCEPT ![cur].state = "Waiting", ![cur].kind = "Event"]
      BY <1>4 DEF EventWait
    <3>2. CASE threads' = [threads EXCEPT ![cur].state = "Waiting", ![cur].kind = "Event"]
      BY <1>0, <2>2, <3>2 DEF ThreadsOK, Context, Undisturbed
    <3>3. QED BY <1>0, <2>2, <3>1, <3>2, ReadyUndisturbed DEF Undisturbed
  <2>4. QED BY <1>0, <2>1, <2>3, UndisturbedKeeps
<1>5. ASSUME NEW d \in 0 .. MaxSleep, Sleep(d) PROVE CallbackInv'
  <2>1. AwayFromCallback
    BY <1>5 DEF Sleep, Returns, AwayFromCallback
  <2>2. cur \in Threads /\ threads[cur].state = "Running"
    BY <1>0, <1>5 DEF Sleep, Returns, EngineKnows, Places, Dispatched
  <2>3. \A u \in Threads : Undisturbed(u)
    BY <1>0, <1>5, <2>2 DEF Sleep, ThreadsOK, Context, Undisturbed
  <2>4. QED BY <1>0, <2>1, <2>3, UndisturbedKeeps
<1>6. CASE IoRegister
  BY <1>1, <1>6 DEF IoRegister, Goto, AwayFromCallback
<1>7. ASSUME NEW e \in Events, EventSignal(e) PROVE CallbackInv'
  BY <1>1, <1>7 DEF EventSignal, Goto, AwayFromCallback
<1>8. CASE SpawnFind
  BY <1>8 DEF SpawnFind
<1>9. QED
  BY <1>2, <1>3, <1>4, <1>5, <1>6, <1>7, <1>8 DEF GuestLeaves, GuestGoesOn

LEMMA CallersKeepCallbacks ==
  ASSUME SchedulerAssumption, Windows = {}, IInv, TypeInv', CallbackInv,
         RunBegin \/ Tick \/ UNCHANGED vars
         \/ (\E h \in Hosts : HostStarts(h) \/ HostFinishes(h))
         \/ (\E t \in Threads : IoFinishes(t))
  PROVE  CallbackInv'
<1> USE DEF others, host, lists, platform, scratch, engine
<1>0. /\ ThreadsOK /\ ListsOK /\ EngineOK /\ OthersOK /\ Places
      /\ HostsKnow /\ HandlesExclusive
      /\ TypeInv /\ \A t \in Threads : threads[t] \in Context
  BY DEF IInv, SafetyInv, TypeInv, TypeOK, ThreadsOK
<1>1. ASSUME UNCHANGED threads, AwayFromCallback PROVE CallbackInv'
  BY <1>0, <1>1, UndisturbedKeeps DEF Undisturbed
<1>2. CASE RunBegin
  BY <1>1, <1>2 DEF RunBegin, Goto, AwayFromCallback
<1>3. CASE Tick
  <2>1. AwayFromCallback
    BY <1>3 DEF Tick, AwayFromCallback
  <2>2. \A u \in Threads : Undisturbed(u)
    BY <1>0, <1>3 DEF Tick, ThreadsOK, Context, Undisturbed
  <2>3. QED BY <1>0, <2>1, <2>2, UndisturbedKeeps
<1>4. CASE UNCHANGED vars
  BY <1>1, <1>4 DEF vars, AwayFromCallback
<1>5. ASSUME NEW h \in Hosts, CreateHostThread(h) PROVE CallbackInv'
  <2> DEFINE t == FirstSlot(HostSlots)
  <2>1. /\ threads' = [threads EXCEPT ![t] =
                         [Reset EXCEPT !.id = t, !.state = "Created", !.owned = TRUE]]
        /\ fired' = [fired EXCEPT ![t] = 0] /\ pc' = pc /\ cur' = cur /\ res' = res
    BY <1>5 DEF CreateHostThread
  <2>2. t \in HostSlots
    BY <1>5, FirstSlotIsSlot DEF CreateHostThread, HostSlots
  <2> HIDE DEF t
  <2>3. t \in Threads /\ (pc = "callback" => cur # t)
    BY <2>2 DEF HostSlots, CallbackInv, CallbackPending
  <2>4. /\ \A u \in Threads \ {t} : threads'[u] = threads[u] /\ fired'[u] = fired[u]
        /\ threads'[t].cb = FALSE /\ fired'[t] = 0
    BY <1>0, <2>1, <2>3 DEF ThreadsOK, OthersOK, Reset
  <2>5. CallbackOnce'
    BY <2>3, <2>4 DEF CallbackInv, CallbackOnce
  <2>6. CallbackPending'
    BY <1>0, <2>1, <2>3, <2>4 DEF CallbackInv, CallbackPending, Places, Dispatched
  <2>7. (\A u \in Threads : threads[u].cb => threads[u].owned)'
    BY <2>4 DEF CallbackInv
  <2>8. QED BY <2>5, <2>6, <2>7 DEF CallbackInv
<1>6. ASSUME NEW h \in Hosts, SetThreadCallback(h) PROVE CallbackInv'
  <2>1. /\ handle[h] \in Threads /\ threads[handle[h]].owned
        /\ threads' = [threads EXCEPT ![handle[h]].cb = TRUE]
        /\ fired' = fired /\ pc' = pc /\ cur' = cur /\ res' = res
    BY <1>0, <1>6 DEF SetThreadCallback, HandlesExclusive, Mine, OthersOK
  <2>2. \A u \in Threads :
          /\ threads'[u].owned = threads[u].owned
          /\ threads'[u].state = threads[u].state
          /\ threads'[u].result = threads[u].result
          /\ threads'[u].cb => threads[u].cb \/ u = handle[h]
    BY <1>0, <2>1 DEF ThreadsOK, Context
  <2>3. QED
    BY <1>0, <2>1, <2>2 DEF CallbackInv, CallbackOnce, CallbackPending, Places, Dispatched
<1>7. ASSUME NEW h \in Hosts, StartThreadCheck(h) PROVE CallbackInv'
  BY <1>1, <1>7 DEF StartThreadCheck, AwayFromCallback
<1>8. ASSUME NEW h \in Hosts, DestroyHostThread(h) PROVE CallbackInv'
  <2>1. /\ handle[h] \in Threads /\ (pc = "callback" => cur # handle[h])
        /\ threads' = [threads EXCEPT ![handle[h]] = Reset]
        /\ fired' = fired /\ pc' = pc /\ cur' = cur /\ res' = res
    BY <1>0, <1>8 DEF DestroyHostThread, Open, OthersOK
  <2>2. /\ \A u \in Threads \ {handle[h]} : threads'[u] = threads[u]
        /\ threads'[handle[h]].owned = FALSE /\ threads'[handle[h]].cb = FALSE
    BY <1>0, <2>1 DEF ThreadsOK, Reset
  <2>3. CallbackOnce'
    BY <2>1, <2>2 DEF CallbackInv, CallbackOnce
  <2>4. CallbackPending'
    BY <1>0, <2>1, <2>2 DEF CallbackInv, CallbackPending, Places, Dispatched
  <2>5. (\A u \in Threads : threads[u].cb => threads[u].owned)'
    BY <2>2 DEF CallbackInv
  <2>6. QED BY <2>3, <2>4, <2>5 DEF CallbackInv
<1>9. ASSUME NEW h \in Hosts, Stop(h) PROVE CallbackInv'
  BY <1>1, <1>9 DEF Stop, AwayFromCallback
<1>10. ASSUME NEW h \in Hosts, StartThread(h) PROVE CallbackInv'
  <2>1. AwayFromCallback
    BY <1>10 DEF StartThread, AwayFromCallback
  <2>2. handle[h] \in Threads /\ threads[handle[h]].state = "Created"
    BY <1>0, <1>10 DEF StartThread, HostStep, Places, HostsKnow
  <2>3. \A u \in Threads : Undisturbed(u)
    BY <1>0, <1>10, <2>2 DEF StartThread, ThreadsOK, Context, Undisturbed
  <2>4. QED BY <1>0, <2>1, <2>3, UndisturbedKeeps
<1>11. ASSUME NEW h \in Hosts, HostNotifyActivity(h) PROVE CallbackInv'
  BY <1>1, <1>11 DEF HostNotifyActivity, AwayFromCallback
<1>12. ASSUME NEW t \in Threads, ThreadNotify(t) PROVE CallbackInv'
  <2>1. AwayFromCallback
    BY <1>12 DEF ThreadNotify, AwayFromCallback
  <2>2. \A u \in Threads : Undisturbed(u)
    <3>1. CASE threads[t].state = "Waiting" /\ threads[t].kind = "Notify"
      <4>1. threads' = [threads EXCEPT ![t] = MakeReady(@)]
        BY <1>12, <3>1 DEF ThreadNotify
      <4>2. QED BY <1>0, <3>1, <4>1, ReadyUndisturbed
    <3>2. CASE ~ (threads[t].state = "Waiting" /\ threads[t].kind = "Notify")
      <4>1. threads' = [threads EXCEPT ![t].pending = TRUE]
        BY <1>12, <3>2 DEF ThreadNotify
      <4>2. QED BY <1>0, <4>1 DEF ThreadsOK, Context, Undisturbed
    <3>3. QED BY <3>1, <3>2
  <2>3. QED BY <1>0, <2>1, <2>2, UndisturbedKeeps
<1>13. ASSUME NEW t \in Threads, IoNotifyActivity(t) PROVE CallbackInv'
  BY <1>1, <1>13 DEF IoNotifyActivity, AwayFromCallback
<1>14. QED
  BY <1>2, <1>3, <1>4, <1>5, <1>6, <1>7, <1>8, <1>9, <1>10, <1>11, <1>12, <1>13
     DEF HostStarts, HostFinishes, IoFinishes

(* Without thread_spawn, the engine thread is never in CreateThread.        *)
NoSpawning == pc # "spawn"

CallbackIInv == IInv /\ CallbackInv /\ NoSpawning

LEMMA CallbackStep ==
  ASSUME SchedulerAssumption, Windows = {}, "spawn" \notin GuestOps,
         CallbackIInv, [Next]_vars
  PROVE  CallbackIInv'
<1>1. IInv' /\ TypeInv'
  BY SafetyStep DEF CallbackIInv, IInv
<1>2. CallbackInv'
  BY <1>1, EngineKeepsCallbacks, GuestKeepsCallbacks, CallersKeepCallbacks
     DEF CallbackIInv, NoSpawning, Next
<1>3. NoSpawning'
  BY DEF CallbackIInv, NoSpawning, Next, RunBegin, EngineStep, LoopTop, PollExpired, PollDone,
     Pick, PickNone, WakeUp, AllocStack, AllocStackFails, Complete, EndRound, Requeue,
     Finish, Callback, SignalWaiter, SignalDone, SpawnClaim, SpawnFails,
     ThreadWaitCheck, ThreadWaitPark, GuestLeaves, Yield, Return, Returns, EventWait,
     Sleep, IoRegister, GuestGoesOn, EventSignal, SpawnFind, HostStarts, HostFinishes,
     CreateHostThread, SetThreadCallback, StartThreadCheck, DestroyHostThread, Stop,
     StartThread, HostNotifyActivity, HostStep, IoFinishes, ThreadNotify,
     IoNotifyActivity, Tick, Goto, vars, engine
<1>4. QED BY <1>1, <1>2, <1>3 DEF CallbackIInv

-----------------------------------------------------------------------------
(* The scheduler's state keeps its types, whatever gaps of the engine       *)
(* thread the other OS threads hit.                                         *)
THEOREM TypeCorrect == Spec => []TypeOK
<1>1. Init => TypeInv
  BY InitInv, SchedulerAssumption DEF IInv
<1>2. TypeInv /\ [Next]_vars => TypeInv'
  BY TypeInvStep, SchedulerAssumption
<1>3. TypeInv => TypeOK
  BY DEF TypeInv
<1>4. QED BY <1>1, <1>2, <1>3, PTL DEF Spec

(* When no other OS thread hits an unlocked gap of the engine thread, IInv  *)
(* is invariant.                                                            *)
THEOREM IInvHolds ==
  ASSUME Windows = {}
  PROVE  Spec => []IInv
<1>1. Init => IInv
  BY InitInv, SchedulerAssumption
<1>2. IInv /\ [Next]_vars => IInv'
  BY SafetyStep, SchedulerAssumption
<1>3. QED BY <1>1, <1>2, PTL DEF Spec

(* Then no context is ever lost from its list or linked twice, ...          *)
THEOREM QueuesCorrect ==
  ASSUME Windows = {}
  PROVE  Spec => []QueuesMatchStates
<1>1. IInv => QueuesMatchStates
  BY DEF IInv, SafetyInv
<1>2. QED BY <1>1, IInvHolds, PTL

(* ... GetCurrentThreadContext finds the dispatched thread, ...             *)
THEOREM OneRunningCorrect ==
  ASSUME Windows = {}
  PROVE  Spec => []OneRunning
<1>1. IInv => OneRunning
  BY DEF IInv, SafetyInv, EngineInv
<1>2. QED BY <1>1, IInvHolds, PTL

(* ... SignalEvent leaves no waiter of a signaled event behind, ...         *)
THEOREM SignalsCorrect ==
  ASSUME Windows = {}
  PROVE  Spec => []NoWaiterOfSignaled
<1>1. IInv => NoWaiterOfSignaled
  BY DEF IInv, SafetyInv, EngineInv
<1>2. QED BY <1>1, IInvHolds, PTL

(* ... no notification of finished I/O is lost, ...                         *)
THEOREM NotifyCorrect ==
  ASSUME Windows = {}
  PROVE  Spec => []NoLostNotify
<1>1. IInv => NoLostNotify
  BY DEF IInv, SafetyInv, IoInv
<1>2. QED BY <1>1, IInvHolds, PTL

(* ... and a host thread's slot is its creator's alone.                     *)
THEOREM HandlesCorrect ==
  ASSUME Windows = {}
  PROVE  Spec => []HandlesExclusive
<1>1. IInv => HandlesExclusive
  BY DEF IInv, SafetyInv
<1>2. QED BY <1>1, IInvHolds, PTL

(* When the guest code does not spawn threads either, CallbackIInv is       *)
(* invariant: ...                                                           *)
THEOREM CallbackIInvHolds ==
  ASSUME Windows = {}, "spawn" \notin GuestOps
  PROVE  Spec => []CallbackIInv
<1>1. Init => CallbackIInv
  <2>1. Init => IInv
    BY InitInv, SchedulerAssumption
  <2>2. Init => CallbackInv /\ NoSpawning
    BY DEF Init, CallbackInv, CallbackOnce, CallbackPending, NoSpawning, NullSlot, Reset
  <2>3. QED BY <2>1, <2>2 DEF CallbackIInv
<1>2. CallbackIInv /\ [Next]_vars => CallbackIInv'
  BY CallbackStep, SchedulerAssumption
<1>3. QED BY <1>1, <1>2, PTL DEF Spec

(* ... the completion callback of a host thread is called at most once, and *)
(* only after the thread has terminated, ...                                *)
THEOREM CallbackOnceCorrect ==
  ASSUME Windows = {}, "spawn" \notin GuestOps
  PROVE  Spec => []CallbackOnce
<1>1. CallbackIInv => CallbackOnce
  BY DEF CallbackIInv, CallbackInv
<1>2. QED BY <1>1, CallbackIInvHolds, PTL

(* ... and what it is given is the context of that thread, with the result  *)
(* the interpreter returned for it.                                         *)
THEOREM CallbackContextCorrect ==
  ASSUME Windows = {}, "spawn" \notin GuestOps
  PROVE  Spec => CallbackContext
<1>1. CallbackIInv => [Callback => /\ threads[cur].owned
                                   /\ threads[cur].state = "Terminated"
                                   /\ threads[cur].result = res]_vars
  BY DEF CallbackIInv, CallbackInv, CallbackPending, Callback
<1>2. QED BY <1>1, CallbackIInvHolds, PTL DEF CallbackContext

=============================================================================
