-------------------------- MODULE SchedulerProofs ---------------------------
(***************************************************************************)
(* Second part: every action keeps every thread in its place; no wake-up   *)
(* is lost; semaphores are what they promise; user registers and the       *)
(* machine status survive context switches.                                *)
(***************************************************************************)
EXTENDS SchedulerSteps

-----------------------------------------------------------------------------
(* The actions. *)

\* The constructor of Thread keeps every thread in its place.
LEMMA NewThreadPlaced ==
  ASSUME Placed, TypeOK', NEW t \in Threads, NewThread(t)
  PROVE  Placed'
<1>type. TypeOK
  BY PlacedParts
<1>1. /\ UNCHANGED <<currentThread, readyList, toBeDestroyed, pc, mode, queue, waitSem>>
      /\ mode = "thread" /\ status[t] = "UNUSED"
  BY DEF NewThread, InKernel, At, sched, sems
<1>2. /\ status'[t] = "JUST_CREATED" /\ ~space'[t]
      /\ \A u \in Threads \ {t} : status'[u] = status[u] /\ space'[u] = space[u]
  BY <1>type DEF TypeOK, NewThread
<1>3. \A u \in Threads : Finishing(u)' <=> Finishing(u)
  BY <1>1, <1>2 DEF Finishing
<1>4. \A u \in Threads : Place(u)'
  BY <1>1, <1>2, <1>3, PlacedParts DEF Place
<1>5. \A u \in Threads : Control(u)'
  BY <1>1, <1>2, PlacedParts DEF Control
<1>6. \A r \in Semaphores : QueuePlace(r)'
  <2> SUFFICES ASSUME NEW r \in Semaphores PROVE QueuePlace(r)'
    OBVIOUS
  <2>1. ASSUME NEW u \in Members(queue[r]) PROVE u \in Threads /\ u # t
    BY <1>type, <1>1, PlacedParts, QueueMembers DEF QueuePlace
  <2> QED BY <1>1, <1>2, <2>1, PlacedParts DEF QueuePlace
<1>7. CarcassCollected'
  <2>1. toBeDestroyed \in Threads \cup {NULL}
    BY <1>type DEF TypeOK
  <2> QED BY <1>1, <1>3, <2>1, PlacedParts DEF CarcassCollected
<1> QED BY <1>1, <1>4, <1>5, <1>6, <1>7, PlacedNext, PlacedParts

\* Thread::Fork keeps every thread in its place.
LEMMA ForkPlaced ==
  ASSUME Placed, TypeOK', NEW t \in Threads, Fork(t)
  PROVE  Placed'
<1>type. TypeOK
  BY PlacedParts
<1>1. /\ UNCHANGED <<currentThread, toBeDestroyed, mode, queue, waitSem, space>>
      /\ mode = "thread" /\ status[t] = "JUST_CREATED" /\ pc[currentThread] = "run"
      /\ readyList' = Append(readyList, t)
  BY DEF Fork, ReadyToRun, InKernel, At, sems, user
<1>2. /\ currentThread \in Threads /\ status[currentThread] = "RUNNING"
      /\ toBeDestroyed = NULL /\ waitSem[currentThread] = NULL /\ t # currentThread
  BY <1>1, RunningThread
<1>3. /\ status'[t] = "READY" /\ pc'[t] = "begin" /\ pc'[currentThread] = "tick"
      /\ \A u \in Threads \ {t} : status'[u] = status[u]
      /\ \A u \in Threads \ {t, currentThread} : pc'[u] = pc[u]
  BY <1>type, <1>2 DEF TypeOK, Fork, ReadyToRun
<1>4. t \notin Members(readyList) /\ pc[t] = "finish" /\ waitSem[t] = NULL /\ ~space[t]
  BY <1>1, PlacedParts DEF Place, Control
<1>5. Members(readyList') = Members(readyList) \cup {t} /\ NoRepeats(readyList')
  <2>1. readyList \in Seq(Threads) /\ NoRepeats(readyList)
    BY PlacedParts DEF TypeOK
  <2> QED BY <1>1, <1>4, <2>1, AppendQueue
<1>6. \A u \in Threads : Finishing(u)' <=> Finishing(u)
  BY <1>1, <1>2, <1>3 DEF Finishing
<1>7. \A u \in Threads : Place(u)'
  BY <1>1, <1>2, <1>3, <1>5, <1>6, PlacedParts DEF Place
<1>8. \A u \in Threads : Control(u)'
  <2> SUFFICES ASSUME NEW u \in Threads PROVE Control(u)'
    OBVIOUS
  <2>1. CASE u = t
    BY <1>1, <1>3, <1>4, <2>1 DEF Control
  <2>2. CASE u = currentThread
    BY <1>1, <1>2, <1>3, <2>2 DEF Control
  <2>3. CASE u # t /\ u # currentThread
    BY <1>1, <1>3, <2>3, PlacedParts DEF Control
  <2> QED BY <2>1, <2>2, <2>3
<1>9. \A r \in Semaphores : QueuePlace(r)'
  <2> SUFFICES ASSUME NEW r \in Semaphores PROVE QueuePlace(r)'
    OBVIOUS
  <2>1. ASSUME NEW u \in Members(queue[r]) PROVE u \in Threads /\ u # t
    BY <1>type, <1>1, PlacedParts, QueueMembers DEF QueuePlace
  <2> QED BY <1>1, <1>3, <2>1, PlacedParts DEF QueuePlace
<1>10. CarcassCollected'
  BY <1>1, <1>2, <1>6, PlacedParts DEF CarcassCollected
<1> QED BY <1>1, <1>5, <1>7, <1>8, <1>9, <1>10, PlacedNext

\* Thread::Finish makes the running thread the one finishing thread.
LEMMA FinishPlaced ==
  ASSUME Placed, TypeOK', Finish
  PROVE  Placed'
<1>type. TypeOK
  BY PlacedParts
<1>1. /\ UNCHANGED <<currentThread, readyList, toBeDestroyed, queue, waitSem, space>>
      /\ mode = "thread" /\ mode' = "sleep" /\ pc[currentThread] = "run"
      /\ Goto("finish") /\ status' = [status EXCEPT ![currentThread] = "BLOCKED"]
  BY DEF Finish, InKernel, At, sched, sems, user
<1>2. /\ currentThread \in Threads /\ status[currentThread] = "RUNNING"
      /\ toBeDestroyed = NULL /\ waitSem[currentThread] = NULL
      /\ currentThread \notin Members(readyList)
      /\ \A r \in Semaphores : currentThread \notin Members(queue[r])
  BY <1>1, RunningThread
<1>3. /\ status'[currentThread] = "BLOCKED" /\ pc'[currentThread] = "finish"
      /\ \A u \in Threads \ {currentThread} : status'[u] = status[u] /\ pc'[u] = pc[u]
  BY <1>type, <1>1, <1>2, GotoEffect DEF TypeOK
<1>4. \A u \in Threads : Place(u)'
  <2> SUFFICES ASSUME NEW u \in Threads PROVE Place(u)'
    OBVIOUS
  <2>1. CASE u = currentThread
    BY <1>1, <1>2, <1>3, <2>1 DEF Place, Finishing
  <2>2. CASE u # currentThread
    BY <1>1, <1>3, <2>2, PlacedParts DEF Place, Finishing
  <2> QED BY <2>1, <2>2
<1>5. \A u \in Threads : Control(u)'
  <2> SUFFICES ASSUME NEW u \in Threads PROVE Control(u)'
    OBVIOUS
  <2>1. CASE u = currentThread
    BY <1>1, <1>2, <1>3, <2>1 DEF Control
  <2>2. CASE u # currentThread
    BY <1>1, <1>3, <2>2, PlacedParts DEF Control
  <2> QED BY <2>1, <2>2
<1>6. \A r \in Semaphores : QueuePlace(r)'
  <2> SUFFICES ASSUME NEW r \in Semaphores PROVE QueuePlace(r)'
    OBVIOUS
  <2>1. ASSUME NEW u \in Members(queue[r]) PROVE u \in Threads /\ u # currentThread
    BY <1>type, <1>2, QueueMembers
  <2> QED BY <1>1, <1>3, <2>1, PlacedParts DEF QueuePlace
<1>7. CarcassCollected'
  BY <1>1, <1>2, <1>3, PlacedParts DEF CarcassCollected, Finishing
<1> QED BY <1>1, <1>2, <1>3, <1>4, <1>5, <1>6, <1>7, PlacedNext, PlacedParts

\* Queueing up in Semaphore::P keeps every thread in its place.
LEMMA BlockPlaced ==
  ASSUME Placed, TypeOK', BlockInP
  PROVE  Placed'
<1> DEFINE s == waitSem[currentThread]
<1>type. TypeOK
  BY PlacedParts
<1>1. /\ UNCHANGED <<currentThread, readyList, toBeDestroyed, pc, waitSem, space>>
      /\ mode = "thread" /\ mode' = "sleep" /\ pc[currentThread] = "P"
      /\ queue' = [queue EXCEPT ![s] = Append(@, currentThread)]
      /\ status' = [status EXCEPT ![currentThread] = "BLOCKED"]
  BY DEF BlockInP, At, sched, user
<1>2. /\ currentThread \in Threads /\ status[currentThread] = "RUNNING"
      /\ toBeDestroyed = NULL
      /\ currentThread \notin Members(readyList)
      /\ \A r \in Semaphores : currentThread \notin Members(queue[r])
  BY <1>1, RunningThread
<1>3. s \in Semaphores /\ s # NULL
  BY <1>type, <1>1, <1>2, PlacedParts DEF Control, TypeOK
<1>4. waitSem[currentThread] = s
  OBVIOUS
<1> HIDE DEF s
<1>5. /\ queue'[s] = Append(queue[s], currentThread)
      /\ \A r \in Semaphores \ {s} : queue'[r] = queue[r]
      /\ status'[currentThread] = "BLOCKED"
      /\ \A u \in Threads \ {currentThread} : status'[u] = status[u]
  BY <1>type, <1>1, <1>2, <1>3 DEF TypeOK
<1>6. Members(queue'[s]) = Members(queue[s]) \cup {currentThread} /\ NoRepeats(queue'[s])
  <2>1. queue[s] \in Seq(Threads) /\ NoRepeats(queue[s])
    BY <1>type, <1>3, PlacedParts DEF TypeOK, QueuePlace
  <2> QED BY <1>2, <1>3, <1>5, <2>1, AppendQueue
<1>7. \A u \in Threads : Place(u)'
  <2> SUFFICES ASSUME NEW u \in Threads PROVE Place(u)'
    OBVIOUS
  <2>1. CASE u = currentThread
    BY <1>1, <1>2, <1>3, <1>5, <1>6, <2>1 DEF Place, Finishing
  <2>2. CASE u # currentThread
    <3>1. \A r \in Semaphores : u \in Members(queue'[r]) <=> u \in Members(queue[r])
      BY <1>5, <1>6, <2>2, Zenon
    <3> QED BY <1>1, <1>5, <2>2, <3>1, PlacedParts DEF Place, Finishing
  <2> QED BY <2>1, <2>2
<1>8. \A u \in Threads : Control(u)'
  <2> SUFFICES ASSUME NEW u \in Threads PROVE Control(u)'
    OBVIOUS
  <2>1. CASE u = currentThread
    BY <1>1, <1>3, <1>4, <1>5, <2>1 DEF Control
  <2>2. CASE u # currentThread
    BY <1>1, <1>5, <2>2, PlacedParts DEF Control
  <2> QED BY <2>1, <2>2
<1>9. \A r \in Semaphores : QueuePlace(r)'
  <2> SUFFICES ASSUME NEW r \in Semaphores, NEW u \in Members(queue'[r])
               PROVE  status'[u] = "BLOCKED" /\ waitSem'[u] = r
    BY <1>5, <1>6, PlacedParts, Zenon DEF QueuePlace
  <2>1. CASE u = currentThread
    BY <1>1, <1>2, <1>4, <1>5, <2>1
  <2>2. CASE u # currentThread
    <3>1. u \in Members(queue[r]) /\ u \in Threads
      BY <1>type, <1>5, <1>6, <2>2, QueueMembers, Zenon
    <3> QED BY <1>1, <1>5, <2>2, <3>1, PlacedParts DEF QueuePlace
  <2> QED BY <2>1, <2>2
<1>10. CarcassCollected'
  BY <1>1, <1>2, <1>5, PlacedParts DEF CarcassCollected, Finishing
<1> QED BY <1>1, <1>5, <1>7, <1>8, <1>9, <1>10, PlacedNext, PlacedParts

\* Every step keeps every thread in its place.
LEMMA NextPlaced == Placed /\ [Next]_vars => Placed'
<1> SUFFICES ASSUME Placed, [Next]_vars PROVE Placed'
  OBVIOUS
<1>type. TypeOK /\ TypeOK'
  BY NextType, PlacedParts
<1> USE DEF sched, sems, user
<1>1. ASSUME NEW t \in Threads, NewThread(t) PROVE Placed'
  BY <1>type, <1>1, NewThreadPlaced
<1>2. ASSUME NEW t \in Threads, Fork(t) PROVE Placed'
  BY <1>type, <1>2, ForkPlaced
<1>3. ASSUME NEW s \in Semaphores, CallP(s) PROVE Placed'
  <2>1. /\ mode = "thread" /\ pc[currentThread] = "run" /\ Goto("P")
        /\ UNCHANGED <<currentThread, readyList, toBeDestroyed, status, mode, queue, space>>
        /\ waitSem' = [waitSem EXCEPT ![currentThread] = s]
    BY <1>3 DEF CallP, InKernel, At
  <2>2. /\ waitSem'[currentThread] # NULL
        /\ \A t \in Threads \ {currentThread} : waitSem'[t] = waitSem[t]
    BY <1>type, <2>1, SemaphoresAssumption DEF TypeOK
  <2>3. CheckToBeDestroyed
    BY <2>1, NoCarcass
  <2> QED BY <1>type, <2>1, <2>2, <2>3, MovePlaced
<1>4. ASSUME NEW s \in Semaphores, CallV(s) PROVE Placed'
  <2>1. SignalSem(s) /\ UNCHANGED <<mode, space>> /\ At("run") /\ Goto("tick")
    BY <1>4 DEF CallV, InKernel
  <2> QED BY <1>type, <2>1, SignalPlaced
<1>5. CASE Yield
  BY <1>type, <1>5, YieldPlaced DEF Yield, InKernel
<1>6. CASE Finish
  BY <1>type, <1>6, FinishPlaced
<1>7. CASE StartProcess
  <2>1. /\ UNCHANGED <<currentThread, readyList, toBeDestroyed>>
        /\ UNCHANGED <<status, pc, mode, queue, waitSem>>
        /\ mode = "thread" /\ pc[currentThread] = "run"
        /\ space' = [space EXCEPT ![currentThread] = TRUE]
    BY <1>7 DEF StartProcess, InKernel, At
  <2>2. status[currentThread] = "RUNNING"
    BY <2>1, RunningThread
  <2>3. \A t \in Threads \ {currentThread} : space'[t] = space[t]
    BY <1>type, <2>1 DEF TypeOK
  <2>4. \A t \in Threads : Control(t)'
    BY <2>1, <2>2, <2>3, PlacedParts DEF Control
  <2>5. (\A t \in Threads : Place(t)') /\ (\A r \in Semaphores : QueuePlace(r)')
    BY <2>1, PlacedParts DEF Place, QueuePlace, Finishing
  <2>6. CarcassCollected'
    BY <2>1, PlacedParts DEF CarcassCollected, Finishing
  <2> QED BY <1>type, <2>1, <2>4, <2>5, <2>6, PlacedNext, PlacedParts
<1>8. CASE \/ UserInstruction \/ ExceptionReturn \/ LeaveP
           \/ TickReturn /\ ~yieldOnReturn
  <2>1. /\ mode = "thread" /\ pc[currentThread] \in {"run", "tick", "P"}
        /\ Goto("tick") \/ Goto("run")
        /\ UNCHANGED <<currentThread, readyList, toBeDestroyed, status, mode, queue, space>>
    BY <1>8 DEF UserInstruction, ExceptionReturn, LeaveP, TickReturn, InKernel, At
  <2>2. /\ waitSem'[currentThread] = NULL
        /\ \A t \in Threads \ {currentThread} : waitSem'[t] = waitSem[t]
    <3>1. CASE LeaveP
      BY <1>type, <3>1 DEF TypeOK, LeaveP
    <3>2. CASE ~LeaveP
      <4>1. UNCHANGED waitSem /\ pc[currentThread] \in {"run", "tick"}
        BY <1>8, <3>2 DEF UserInstruction, ExceptionReturn, TickReturn, InKernel, At
      <4> QED BY <2>1, <4>1, RunningThread
    <3> QED BY <3>1, <3>2
  <2>3. CheckToBeDestroyed
    BY <2>1, NoCarcass
  <2> QED BY <1>type, <2>1, <2>2, <2>3, MovePlaced
<1>9. CASE BlockInP
  BY <1>type, <1>9, BlockPlaced
<1>10. CASE Dispatch
  BY <1>type, <1>10, DispatchPlaced
<1>11. CASE Begin
  <2>1. waitSem[currentThread] = NULL
    BY <1>11, RunningThread DEF Begin, At
  <2> QED BY <1>type, <1>11, <2>1, MovePlaced DEF Begin, At
<1>12. CASE Resume
  <2>1. /\ mode = "thread" /\ CheckToBeDestroyed
        /\ UNCHANGED <<currentThread, readyList, mode, queue, waitSem, space>>
        /\ \/ waitSem[currentThread] # NULL /\ Goto("P")
           \/ waitSem[currentThread] = NULL /\ Goto("tick")
    BY <1>12 DEF Resume, At
  <2> QED BY <1>type, <2>1, MovePlaced
<1>13. CASE TickReturn /\ yieldOnReturn
  BY <1>type, <1>13, YieldPlaced DEF TickReturn
<1>14. ASSUME NEW s \in Semaphores, TickDevice(s) \/ IdleDevice(s) PROVE Placed'
  <2>1. SignalSem(s) /\ UNCHANGED <<mode, space, pc>>
    BY <1>14 DEF TickDevice, IdleDevice
  <2> QED BY <1>type, <2>1, SignalPlaced
<1>15. CASE RaiseException \/ Idle \/ IdleReturn \/ TickTimer \/ UNCHANGED vars
  <2>1. /\ UNCHANGED <<currentThread, readyList, toBeDestroyed>>
        /\ UNCHANGED <<status, pc, queue, waitSem, space>>
        /\ UNCHANGED mode \/ (mode # "thread" /\ mode' # "thread")
    BY <1>15 DEF RaiseException, Idle, IdleReturn, TickTimer, vars
  <2> QED BY <1>type, <2>1, SamePlaced
<1> QED
  BY <1>1, <1>2, <1>3, <1>4, <1>5, <1>6, <1>7, <1>8, <1>9, <1>10, <1>11, <1>12,
     <1>13, <1>14, <1>15, SemaphoresAssumption
     DEF Next, ThreadStep, KernelStep, DeviceStep

\* The inductive invariant holds in every reachable state.
LEMMA AlwaysPlaced == Spec => []Placed
<1> QED BY InitPlaced, NextPlaced, PTL DEF Spec

\* Every thread is in exactly one place, the one its status names, and on no
\* list twice: what List::Append asserts and all the Thread pointers rely on.
THEOREM PlacementCorrect == Spec => []ThreadPlacement
<1>1. Placed => ThreadPlacement
  BY DEF Placed
<1> QED BY <1>1, AlwaysPlaced, PTL

\* A thread's status and the point where its code continues agree, so Run and
\* ThreadRoot always continue a thread where it left.
THEOREM ControlCorrect == Spec => []ControlPoints
<1>1. Placed => ControlPoints
  BY DEF Placed
<1> QED BY <1>1, AlwaysPlaced, PTL

\* A finished thread is deleted once, by the next thread to run and never by
\* itself: the assertions of Scheduler::Run and of the destructor of Thread hold.
THEOREM CarcassCorrect == Spec => []CarcassCollected
<1>1. Placed => CarcassCollected
  BY DEF Placed
<1> QED BY <1>1, AlwaysPlaced, PTL

-----------------------------------------------------------------------------
(* No lost wake-up. *)

Finite == INSTANCE FiniteSetTheorems

LEMMA SameCount ==
  \A S : /\ Cardinality(S) = Finite!Cardinality(S)
         /\ IsFiniteSet(S) <=> Finite!IsFiniteSet(S)
<1>1. \A S : IsFiniteSet(S) <=> Finite!IsFiniteSet(S)
  BY Zenon DEF IsFiniteSet, Finite!IsFiniteSet
<1>2. \A S : Cardinality(S) = Finite!Cardinality(S)
  BY Zenon DEF Cardinality, Finite!Cardinality
<1>3. QED
  BY <1>1, <1>2, Zenon

LEMMA CountOne ==
  ASSUME NEW S, NEW x, IsFiniteSet(S)
  PROVE  /\ x \notin S => Cardinality(S \cup {x}) = Cardinality(S) + 1
         /\ x \in S => Cardinality(S \ {x}) = Cardinality(S) - 1
<1>1. ASSUME x \notin S PROVE Cardinality(S \cup {x}) = Cardinality(S) + 1
  BY <1>1, SameCount, Finite!FS_AddElement, Zenon
<1>2. ASSUME x \in S PROVE Cardinality(S \ {x}) = Cardinality(S) - 1
  BY <1>2, SameCount, Finite!FS_RemoveElement, Zenon
<1>3. QED
  BY <1>1, <1>2, Zenon

LEMMA CountPart ==
  ASSUME NEW S, IsFiniteSet(S), NEW T \in SUBSET S
  PROVE  /\ IsFiniteSet(T) /\ Cardinality(T) \in Nat
         /\ Cardinality(T) <= Cardinality(S)
         /\ Cardinality(S) = Cardinality(T) => S = T
BY SameCount, Finite!FS_Subset, Finite!FS_CardinalityType, Zenon

\* The woken threads of a semaphore are finitely many.
LEMMA WokenFinite ==
  ASSUME NEW s \in Semaphores
  PROVE  IsFiniteSet(Woken(s)) /\ Cardinality(Woken(s)) \in Nat
BY ThreadsAssumption, CountPart DEF Woken

\* A signal adds a unit and, if anyone sleeps, a woken thread.
LEMMA SignalWakes ==
  ASSUME Placed, NoLostWakeup, NEW s \in Semaphores, SignalSem(s)
  PROVE  NoLostWakeup'
<1> SUFFICES ASSUME NEW r \in Semaphores, queue'[r] # <<>>
             PROVE  value'[r] <= Cardinality(Woken(r)')
  BY DEF NoLostWakeup
<1>0. /\ waitSem' = waitSem
      /\ value'[s] = value[s] + 1 /\ \A q \in Semaphores \ {s} : value'[q] = value[q]
  BY DEF Placed, TypeOK, SignalSem
<1>1. CASE queue[s] = <<>> /\ UNCHANGED <<queue, status, readyList>>
  <2>1. r # s
    BY <1>1
  <2>2. Woken(r)' = Woken(r)
    BY <1>0, <1>1 DEF Woken
  <2> QED BY <1>0, <1>1, <2>1, <2>2 DEF NoLostWakeup
<1>2. ASSUME NEW h \in Threads,
             queue[s] # <<>>,
             h \in Members(queue[s]),
             Members(queue'[s]) = Members(queue[s]) \ {h},
             \A q \in Semaphores \ {s} : queue'[q] = queue[q]
      PROVE  value'[r] <= Cardinality(Woken(r)')
  <2>1. CASE r = s
    <3>1. waitSem[h] = s
      BY <1>2 DEF Placed, ThreadPlacement
    <3>2. Woken(s)' = Woken(s) \cup {h} /\ h \notin Woken(s)
      BY <1>0, <1>2, <3>1 DEF Woken
    <3>3. Cardinality(Woken(s)') = Cardinality(Woken(s)) + 1
      BY <3>2, WokenFinite, CountOne, Zenon
    <3>4. value[s] <= Cardinality(Woken(s)) /\ value[s] \in Nat
      BY <1>2 DEF NoLostWakeup, Placed, TypeOK
    <3> QED BY <1>0, <2>1, <3>3, <3>4, WokenFinite
  <2>2. CASE r # s
    <3>1. Woken(r)' = Woken(r) /\ queue'[r] = queue[r]
      BY <1>0, <1>2, <2>2 DEF Woken
    <3> QED BY <1>0, <2>2, <3>1 DEF NoLostWakeup
  <2> QED BY <2>1, <2>2
<1> QED BY <1>1, <1>2, SignalEffect

\* Every step keeps the match between units and woken threads.
LEMMA NextNoLostWakeup == Placed /\ NoLostWakeup /\ [Next]_vars => NoLostWakeup'
<1> SUFFICES ASSUME Placed, NoLostWakeup, [Next]_vars PROVE NoLostWakeup'
  OBVIOUS
<1> USE DEF sched, sems, user, level
<1>1. CASE UNCHANGED sems
  BY <1>1 DEF NoLostWakeup, Woken
<1>2. ASSUME NEW s \in Semaphores, SignalSem(s) PROVE NoLostWakeup'
  BY <1>2, SignalWakes
<1>3. ASSUME NEW s \in Semaphores, CallP(s) PROVE NoLostWakeup'
  <2> SUFFICES ASSUME NEW r \in Semaphores, queue'[r] # <<>>
               PROVE  value'[r] <= Cardinality(Woken(r)')
    BY DEF NoLostWakeup
  <2>1. currentThread \in Threads /\ waitSem[currentThread] = NULL
    BY <1>3, Zenon DEF CallP, InKernel, At, Placed, TypeOK, ControlPoints
  <2>2. UNCHANGED <<value, queue>> /\ waitSem' = [waitSem EXCEPT ![currentThread] = s]
    BY <1>3 DEF CallP
  <2>3. Woken(r) \subseteq Woken(r)'
    BY <2>1, <2>2, SemaphoresAssumption DEF Woken, Placed, TypeOK
  <2>4. IsFiniteSet(Woken(r)') /\ Cardinality(Woken(r)') \in Nat
    BY ThreadsAssumption, CountPart DEF Woken
  <2>5. Cardinality(Woken(r)) <= Cardinality(Woken(r)')
    BY <2>3, <2>4, CountPart
  <2>6. value[r] <= Cardinality(Woken(r)) /\ value[r] \in Nat
    BY <2>2 DEF NoLostWakeup, Placed, TypeOK
  <2> QED BY <2>2, <2>4, <2>5, <2>6, WokenFinite
<1>4. CASE BlockInP
  <2> DEFINE s == waitSem[currentThread]
  <2> SUFFICES ASSUME NEW r \in Semaphores, queue'[r] # <<>>
               PROVE  value'[r] <= Cardinality(Woken(r)')
    BY DEF NoLostWakeup
  <2>1. /\ s \in Semaphores /\ value[s] = 0 /\ UNCHANGED <<value, waitSem>>
        /\ \A q \in Semaphores \ {s} : queue'[q] = queue[q]
    BY <1>4 DEF BlockInP, At, Placed, TypeOK, ControlPoints
  <2>2. CASE r = s
    <3>1. Cardinality(Woken(r)') \in Nat
      BY ThreadsAssumption, CountPart DEF Woken
    <3> QED BY <2>1, <2>2, <3>1
  <2>3. CASE r # s
    <3>1. Woken(r)' = Woken(r) /\ queue'[r] = queue[r]
      BY <2>1, <2>3 DEF Woken
    <3> QED BY <2>1, <3>1 DEF NoLostWakeup
  <2> QED BY <2>2, <2>3
<1>5. CASE LeaveP
  <2> DEFINE s == waitSem[currentThread]
  <2> SUFFICES ASSUME NEW r \in Semaphores, queue'[r] # <<>>
               PROVE  value'[r] <= Cardinality(Woken(r)')
    BY DEF NoLostWakeup
  <2>1. /\ s \in Semaphores /\ currentThread \in Threads /\ UNCHANGED queue
        /\ value'[s] = value[s] - 1 /\ \A q \in Semaphores \ {s} : value'[q] = value[q]
        /\ waitSem' = [waitSem EXCEPT ![currentThread] = NULL]
    BY <1>5 DEF LeaveP, At, Placed, TypeOK, ControlPoints
  <2>2. value[r] <= Cardinality(Woken(r)) /\ value[r] \in Nat
    BY <2>1 DEF NoLostWakeup, Placed, TypeOK
  <2>3. CASE r = s
    <3>1. currentThread \notin Members(queue[s])
      BY <1>5, <2>1, Zenon DEF LeaveP, At, Placed, ThreadPlacement
    <3>2. currentThread \in Woken(r) /\ Woken(r)' = Woken(r) \ {currentThread}
      BY <2>1, <2>3, <3>1, SemaphoresAssumption DEF Woken, Placed, TypeOK
    <3>3. Cardinality(Woken(r)') = Cardinality(Woken(r)) - 1
      BY <3>2, WokenFinite, CountOne, Zenon
    <3> QED BY <2>1, <2>2, <2>3, <3>3, WokenFinite
  <2>4. CASE r # s
    <3>1. Woken(r)' = Woken(r)
      BY <2>1, <2>4, SemaphoresAssumption DEF Woken, Placed, TypeOK
    <3> QED BY <2>1, <2>2, <2>4, <3>1
  <2> QED BY <2>3, <2>4
<1> QED
  BY <1>1, <1>2, <1>3, <1>4, <1>5, SemaphoresAssumption, Zenon
     DEF Next, ThreadStep, KernelStep, DeviceStep, vars, NewThread, Fork, CallV, Yield,
         Finish, StartProcess, UserInstruction, RaiseException, ExceptionReturn, Dispatch,
         Begin, Resume, TickReturn, Idle, IdleReturn, TickDevice, IdleDevice, TickTimer

\* No wake-up is lost: while threads sleep on a semaphore, every unit of its value
\* has an awake thread in P to take it, whatever barging happens.
THEOREM WakeupCorrect == Spec => []NoLostWakeup
<1>1. Init => NoLostWakeup
  BY DEF Init, NoLostWakeup
<1> QED BY <1>1, AlwaysPlaced, NextNoLostWakeup, PTL DEF Spec

-----------------------------------------------------------------------------
(* The implementation of semaphores keeps their promise. *)

\* Every step is a step of the atomic semaphore, or leaves it alone.
LEMMA StepKeepsPromise ==
  Placed /\ [Next]_vars => [AtomicSemaphore!Next]_<<value, waitSem>>
<1> SUFFICES ASSUME Placed, [Next]_vars,
                    ~UNCHANGED <<value, waitSem>>
             PROVE  AtomicSemaphore!Next
  OBVIOUS
<1> USE DEF sched, sems, user, level
<1>0. TypeOK
  BY DEF Placed
<1>1. ASSUME NEW s \in Semaphores, SignalSem(s) PROVE AtomicSemaphore!Next
  BY <1>1, Zenon DEF SignalSem, AtomicSemaphore!Next, AtomicSemaphore!V
<1>2. ASSUME NEW s \in Semaphores, CallP(s) PROVE AtomicSemaphore!Next
  <2>1. currentThread \in Threads /\ waitSem[currentThread] = NULL
    BY <1>0, <1>2, Zenon DEF CallP, InKernel, At, Placed, TypeOK, ControlPoints
  <2> QED BY <1>2, <2>1, Zenon DEF CallP, AtomicSemaphore!Next, AtomicSemaphore!StartP
<1>3. CASE LeaveP
  <2>1. /\ currentThread \in Threads /\ waitSem[currentThread] # NULL
        /\ waitSem[currentThread] \in Semaphores
        /\ value[waitSem[currentThread]] \in Nat
    BY <1>0, <1>3 DEF LeaveP, At, Placed, TypeOK, ControlPoints
  <2>2. value[waitSem[currentThread]] > 0
    BY <1>3, <2>1 DEF LeaveP
  <2> QED BY <1>3, <2>1, <2>2, Zenon DEF LeaveP, AtomicSemaphore!Next, AtomicSemaphore!FinishP
<1> QED
  BY <1>1, <1>2, <1>3, SemaphoresAssumption, Zenon
     DEF Next, ThreadStep, KernelStep, DeviceStep, vars, NewThread, Fork, CallV, Yield,
         Finish, StartProcess, UserInstruction, RaiseException, ExceptionReturn, BlockInP,
         Dispatch, Begin, Resume, TickReturn, Idle, IdleReturn, TickDevice, IdleDevice,
         TickTimer

\* Semaphore::P and Semaphore::V, with the scheduler and the interrupts below
\* them, implement the atomic semaphore of threads/synch.h.
THEOREM SemaphoreRefinement == Spec => SemaphorePromise
<1>1. Init => AtomicSemaphore!Init
  BY DEF Init, AtomicSemaphore!Init
<1> QED BY <1>1, AlwaysPlaced, StepKeepsPromise, PTL
        DEF Spec, SemaphorePromise, AtomicSemaphore!Spec

-----------------------------------------------------------------------------
(* The user registers and the machine status. *)

\* A thread whose user registers matter.
Needs(t) == space[t] /\ status[t] \in {"RUNNING", "READY", "BLOCKED"} /\ pc[t] # "finish"

\* The current thread has the processor back, and not its registers yet.
Switched == mode = "thread" /\ pc[currentThread] = "switched"

\* A step without a switch that starts no user program leaves the registers alone.
LEMMA QuietRegs ==
  ASSUME UserRegistersKept, UNCHANGED <<currentThread, machineRegs>>,
         \A t \in Threads : Needs(t)' => Needs(t),
         \A t \in Threads \ {currentThread} : savedRegs'[t] = savedRegs[t],
         ~Switched, ~Switched'
  PROVE  UserRegistersKept'
BY DEF UserRegistersKept, Needs, Switched

\* A switch saves the registers of the thread that leaves.
LEMMA SwitchRegs ==
  ASSUME TypeOK, UserRegistersKept, ~Switched,
         NEW next \in Threads, SwitchTo(next), mode' = "thread",
         \A t \in Threads : Needs(t)' => Needs(t),
         pc'[next] = "switched" \/ (pc'[next] = "begin" /\ ~space[next])
  PROVE  UserRegistersKept'
<1>1. /\ currentThread' = next /\ UNCHANGED <<space, machineRegs>>
      /\ currentThread \in Threads /\ savedRegs \in [Threads -> BOOLEAN]
      /\ savedRegs' = IF space[currentThread]
                      THEN [savedRegs EXCEPT ![currentThread] = (machineRegs = currentThread)]
                      ELSE savedRegs
  BY DEF SwitchTo, TypeOK
<1>2. ASSUME NEW t \in Threads, Needs(t)' PROVE savedRegs'[t]
  <2>1. Needs(t) /\ space[t]
    BY <1>2 DEF Needs
  <2>2. CASE t = currentThread
    <3>1. machineRegs = t
      BY <2>1, <2>2 DEF UserRegistersKept, Needs, Switched
    <3> QED BY <1>1, <2>1, <2>2, <3>1, Zenon
  <2>3. CASE t # currentThread
    <3>1. savedRegs[t]
      BY <2>1, <2>3 DEF UserRegistersKept, Needs
    <3> QED BY <1>1, <2>3, <3>1
  <2> QED BY <2>2, <2>3
<1>3. Needs(next)' => pc'[next] = "switched"
  BY <1>1 DEF Needs
<1> QED BY <1>1, <1>2, <1>3 DEF UserRegistersKept, Needs

\* Every step keeps the user registers where they belong.
LEMMA NextUserRegisters == Placed /\ UserRegistersKept /\ [Next]_vars => UserRegistersKept'
<1> SUFFICES ASSUME Placed, UserRegistersKept, [Next]_vars PROVE UserRegistersKept'
  OBVIOUS
<1>type. TypeOK
  BY PlacedParts
<1>types. /\ currentThread \in Threads /\ status \in [Threads -> Status]
          /\ pc \in [Threads -> Points] /\ space \in [Threads -> BOOLEAN]
          /\ savedRegs \in [Threads -> BOOLEAN]
  BY <1>type DEF TypeOK
<1> USE DEF sched, sems, user
<1>1. ASSUME NEW t \in Threads, NewThread(t) PROVE UserRegistersKept'
  <2>1. \A u \in Threads : Needs(u)' => Needs(u)
    BY <1>types, <1>1 DEF NewThread, Needs
  <2> QED BY <1>1, <2>1, QuietRegs DEF NewThread, InKernel, At, Switched
<1>2. ASSUME NEW t \in Threads, Fork(t) PROVE UserRegistersKept'
  <2>1. mode = "thread" /\ status[t] = "JUST_CREATED" /\ pc[currentThread] = "run"
    BY <1>2 DEF Fork, InKernel, At
  <2>2. ~space[t] /\ t # currentThread
    BY <1>types, <2>1, RunningThread, PlacedParts DEF Control
  <2>3. \A u \in Threads : Needs(u)' => Needs(u)
    BY <1>types, <1>2, <2>1, <2>2 DEF Fork, ReadyToRun, Needs
  <2>4. pc'[currentThread] = "tick"
    BY <1>types, <1>2 DEF Fork
  <2> QED BY <1>2, <2>1, <2>3, <2>4, QuietRegs DEF Fork, Switched
<1>3. ASSUME NEW s \in Semaphores, CallP(s) PROVE UserRegistersKept'
  <2>1. \A u \in Threads : Needs(u)' => Needs(u)
    BY <1>types, <1>3 DEF CallP, Goto, InKernel, At, Needs
  <2> QED BY <1>types, <1>3, <2>1, QuietRegs DEF CallP, Goto, InKernel, At, Switched
<1>4. ASSUME NEW s \in Semaphores, SignalSem(s), UNCHANGED <<mode, user>>,
             \/ UNCHANGED pc /\ ~Switched
             \/ At("run") /\ Goto("tick")
      PROVE  UserRegistersKept'
  <2>1. \A u \in Threads : status'[u] = status[u] \/ status[u] = "BLOCKED"
    <3>1. \A u \in Members(queue[s]) : status[u] = "BLOCKED"
      BY PlacedParts DEF QueuePlace
    <3> QED BY <1>types, <1>4, <3>1, SignalEffect
  <2>2. UNCHANGED currentThread /\ \A u \in Threads : pc'[u] = "finish" <=> pc[u] = "finish"
    BY <1>types, <1>4 DEF SignalSem, Goto, At
  <2>3. \A u \in Threads : Needs(u)' => Needs(u)
    BY <1>4, <2>1, <2>2 DEF Needs
  <2>4. ~Switched /\ ~Switched'
    BY <1>types, <1>4, <2>2 DEF Switched, Goto, At
  <2> QED BY <1>4, <2>2, <2>3, <2>4, QuietRegs
<1>5. ASSUME YieldBody, UNCHANGED mode, At("run") \/ At("tick") PROVE UserRegistersKept'
  <2>1. mode = "thread" /\ pc[currentThread] \in {"run", "tick"} /\ ~Switched
    BY <1>5 DEF At, Switched
  <2>2. status[currentThread] = "RUNNING"
    BY <2>1, RunningThread
  <2>3. CASE Goto("tick") /\ UNCHANGED <<sched, status, user>>
    <3>1. \A u \in Threads : Needs(u)' => Needs(u)
      BY <1>types, <2>1, <2>3 DEF Goto, Needs
    <3>2. ~Switched'
      BY <1>types, <2>3 DEF Goto, Switched
    <3> QED BY <2>1, <2>3, <3>1, <3>2, QuietRegs
  <2>4. ASSUME NEW next \in Threads,
               next \in Members(readyList), next # currentThread,
               status' = [status EXCEPT ![currentThread] = "READY", ![next] = "RUNNING"],
               SwitchTo(next),
               Goto("switched")
        PROVE  UserRegistersKept'
    <3>1. status[next] = "READY"
      BY <2>4, PlacedParts DEF Place
    <3>2. pc[next] \in {"begin", "switched"} /\ (pc[next] = "begin" => ~space[next])
      BY <1>types, <2>4, <3>1, PlacedParts DEF Control, Points
    <3>3. pc'[next] = pc[next]
      BY <1>types, <2>4 DEF Goto
    <3>4. \A u \in Threads : Needs(u)' => Needs(u)
      BY <1>types, <2>1, <2>2, <2>4, <3>1, <3>2 DEF Goto, Needs, SwitchTo
    <3> QED BY <1>type, <1>5, <2>1, <2>4, <3>2, <3>3, <3>4, SwitchRegs
  <2> QED BY <1>5, <2>1, <2>3, <2>4, YieldEffect, Zenon
<1>6. CASE Finish \/ UserInstruction \/ ExceptionReturn \/ BlockInP \/ LeaveP
           \/ (TickReturn /\ ~yieldOnReturn)
  <2>1. /\ UNCHANGED <<currentThread, machineRegs, space>>
        /\ ~Switched /\ mode = "thread" /\ pc[currentThread] # "finish"
        /\ \A u \in Threads \ {currentThread} : savedRegs'[u] = savedRegs[u]
    BY <1>types, <1>6 DEF Finish, UserInstruction, ExceptionReturn, BlockInP, LeaveP,
                          TickReturn, InKernel, At, Switched
  <2>2. status[currentThread] = "RUNNING"
    BY <2>1, RunningThread
  <2>3. /\ \A u \in Threads \ {currentThread} : status'[u] = status[u] /\ pc'[u] = pc[u]
        /\ ~Switched'
    BY <1>types, <1>6 DEF Finish, UserInstruction, ExceptionReturn, BlockInP, LeaveP,
                          TickReturn, Goto, At, Switched
  <2>4. \A u \in Threads : Needs(u)' => Needs(u)
    BY <2>1, <2>2, <2>3 DEF Needs
  <2> QED BY <2>1, <2>3, <2>4, QuietRegs
<1>7. CASE StartProcess
  <2>1. /\ UNCHANGED <<currentThread, status, pc, mode>> /\ machineRegs' = currentThread
        /\ mode = "thread" /\ pc[currentThread] = "run"
        /\ \A u \in Threads \ {currentThread} :
             space'[u] = space[u] /\ savedRegs'[u] = savedRegs[u]
    BY <1>types, <1>7 DEF StartProcess, InKernel, At
  <2> QED BY <2>1 DEF UserRegistersKept
<1>8. CASE Dispatch
  <2> DEFINE next == Head(readyList)
  <2>1. /\ next \in Threads /\ next \in Members(readyList)
        /\ status' = [status EXCEPT ![next] = "RUNNING"]
        /\ SwitchTo(next) /\ mode = "sleep" /\ mode' = "thread"
    BY <1>type, <1>8, TailQueue DEF Dispatch, TypeOK
  <2> HIDE DEF next
  <2>2. status[next] = "READY"
    BY <2>1, PlacedParts DEF Place
  <2>3. /\ pc[next] \in {"begin", "switched", "P"}
        /\ pc[next] = "begin" => ~space[next]
        /\ pc[next] = "P" => next = currentThread
    BY <1>types, <2>1, <2>2, PlacedParts DEF Control, Points
  <2>4. \/ pc[currentThread] = "finish" /\ UNCHANGED pc
        \/ /\ pc[currentThread] # "finish" /\ pc'[currentThread] = "switched"
           /\ \A u \in Threads \ {currentThread} : pc'[u] = pc[u]
    BY <1>types, <1>8 DEF Dispatch, Goto
  <2>5. pc[currentThread] \in {"P", "finish"}
    BY <2>1, PlacedParts
  <2>6. \A u \in Threads : Needs(u)' => Needs(u)
    BY <1>types, <2>1, <2>2, <2>4 DEF Needs, SwitchTo
  <2>7. pc'[next] = "switched" \/ (pc'[next] = "begin" /\ ~space[next])
    BY <2>1, <2>3, <2>4, <2>5
  <2> QED BY <1>type, <2>1, <2>6, <2>7, SwitchRegs DEF Switched
<1>9. CASE Begin \/ Resume
  <2>1. /\ UNCHANGED <<currentThread, mode, space, savedRegs>>
        /\ mode = "thread" /\ CheckToBeDestroyed
        /\ Goto("tick") \/ Goto("P")
        /\ pc[currentThread] # "finish"
    BY <1>9 DEF Begin, Resume, At
  <2>2. /\ pc'[currentThread] \in {"tick", "P"}
        /\ \A u \in Threads \ {currentThread} : pc'[u] = pc[u]
    BY <1>types, <2>1 DEF Goto
  <2>3. \A u \in Threads : Needs(u)' => Needs(u)
    BY <2>1, <2>2 DEF Needs, CheckToBeDestroyed
  <2>4. CASE Begin
    BY <2>1, <2>2, <2>3, <2>4, QuietRegs DEF Begin, At, Switched
  <2>5. CASE Resume
    <3>1. /\ pc[currentThread] = "switched"
          /\ machineRegs' = IF space[currentThread]
                            THEN IF savedRegs[currentThread] THEN currentThread ELSE NULL
                            ELSE machineRegs
      BY <2>5 DEF Resume, At
    <3>2. Needs(currentThread) => savedRegs[currentThread] /\ space[currentThread]
      BY <1>types, <2>1, <3>1 DEF UserRegistersKept, Needs
    <3>3. ASSUME NEW t \in Threads, Needs(t)'
          PROVE  IF t = currentThread THEN machineRegs' = t ELSE savedRegs'[t]
      <4>1. Needs(t)
        BY <2>3, <3>3
      <4>2. CASE t = currentThread
        BY <3>1, <3>2, <4>1, <4>2
      <4>3. CASE t # currentThread
        BY <2>1, <4>1, <4>3 DEF UserRegistersKept, Needs
      <4> QED BY <4>2, <4>3
    <3> QED BY <2>1, <2>2, <3>3 DEF UserRegistersKept, Needs
  <2> QED BY <1>9, <2>4, <2>5
<1>10. CASE UNCHANGED <<currentThread, status, pc, user>>
            /\ (UNCHANGED mode \/ (mode # "thread" /\ mode' # "thread"))
  BY <1>10 DEF UserRegistersKept
<1>11. ASSUME NEW s \in Semaphores, CallV(s) PROVE UserRegistersKept'
  BY <1>4, <1>11 DEF CallV, InKernel
<1>12. ASSUME NEW s \in Semaphores, TickDevice(s) \/ IdleDevice(s) PROVE UserRegistersKept'
  BY <1>4, <1>12 DEF TickDevice, IdleDevice, At, Switched
<1>13. CASE Yield \/ (TickReturn /\ yieldOnReturn)
  BY <1>5, <1>13 DEF Yield, TickReturn, InKernel
<1>14. CASE RaiseException \/ Idle \/ IdleReturn \/ TickTimer \/ UNCHANGED vars
  BY <1>10, <1>14 DEF RaiseException, Idle, IdleReturn, TickTimer, vars
<1> QED
  BY <1>1, <1>2, <1>3, <1>6, <1>7, <1>8, <1>9, <1>11, <1>12, <1>13, <1>14,
     SemaphoresAssumption
     DEF Next, ThreadStep, KernelStep, DeviceStep

\* A user program always finds its own registers: in the machine while it has the
\* processor, in its thread block otherwise.
THEOREM UserRegistersCorrect == Spec => []UserRegistersKept
<1>1. Init => UserRegistersKept
  BY DEF Init, UserRegistersKept
<1> QED BY <1>1, AlwaysPlaced, NextUserRegisters, PTL DEF Spec

\* Every step keeps the machine status that of the code that runs.
LEMMA NextMachineStatus == Placed /\ MachineStatusRight /\ [Next]_vars => MachineStatusRight'
<1> SUFFICES ASSUME Placed, MachineStatusRight, [Next]_vars PROVE MachineStatusRight'
  OBVIOUS
<1>0. TypeOK
  BY DEF Placed
<1> USE DEF sched, sems, user, level, MachineStatusRight, StatusOf
<1>1. ASSUME NEW t \in Threads, Fork(t) PROVE MachineStatusRight'
  BY <1>0, <1>1, Zenon DEF TypeOK, Fork, InKernel, At, Placed, ControlPoints
<1>2. ASSUME NEW s \in Semaphores, CallP(s) PROVE MachineStatusRight'
  BY <1>0, <1>2 DEF TypeOK, CallP, Goto, InKernel, At
<1>3. ASSUME NEW s \in Semaphores, SignalSem(s), UNCHANGED <<mode, level>>,
             UNCHANGED pc \/ (At("run") /\ Goto("tick"))
      PROVE  MachineStatusRight'
  <2>1. UNCHANGED <<currentThread, waitSem>>
    BY <1>3, Zenon DEF SignalSem
  <2> QED BY <1>0, <1>3, <2>1 DEF TypeOK, Goto, At
<1>4. ASSUME YieldBody, UNCHANGED <<mode, inUser>>, mode = "thread",
             status[currentThread] = "RUNNING",
             machineStatus' = "SystemMode",
             \A t \in Threads \ {currentThread} : oldStatus'[t] = oldStatus[t],
             UNCHANGED waitSem, waitSem[currentThread] = NULL,
             IF oldStatus'[currentThread] # NULL
             THEN oldStatus'[currentThread] = StatusOf(currentThread)
             ELSE ~inUser[currentThread]
      PROVE  MachineStatusRight'
  <2>1. CASE Goto("tick") /\ UNCHANGED <<sched, status, user>>
    BY <1>0, <1>4, <2>1 DEF TypeOK, Goto, At
  <2>2. ASSUME NEW next \in Threads,
               next \in Members(readyList), next # currentThread,
               SwitchTo(next),
               Goto("switched")
        PROVE  MachineStatusRight'
    <3>1. status[next] = "READY" /\ pc[next] \notin {"run", "tick"} /\ currentThread' = next
      BY <1>0, <2>2, Zenon DEF Placed, TypeOK, ThreadPlacement, ControlPoints, SwitchTo
    <3>2. /\ pc'[currentThread] = "switched"
          /\ \A t \in Threads \ {currentThread} : pc'[t] = pc[t]
      BY <1>0, <2>2 DEF TypeOK, Goto
    <3> QED BY <1>0, <1>4, <2>2, <3>1, <3>2 DEF TypeOK, At
  <2> QED BY <1>4, <2>1, <2>2, YieldEffect, Zenon
<1>5. CASE Yield
  <2>1. /\ YieldBody /\ UNCHANGED <<mode, level>> /\ mode = "thread"
        /\ pc[currentThread] = "run" /\ ~inUser[currentThread]
        /\ machineStatus = "SystemMode" /\ status[currentThread] = "RUNNING"
        /\ oldStatus[currentThread] = NULL
        /\ UNCHANGED waitSem /\ waitSem[currentThread] = NULL
    BY <1>0, <1>5, Zenon DEF Yield, InKernel, At, TypeOK, Placed, ThreadPlacement, ControlPoints
  <2> QED BY <1>4, <2>1, Zenon
<1>6. CASE Finish
  BY <1>0, <1>6 DEF TypeOK, Finish, Goto, InKernel, At
<1>7. CASE StartProcess \/ RaiseException
  BY <1>0, <1>7 DEF TypeOK, StartProcess, RaiseException, InKernel, At
<1>8. CASE UserInstruction \/ ExceptionReturn
  <2>1. CASE UserInstruction
    BY <1>0, <2>1 DEF TypeOK, UserInstruction, Goto, At
  <2>2. CASE ExceptionReturn
    BY <1>0, <2>2 DEF TypeOK, ExceptionReturn, Goto, InKernel, At
  <2> QED BY <1>8, <2>1, <2>2
<1>9. CASE BlockInP
  BY <1>0, <1>9 DEF TypeOK, BlockInP, At
<1>10. CASE LeaveP
  BY <1>0, <1>10 DEF TypeOK, LeaveP, Goto, At
<1>11. CASE Dispatch
  <2> DEFINE next == Head(readyList)
  <2>1. /\ next \in Threads /\ next \in Members(readyList)
        /\ currentThread' = next /\ mode = "sleep" /\ mode' = "thread"
        /\ UNCHANGED <<level, waitSem>>
    BY <1>0, <1>11, TailQueue DEF Dispatch, SwitchTo, TypeOK
  <2> HIDE DEF next
  <2>2. /\ currentThread \in Threads /\ pc[currentThread] \in {"P", "finish"}
        /\ pc[next] \notin {"run", "tick"}
    BY <1>0, <2>1, Zenon DEF Placed, TypeOK, ThreadPlacement, ControlPoints
  <2>3. /\ \A t \in Threads \ {currentThread} : pc'[t] = pc[t]
        /\ pc'[currentThread] \in {"finish", "switched"}
    BY <1>0, <1>11, <2>1, <2>2 DEF Dispatch, Goto, TypeOK
  <2> QED BY <2>1, <2>2, <2>3 DEF At
<1>12. CASE Begin
  BY <1>0, <1>12 DEF TypeOK, Begin, Goto, At
<1>13. CASE Resume
  BY <1>0, <1>13 DEF TypeOK, Resume, Goto, At, Placed, ControlPoints
<1>14. CASE TickReturn
  <2>1. CASE yieldOnReturn
    <3>1. /\ YieldBody /\ UNCHANGED <<mode, inUser, waitSem>> /\ mode = "thread"
          /\ pc[currentThread] = "tick" /\ currentThread \in Threads
          /\ machineStatus' = "SystemMode" /\ status[currentThread] = "RUNNING"
          /\ oldStatus' = [oldStatus EXCEPT ![currentThread] =
                             IF @ = NULL THEN machineStatus ELSE @]
      BY <1>0, <1>14, <2>1, Zenon DEF TickReturn, At, TypeOK, Placed, ThreadPlacement
    <3>2. /\ \A t \in Threads \ {currentThread} : oldStatus'[t] = oldStatus[t]
          /\ oldStatus'[currentThread] = StatusOf(currentThread)
          /\ waitSem[currentThread] = NULL
      BY <1>0, <3>1, Zenon DEF TypeOK, At, Placed, ControlPoints
    <3>3. StatusOf(currentThread) # NULL
      BY NullAssumption DEF MachineStatus
    <3> QED BY <1>4, <3>1, <3>2, <3>3, Zenon
  <2>2. CASE ~yieldOnReturn
    BY <1>0, <1>14, <2>2 DEF TypeOK, TickReturn, Goto, At
  <2> QED BY <2>1, <2>2, Zenon
<1>15. CASE Idle \/ IdleReturn
  BY <1>0, <1>15 DEF TypeOK, Idle, IdleReturn, At
<1>16. CASE UNCHANGED <<currentThread, pc, mode, waitSem, level>>
  BY <1>16 DEF At
<1> QED
  BY <1>1, <1>2, <1>3, <1>5, <1>6, <1>7, <1>8, <1>9, <1>10, <1>11, <1>12, <1>13,
     <1>14, <1>15, <1>16, SemaphoresAssumption, Zenon
     DEF Next, ThreadStep, KernelStep, DeviceStep, vars, NewThread, CallV,
         TickDevice, IdleDevice, TickTimer, InKernel

\* The machine is in user mode exactly while user code runs, although OneTick
\* restores the mode only after its thread has come back from other threads.
THEOREM MachineStatusCorrect == Spec => []MachineStatusRight
<1>1. Init => MachineStatusRight
  BY ThreadsAssumption DEF Init, MachineStatusRight, StatusOf, At
<1> QED BY <1>1, AlwaysPlaced, NextMachineStatus, PTL DEF Spec
=============================================================================
