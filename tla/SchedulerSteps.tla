--------------------------- MODULE SchedulerSteps ---------------------------
(***************************************************************************)
(* First part of the proofs about Scheduler, for any number of threads and *)
(* semaphores: lists as sets, types, the inductive invariant in pieces,    *)
(* what a signal and a yield do to the lists, and that the pieces of code  *)
(* that several actions share keep every thread in its place.              *)
(***************************************************************************)
EXTENDS Scheduler, TLAPS

-----------------------------------------------------------------------------
(* The ready list and the semaphore queues as sets of threads. *)

\* The empty list has no members.
LEMMA EmptyQueue == Members(<<>>) = {} /\ NoRepeats(<<>>)
BY DEF Members, NoRepeats

\* List::Append adds one member; no member is repeated if it was not there.
LEMMA AppendQueue ==
  ASSUME NEW S, NEW q \in Seq(S), NEW x \in S
  PROVE  /\ Append(q, x) \in Seq(S)
         /\ Append(q, x) # <<>>
         /\ Members(Append(q, x)) = Members(q) \cup {x}
         /\ NoRepeats(q) /\ x \notin Members(q) => NoRepeats(Append(q, x))
<1>1. /\ Append(q, x) \in Seq(S)
      /\ Append(q, x) # <<>>
      /\ Len(Append(q, x)) = Len(q) + 1
      /\ Len(q) \in Nat
      /\ \A i \in 1..Len(q) : Append(q, x)[i] = q[i]
      /\ Append(q, x)[Len(q) + 1] = x
  OBVIOUS
<1>2. Members(Append(q, x)) = Members(q) \cup {x}
  <2>1. ASSUME NEW y \in Members(q) \cup {x} PROVE y \in Members(Append(q, x))
    <3>1. CASE y = x
      BY <1>1, <3>1 DEF Members
    <3>2. CASE y \in Members(q)
      <4>1. PICK i \in 1..Len(q) : y = q[i]
        BY <3>2 DEF Members
      <4>2. i \in 1..Len(Append(q, x)) /\ y = Append(q, x)[i]
        BY <1>1, <4>1
      <4> QED BY <4>2 DEF Members
    <3> QED BY <2>1, <3>1, <3>2
  <2>2. ASSUME NEW y \in Members(Append(q, x)) PROVE y \in Members(q) \cup {x}
    <3>1. PICK i \in 1..Len(Append(q, x)) : y = Append(q, x)[i]
      BY DEF Members
    <3>2. i \in 1..Len(q) \/ i = Len(q) + 1
      BY <1>1, <3>1
    <3> QED BY <1>1, <3>1, <3>2 DEF Members
  <2> QED BY <2>1, <2>2
<1>3. ASSUME NoRepeats(q), x \notin Members(q) PROVE NoRepeats(Append(q, x))
  <2> SUFFICES ASSUME NEW i \in 1..Len(Append(q, x)), NEW j \in 1..Len(Append(q, x)),
                      Append(q, x)[i] = Append(q, x)[j]
               PROVE  i = j
    BY DEF NoRepeats
  <2>1. /\ i \in 1..Len(q) \/ i = Len(q) + 1
        /\ j \in 1..Len(q) \/ j = Len(q) + 1
    BY <1>1
  <2>2. \A k \in 1..Len(q) : q[k] # x
    BY <1>3 DEF Members
  <2> QED BY <1>1, <1>3, <2>1, <2>2 DEF NoRepeats
<1> QED BY <1>1, <1>2, <1>3

\* List::RemoveFront takes the first member off, and only that one.
LEMMA TailQueue ==
  ASSUME NEW S, NEW q \in Seq(S), q # <<>>
  PROVE  /\ Head(q) \in S /\ Tail(q) \in Seq(S)
         /\ Members(q) = Members(Tail(q)) \cup {Head(q)}
         /\ NoRepeats(q) => NoRepeats(Tail(q)) /\ Head(q) \notin Members(Tail(q))
<1>1. /\ Len(q) \in Nat \ {0}
      /\ Head(q) = q[1] /\ Head(q) \in S
      /\ Tail(q) \in Seq(S)
      /\ Len(Tail(q)) = Len(q) - 1
      /\ \A i \in 1..(Len(q) - 1) : Tail(q)[i] = q[i + 1]
  OBVIOUS
<1>2. Members(q) = Members(Tail(q)) \cup {Head(q)}
  <2>1. ASSUME NEW y \in Members(q) PROVE y \in Members(Tail(q)) \cup {Head(q)}
    <3>1. PICK i \in 1..Len(q) : y = q[i]
      BY DEF Members
    <3>2. CASE i = 1
      BY <1>1, <3>1, <3>2
    <3>3. CASE i # 1
      <4>1. i - 1 \in 1..Len(Tail(q)) /\ y = Tail(q)[i - 1]
        BY <1>1, <3>1, <3>3
      <4> QED BY <4>1 DEF Members
    <3> QED BY <3>2, <3>3
  <2>2. ASSUME NEW y \in Members(Tail(q)) PROVE y \in Members(q)
    <3>1. PICK i \in 1..Len(Tail(q)) : y = Tail(q)[i]
      BY Zenon DEF Members
    <3>2. i + 1 \in 1..Len(q) /\ y = q[i + 1]
      BY <1>1, <3>1
    <3> QED BY <3>2 DEF Members
  <2>3. Head(q) \in Members(q)
    BY <1>1 DEF Members
  <2> QED BY <2>1, <2>2, <2>3
<1>3. ASSUME NoRepeats(q) PROVE NoRepeats(Tail(q))
  <2> SUFFICES ASSUME NEW i \in 1..Len(Tail(q)), NEW j \in 1..Len(Tail(q)),
                      Tail(q)[i] = Tail(q)[j]
               PROVE  i = j
    BY DEF NoRepeats
  <2>1. /\ i + 1 \in 1..Len(q) /\ j + 1 \in 1..Len(q)
        /\ q[i + 1] = q[j + 1]
    BY <1>1
  <2>2. i + 1 = j + 1
    BY <1>3, <2>1 DEF NoRepeats
  <2> QED BY <1>1, <2>2
<1>4. ASSUME NoRepeats(q) PROVE Head(q) \notin Members(Tail(q))
  <2> SUFFICES ASSUME NEW i \in 1..Len(Tail(q)), Head(q) = Tail(q)[i] PROVE FALSE
    BY Zenon DEF Members
  <2>1. i + 1 \in 1..Len(q) /\ q[i + 1] = q[1] /\ 1 \in 1..Len(q)
    BY <1>1
  <2>2. i + 1 = 1
    BY <1>4, <2>1 DEF NoRepeats
  <2> QED BY <1>1, <2>2
<1> QED BY <1>1, <1>2, <1>3, <1>4

-----------------------------------------------------------------------------
(* Type correctness. *)

\* The constructors and the first thread give every variable its type.
LEMMA InitType == Init => TypeOK
<1> SUFFICES ASSUME Init PROVE TypeOK
  OBVIOUS
<1>1. readyList \in Seq(Threads) /\ queue \in [Semaphores -> Seq(Threads)]
  BY DEF Init
<1>2. status \in [Threads -> Status] /\ pc \in [Threads -> Points]
  BY DEF Init, Status, Points
<1>3. /\ waitSem \in [Threads -> Semaphores \cup {NULL}]
      /\ space \in [Threads -> BOOLEAN]
      /\ savedRegs \in [Threads -> BOOLEAN]
      /\ inUser \in [Threads -> BOOLEAN]
      /\ oldStatus \in [Threads -> MachineStatus \cup {NULL}]
  BY DEF Init
<1> QED BY <1>1, <1>2, <1>3, ThreadsAssumption, SemaphoresAssumption, Zenon
        DEF Init, TypeOK, MachineStatus

\* The shared pieces keep the types of what they change.
LEMMA SwitchType ==
  ASSUME TypeOK, NEW next \in Threads, SwitchTo(next)
  PROVE  /\ currentThread' \in Threads
         /\ space' \in [Threads -> BOOLEAN]
         /\ machineRegs' \in Threads \cup {NULL}
         /\ savedRegs' \in [Threads -> BOOLEAN]
BY DEF TypeOK, SwitchTo

\* Semaphore::V keeps the types of the lists and of the statuses.
LEMMA SignalType ==
  ASSUME TypeOK, NEW s \in Semaphores, SignalSem(s)
  PROVE  /\ currentThread' \in Threads
         /\ toBeDestroyed' \in Threads \cup {NULL}
         /\ status' \in [Threads -> Status]
         /\ readyList' \in Seq(Threads)
         /\ value' \in [Semaphores -> Nat]
         /\ queue' \in [Semaphores -> Seq(Threads)]
         /\ waitSem' \in [Threads -> Semaphores \cup {NULL}]
<1>1. queue[s] # <<>> => Head(queue[s]) \in Threads /\ Tail(queue[s]) \in Seq(Threads)
  BY TailQueue DEF TypeOK
<1>2. ASSUME NEW t \in Threads PROVE Append(readyList, t) \in Seq(Threads)
  BY AppendQueue DEF TypeOK
<1>3. value' \in [Semaphores -> Nat]
  BY DEF TypeOK, SignalSem
<1>4. CASE queue[s] = <<>>
  BY <1>3, <1>4 DEF TypeOK, SignalSem
<1>5. CASE queue[s] # <<>>
  <2>1. /\ queue' = [queue EXCEPT ![s] = Tail(@)]
        /\ ReadyToRun(Head(queue[s]))
        /\ UNCHANGED <<waitSem, currentThread, toBeDestroyed>>
    BY <1>5 DEF SignalSem
  <2>2. queue' \in [Semaphores -> Seq(Threads)]
    BY <1>1, <1>5, <2>1 DEF TypeOK
  <2>3. status' \in [Threads -> Status] /\ readyList' \in Seq(Threads)
    BY <1>1, <1>2, <1>5, <2>1 DEF TypeOK, ReadyToRun, Status
  <2> QED BY <1>3, <2>1, <2>2, <2>3 DEF TypeOK
<1> QED BY <1>4, <1>5

\* Thread::Yield keeps the types of the lists and of the statuses.
LEMMA YieldType ==
  ASSUME TypeOK, YieldBody
  PROVE  /\ currentThread' \in Threads
         /\ toBeDestroyed' \in Threads \cup {NULL}
         /\ status' \in [Threads -> Status]
         /\ readyList' \in Seq(Threads)
         /\ pc' \in [Threads -> Points]
         /\ space' \in [Threads -> BOOLEAN]
         /\ machineRegs' \in Threads \cup {NULL}
         /\ savedRegs' \in [Threads -> BOOLEAN]
<1>1. CASE readyList = <<>>
  BY <1>1 DEF TypeOK, YieldBody, Goto, Points, sched, user
<1>2. CASE readyList # <<>>
  <2>1. Head(readyList) \in Threads /\ Tail(readyList) \in Seq(Threads)
    BY <1>2, TailQueue DEF TypeOK
  <2>2. Append(Tail(readyList), currentThread) \in Seq(Threads)
    BY <2>1, AppendQueue DEF TypeOK
  <2>3. SwitchTo(Head(readyList))
    BY <1>2 DEF YieldBody
  <2> QED BY <1>2, <2>1, <2>2, <2>3, SwitchType, Zenon DEF TypeOK, YieldBody, Goto, Points, Status
<1> QED BY <1>1, <1>2

\* Every step keeps the types.
LEMMA NextType == TypeOK /\ [Next]_vars => TypeOK'
<1> SUFFICES ASSUME TypeOK, [Next]_vars PROVE TypeOK'
  OBVIOUS
<1> USE DEF sched, sems, user, level
<1>1. ASSUME NEW t \in Threads, NewThread(t) PROVE TypeOK'
  BY <1>1 DEF TypeOK, NewThread, Status
<1>2. ASSUME NEW t \in Threads, Fork(t) PROVE TypeOK'
  <2>1. Append(readyList, t) \in Seq(Threads)
    BY AppendQueue DEF TypeOK
  <2> QED BY <1>2, <2>1, Zenon DEF TypeOK, Fork, ReadyToRun, Status, Points
<1>3. ASSUME NEW s \in Semaphores, CallP(s) PROVE TypeOK'
  BY <1>3 DEF TypeOK, CallP, Goto, Points
<1>4. ASSUME NEW s \in Semaphores, CallV(s) PROVE TypeOK'
  <2>1. SignalSem(s)
    BY <1>4 DEF CallV
  <2> QED BY <1>4, <2>1, SignalType DEF TypeOK, CallV, Goto, Points
<1>5. CASE Yield
  <2>1. YieldBody
    BY <1>5 DEF Yield
  <2> QED BY <1>5, <2>1, YieldType DEF TypeOK, Yield
<1>6. CASE Finish
  BY <1>6 DEF TypeOK, Finish, Goto, Status, Points
<1>7. CASE StartProcess
  BY <1>7 DEF TypeOK, StartProcess, MachineStatus
<1>8. CASE UserInstruction
  BY <1>8 DEF TypeOK, UserInstruction, Goto, Points
<1>9. CASE RaiseException
  BY <1>9 DEF TypeOK, RaiseException, MachineStatus
<1>10. CASE ExceptionReturn
  BY <1>10 DEF TypeOK, ExceptionReturn, Goto, Points, MachineStatus
<1>11. CASE BlockInP
  <2> DEFINE s == waitSem[currentThread]
  <2>1. ASSUME NEW r \in Semaphores PROVE Append(queue[r], currentThread) \in Seq(Threads)
    BY AppendQueue DEF TypeOK
  <2> QED BY <1>11, <2>1, Zenon DEF TypeOK, BlockInP, Status
<1>12. CASE LeaveP
  <2>1. value' \in [Semaphores -> Nat]
    <3>1. ASSUME NEW r \in Semaphores PROVE value'[r] \in Nat
      BY <1>12 DEF TypeOK, LeaveP
    <3> QED BY <1>12, <3>1, Zenon DEF TypeOK, LeaveP
  <2> QED BY <1>12, <2>1 DEF TypeOK, LeaveP, Goto, Points
<1>13. CASE Dispatch
  <2>1. Head(readyList) \in Threads /\ Tail(readyList) \in Seq(Threads)
    BY <1>13, TailQueue DEF TypeOK, Dispatch
  <2>2. SwitchTo(Head(readyList))
    BY <1>13 DEF Dispatch
  <2> QED BY <1>13, <2>1, <2>2, SwitchType, Zenon DEF TypeOK, Dispatch, Goto, Points, Status
<1>14. CASE Begin
  BY <1>14 DEF TypeOK, Begin, CheckToBeDestroyed, Goto, Points, Status
<1>15. CASE Resume
  BY <1>15 DEF TypeOK, Resume, CheckToBeDestroyed, Goto, Points, Status
<1>16. CASE TickReturn
  <2>1. CASE yieldOnReturn
    <3>1. YieldBody
      BY <1>16, <2>1 DEF TickReturn
    <3> QED BY <1>16, <2>1, <3>1, YieldType, Zenon DEF TypeOK, TickReturn, MachineStatus
  <2>2. CASE ~yieldOnReturn
    BY <1>16, <2>2, Zenon DEF TypeOK, TickReturn, Goto, Points
  <2> QED BY <2>1, <2>2
<1>17. CASE Idle
  BY <1>17 DEF TypeOK, Idle, MachineStatus
<1>18. CASE IdleReturn
  BY <1>18 DEF TypeOK, IdleReturn, MachineStatus
<1>19. ASSUME NEW s \in Semaphores, TickDevice(s) \/ IdleDevice(s) PROVE TypeOK'
  <2>1. SignalSem(s)
    BY <1>19 DEF TickDevice, IdleDevice
  <2> QED BY <1>19, <2>1, SignalType DEF TypeOK, TickDevice, IdleDevice
<1>20. CASE TickTimer
  BY <1>20 DEF TypeOK, TickTimer
<1>21. CASE UNCHANGED vars
  BY <1>21 DEF TypeOK, vars
<1> QED
  BY <1>1, <1>2, <1>3, <1>4, <1>5, <1>6, <1>7, <1>8, <1>9, <1>10, <1>11, <1>12,
     <1>13, <1>14, <1>15, <1>16, <1>17, <1>18, <1>19, <1>20, <1>21, SemaphoresAssumption
     DEF Next, ThreadStep, KernelStep, DeviceStep

\* Type correctness: every variable of the thread system keeps its type.
THEOREM TypeCorrect == Spec => []TypeOK
<1> QED BY InitType, NextType, PTL DEF Spec

-----------------------------------------------------------------------------
(* Where threads are: the inductive invariant. *)

\* Placement of threads, their program points and the thread to be deleted
\* depend on one another and are proved together.
Placed == TypeOK /\ ThreadPlacement /\ ControlPoints /\ CarcassCollected

\* What ThreadPlacement says of one thread.
Place(t) ==
  /\ status[t] = "RUNNING" <=> (mode = "thread" /\ t = currentThread)
  /\ status[t] = "READY" <=> t \in Members(readyList)
  /\ status[t] = "BLOCKED" =>
       (Finishing(t) <=> \A s \in Semaphores : t \notin Members(queue[s]))

\* What ThreadPlacement says of one queue.
QueuePlace(s) ==
  /\ NoRepeats(queue[s])
  /\ \A t \in Members(queue[s]) : status[t] = "BLOCKED" /\ waitSem[t] = s

\* What ControlPoints says of one thread.
Control(t) ==
  /\ waitSem[t] # NULL => pc[t] \in {"P", "switched"}
  /\ pc[t] = "P" => waitSem[t] # NULL /\ t = currentThread
  /\ status[t] \in {"UNUSED", "JUST_CREATED"} => pc[t] = "finish"
  /\ status[t] \in {"RUNNING", "READY"} => pc[t] # "finish"
  /\ status[t] = "BLOCKED" => pc[t] \in {"P", "switched", "finish"}
  /\ pc[t] \in {"run", "tick"} => status[t] = "RUNNING"
  /\ pc[t] = "begin" \/ status[t] = "JUST_CREATED" => ~space[t]

\* The parts of the invariant.
LEMMA PlacedParts ==
  ASSUME Placed
  PROVE  /\ TypeOK
         /\ CarcassCollected
         /\ \A t \in Threads : Place(t)
         /\ \A t \in Threads : Control(t)
         /\ \A s \in Semaphores : QueuePlace(s)
         /\ NoRepeats(readyList)
         /\ mode # "thread" => /\ pc[currentThread] \in {"P", "finish"}
                               /\ status[currentThread] \in {"BLOCKED", "READY"}
<1>1. TypeOK /\ ThreadPlacement /\ ControlPoints /\ CarcassCollected
  BY DEF Placed
<1>2. \A t \in Threads : Place(t)
  BY <1>1, Zenon DEF ThreadPlacement, Place
<1>3. \A t \in Threads : Control(t)
  BY <1>1, Zenon DEF ControlPoints, Control
<1>4. (\A s \in Semaphores : QueuePlace(s)) /\ NoRepeats(readyList)
  BY <1>1, Zenon DEF ThreadPlacement, QueuePlace
<1>5. mode # "thread" => /\ pc[currentThread] \in {"P", "finish"}
                         /\ status[currentThread] \in {"BLOCKED", "READY"}
  BY <1>1, Zenon DEF ControlPoints
<1> QED BY <1>1, <1>2, <1>3, <1>4, <1>5

\* The parts, in the next state, give the invariant.
LEMMA PlacedNext ==
  ASSUME TypeOK', CarcassCollected',
         \A t \in Threads : Place(t)',
         \A t \in Threads : Control(t)',
         \A s \in Semaphores : QueuePlace(s)',
         NoRepeats(readyList'),
         mode' # "thread" => /\ pc'[currentThread'] \in {"P", "finish"}
                             /\ status'[currentThread'] \in {"BLOCKED", "READY"}
  PROVE  Placed'
<1>1. ThreadPlacement'
  BY Zenon DEF ThreadPlacement, Place, QueuePlace
<1>2. ControlPoints'
  BY Zenon DEF ControlPoints, Control
<1> QED BY <1>1, <1>2 DEF Placed

\* At the start the only thread runs and all lists are empty.
LEMMA InitPlaced == Init => Placed
<1> SUFFICES ASSUME Init PROVE Placed
  OBVIOUS
<1>1. TypeOK
  BY InitType
<1>2. ThreadPlacement
  BY EmptyQueue, ThreadsAssumption DEF Init, ThreadPlacement, Finishing
<1>3. ControlPoints
  BY ThreadsAssumption DEF Init, ControlPoints
<1>4. CarcassCollected
  BY DEF Init, CarcassCollected, Finishing
<1> QED BY <1>1, <1>2, <1>3, <1>4 DEF Placed

\* The current thread moves to another program point, and no other does.
LEMMA GotoEffect ==
  ASSUME TypeOK, NEW loc, Goto(loc)
  PROVE  /\ currentThread \in Threads
         /\ pc'[currentThread] = loc
         /\ \A t \in Threads \ {currentThread} : pc'[t] = pc[t]
BY DEF TypeOK, Goto

\* The threads on a semaphore's queue are threads.
LEMMA QueueMembers ==
  ASSUME TypeOK, NEW r \in Semaphores
  PROVE  Members(queue[r]) \subseteq Threads
BY DEF TypeOK, Members

\* While a thread runs, it is on no list, and the thread to be deleted, if there is
\* one, is another.
LEMMA RunningThread ==
  ASSUME Placed, mode = "thread"
  PROVE  /\ currentThread \in Threads /\ status[currentThread] = "RUNNING"
         /\ ~Finishing(currentThread)
         /\ currentThread \notin Members(readyList)
         /\ \A r \in Semaphores : currentThread \notin Members(queue[r])
         /\ pc[currentThread] \in {"run", "tick", "P"} => toBeDestroyed = NULL
         /\ pc[currentThread] \in {"run", "tick", "begin"} => waitSem[currentThread] = NULL
         /\ toBeDestroyed # NULL =>
              /\ toBeDestroyed \in Threads \ {currentThread}
              /\ status[toBeDestroyed] = "BLOCKED" /\ pc[toBeDestroyed] = "finish"
              /\ toBeDestroyed \notin Members(readyList)
              /\ \A r \in Semaphores : toBeDestroyed \notin Members(queue[r])
<1>0. /\ currentThread \in Threads /\ toBeDestroyed \in Threads \cup {NULL}
      /\ CarcassCollected
      /\ \A t \in Threads : Place(t)
      /\ \A t \in Threads : Control(t)
      /\ \A s \in Semaphores : QueuePlace(s)
  BY PlacedParts DEF TypeOK
<1>1. /\ status[currentThread] = "RUNNING" /\ ~Finishing(currentThread)
      /\ currentThread \notin Members(readyList)
  BY <1>0 DEF Place, Finishing
<1>2. \A r \in Semaphores : currentThread \notin Members(queue[r])
  BY <1>0, <1>1 DEF QueuePlace
<1>3. pc[currentThread] \in {"run", "tick", "P"} => toBeDestroyed = NULL
  BY <1>0 DEF CarcassCollected
<1>4. pc[currentThread] \in {"run", "tick", "begin"} => waitSem[currentThread] = NULL
  BY <1>0 DEF Control
<1>5. ASSUME toBeDestroyed # NULL
      PROVE  /\ toBeDestroyed \in Threads \ {currentThread}
             /\ status[toBeDestroyed] = "BLOCKED" /\ pc[toBeDestroyed] = "finish"
             /\ toBeDestroyed \notin Members(readyList)
             /\ \A r \in Semaphores : toBeDestroyed \notin Members(queue[r])
  <2>1. /\ Finishing(toBeDestroyed) /\ toBeDestroyed \in Threads \ {currentThread}
        /\ status[toBeDestroyed] = "BLOCKED" /\ pc[toBeDestroyed] = "finish"
    BY <1>0, <1>5 DEF CarcassCollected, Finishing
  <2> QED BY <1>0, <2>1 DEF Place
<1> QED BY <1>0, <1>1, <1>2, <1>3, <1>4, <1>5

-----------------------------------------------------------------------------
(* The pieces of code that several actions share. *)

\* What a signal does to the queues: nothing, or it moves the first waiter of
\* one semaphore to the ready list.
LEMMA SignalEffect ==
  ASSUME Placed, NEW s \in Semaphores, SignalSem(s)
  PROVE  \/ /\ queue[s] = <<>>
            /\ UNCHANGED <<queue, status, readyList>>
         \/ \E h \in Threads :
              /\ queue[s] # <<>>
              /\ h \in Members(queue[s])
              /\ status' = [status EXCEPT ![h] = "READY"]
              /\ Members(readyList') = Members(readyList) \cup {h}
              /\ NoRepeats(readyList')
              /\ Members(queue'[s]) = Members(queue[s]) \ {h}
              /\ \A r \in Semaphores \ {s} : queue'[r] = queue[r]
              /\ \A r \in Semaphores : NoRepeats(queue'[r])
<1>0. /\ queue \in [Semaphores -> Seq(Threads)] /\ readyList \in Seq(Threads)
      /\ NoRepeats(readyList)
      /\ \A t \in Threads : Place(t)
      /\ \A r \in Semaphores : QueuePlace(r)
  BY PlacedParts DEF TypeOK
<1>1. CASE queue[s] = <<>>
  BY <1>1 DEF SignalSem
<1>2. CASE queue[s] # <<>>
  <2> DEFINE h == Head(queue[s])
             rest == Tail(queue[s])
  <2>1. queue[s] \in Seq(Threads) /\ NoRepeats(queue[s])
    BY <1>0 DEF QueuePlace
  <2>2. /\ h \in Threads
        /\ Members(queue[s]) = Members(rest) \cup {h}
        /\ NoRepeats(rest) /\ h \notin Members(rest)
    BY <1>2, <2>1, TailQueue, Zenon
  <2>3. queue' = [queue EXCEPT ![s] = rest] /\ ReadyToRun(h)
    BY <1>2 DEF SignalSem
  <2> HIDE DEF h, rest
  <2>4. h \in Members(queue[s]) /\ h \notin Members(readyList)
    BY <1>0, <2>2 DEF Place, QueuePlace
  <2>5. /\ Members(Append(readyList, h)) = Members(readyList) \cup {h}
        /\ NoRepeats(Append(readyList, h))
    BY <1>0, <2>2, <2>4, AppendQueue
  <2>6. queue'[s] = rest /\ \A r \in Semaphores \ {s} : queue'[r] = queue[r]
    BY <1>0, <2>3
  <2>7. \A r \in Semaphores : NoRepeats(queue'[r])
    BY <1>0, <2>2, <2>6 DEF QueuePlace
  <2>8. Members(queue'[s]) = Members(queue[s]) \ {h}
    BY <2>2, <2>6
  <2> QED BY <1>2, <2>2, <2>3, <2>4, <2>5, <2>6, <2>7, <2>8, Zenon DEF ReadyToRun
<1> QED BY <1>1, <1>2

\* What a yield does: nothing, or the first ready thread and the current one
\* change places.
LEMMA YieldEffect ==
  ASSUME Placed, YieldBody, mode = "thread"
  PROVE  \/ /\ readyList = <<>>
            /\ Goto("tick")
            /\ UNCHANGED <<sched, status, user>>
         \/ \E next \in Threads :
              /\ next \in Members(readyList) /\ next # currentThread
              /\ status' = [status EXCEPT ![currentThread] = "READY", ![next] = "RUNNING"]
              /\ Members(readyList') = (Members(readyList) \ {next}) \cup {currentThread}
              /\ NoRepeats(readyList')
              /\ SwitchTo(next)
              /\ Goto("switched")
              /\ UNCHANGED toBeDestroyed
<1>1. CASE readyList = <<>>
  BY <1>1 DEF YieldBody
<1>2. CASE readyList # <<>>
  <2> DEFINE next == Head(readyList)
             rest == Tail(readyList)
  <2>1. readyList \in Seq(Threads) /\ NoRepeats(readyList)
    BY PlacedParts DEF TypeOK
  <2>2. currentThread \in Threads /\ currentThread \notin Members(readyList)
    BY RunningThread
  <2>3. /\ next \in Threads /\ rest \in Seq(Threads)
        /\ Members(readyList) = Members(rest) \cup {next}
        /\ NoRepeats(rest) /\ next \notin Members(rest)
    BY <1>2, <2>1, TailQueue, Zenon
  <2>4. /\ status' = [status EXCEPT ![currentThread] = "READY", ![next] = "RUNNING"]
        /\ readyList' = Append(rest, currentThread)
        /\ SwitchTo(next)
        /\ Goto("switched")
        /\ UNCHANGED toBeDestroyed
    BY <1>2 DEF YieldBody
  <2> HIDE DEF next, rest
  <2>5. currentThread \notin Members(rest)
    BY <2>2, <2>3
  <2>6. /\ Members(Append(rest, currentThread)) = Members(rest) \cup {currentThread}
        /\ NoRepeats(Append(rest, currentThread))
    BY <2>2, <2>3, <2>5, AppendQueue
  <2>7. next \in Members(readyList) /\ next # currentThread
    BY <2>2, <2>3
  <2>8. Members(readyList') = (Members(readyList) \ {next}) \cup {currentThread}
    BY <2>3, <2>4, <2>6
  <2> QED BY <2>3, <2>4, <2>6, <2>7, <2>8, Zenon
<1> QED BY <1>1, <1>2

-----------------------------------------------------------------------------
(* The code that several actions share. *)

\* The running thread goes on to its own code, to OneTick or into P, and deletes
\* the finished thread if there is one: the others stay where they are.
LEMMA MovePlaced ==
  ASSUME Placed, TypeOK', mode = "thread", CheckToBeDestroyed,
         NEW loc \in {"run", "tick", "P"}, Goto(loc),
         loc = "P" <=> waitSem'[currentThread] # NULL,
         \A t \in Threads \ {currentThread} : waitSem'[t] = waitSem[t],
         UNCHANGED <<currentThread, readyList, mode, queue, space>>
  PROVE  Placed'
<1>0. /\ TypeOK /\ CarcassCollected
      /\ \A t \in Threads : Place(t)
      /\ \A t \in Threads : Control(t)
      /\ \A r \in Semaphores : QueuePlace(r)
      /\ NoRepeats(readyList)
  BY PlacedParts
<1>1. /\ pc'[currentThread] = loc
      /\ \A t \in Threads \ {currentThread} : pc'[t] = pc[t]
  BY <1>0, GotoEffect
<1>2. /\ toBeDestroyed' = NULL
      /\ \A t \in Threads : status'[t] = IF t = toBeDestroyed THEN "UNUSED" ELSE status[t]
  BY DEF CheckToBeDestroyed
<1>3. /\ currentThread \in Threads /\ status[currentThread] = "RUNNING"
      /\ status'[currentThread] = "RUNNING"
      /\ \A r \in Semaphores : currentThread \notin Members(queue[r])
  BY <1>2, RunningThread, ThreadsAssumption
<1>4. toBeDestroyed # NULL =>
        /\ toBeDestroyed \in Threads \ {currentThread}
        /\ pc[toBeDestroyed] = "finish"
        /\ status'[toBeDestroyed] = "UNUSED"
        /\ toBeDestroyed \notin Members(readyList)
        /\ \A r \in Semaphores : toBeDestroyed \notin Members(queue[r])
  BY <1>2, RunningThread
<1>5. \A t \in Threads : Place(t)'
  <2> SUFFICES ASSUME NEW t \in Threads PROVE Place(t)'
    OBVIOUS
  <2>1. CASE t = toBeDestroyed
    BY <1>4, <2>1, ThreadsAssumption DEF Place
  <2>2. CASE t = currentThread
    BY <1>0, <1>3, <2>2 DEF Place
  <2>3. CASE t # toBeDestroyed /\ t # currentThread
    BY <1>0, <1>1, <1>2, <2>3 DEF Place, Finishing
  <2> QED BY <2>1, <2>2, <2>3
<1>6. \A t \in Threads : Control(t)'
  <2> SUFFICES ASSUME NEW t \in Threads PROVE Control(t)'
    OBVIOUS
  <2>1. CASE t = toBeDestroyed
    <3>1. t # currentThread /\ pc[t] = "finish" /\ pc'[t] = "finish" /\ status'[t] = "UNUSED"
      BY <1>1, <1>4, <2>1, ThreadsAssumption
    <3>2. waitSem'[t] = NULL
      BY <1>0, <3>1 DEF Control
    <3> QED BY <3>1, <3>2 DEF Control
  <2>2. CASE t = currentThread
    BY <1>1, <1>3, <2>2 DEF Control
  <2>3. CASE t # toBeDestroyed /\ t # currentThread
    BY <1>0, <1>1, <1>2, <2>3 DEF Control
  <2> QED BY <2>1, <2>2, <2>3
<1>7. \A r \in Semaphores : QueuePlace(r)'
  <2> SUFFICES ASSUME NEW r \in Semaphores PROVE QueuePlace(r)'
    OBVIOUS
  <2>1. ASSUME NEW t \in Members(queue[r])
        PROVE  t \in Threads /\ t # toBeDestroyed /\ t # currentThread
    BY <1>0, <1>3, <1>4, QueueMembers, ThreadsAssumption
  <2> QED BY <1>0, <1>2, <2>1 DEF QueuePlace
<1>8. CarcassCollected'
  <2>1. ASSUME NEW t \in Threads PROVE ~Finishing(t)'
    BY <1>0, <1>1, <1>2, <1>3, <1>4 DEF CarcassCollected, Finishing
  <2> QED BY <1>2, <2>1 DEF CarcassCollected
<1> QED BY <1>0, <1>5, <1>6, <1>7, <1>8, PlacedNext

\* In its own code, in OneTick or in P a thread finds no finished thread to delete.
LEMMA NoCarcass ==
  ASSUME Placed, mode = "thread", pc[currentThread] \in {"run", "tick", "P"},
         UNCHANGED <<status, toBeDestroyed>>
  PROVE  CheckToBeDestroyed
<1>1. toBeDestroyed = NULL
  BY RunningThread
<1>2. status \in [Threads -> Status]
  BY PlacedParts DEF TypeOK
<1> QED BY <1>1, <1>2, ThreadsAssumption DEF CheckToBeDestroyed

\* A step that changes nothing of this keeps it.
LEMMA SamePlaced ==
  ASSUME Placed, TypeOK', UNCHANGED <<currentThread, readyList, toBeDestroyed>>,
         UNCHANGED <<status, pc, queue, waitSem, space>>,
         UNCHANGED mode \/ (mode # "thread" /\ mode' # "thread")
  PROVE  Placed'
<1>1. /\ CarcassCollected
      /\ \A t \in Threads : Place(t)
      /\ \A t \in Threads : Control(t)
      /\ \A r \in Semaphores : QueuePlace(r)
      /\ NoRepeats(readyList)
      /\ mode # "thread" => /\ pc[currentThread] \in {"P", "finish"}
                            /\ status[currentThread] \in {"BLOCKED", "READY"}
  BY PlacedParts
<1>2. \A t \in Threads : Place(t)'
  BY <1>1 DEF Place, Finishing
<1>3. \A t \in Threads : Control(t)'
  BY <1>1 DEF Control
<1>4. \A r \in Semaphores : QueuePlace(r)'
  BY <1>1 DEF QueuePlace
<1>5. CarcassCollected'
  BY <1>1 DEF CarcassCollected, Finishing
<1> QED BY <1>1, <1>2, <1>3, <1>4, <1>5, PlacedNext

\* A signal, by a thread or by a handler, keeps every thread in its place.
LEMMA SignalPlaced ==
  ASSUME Placed, TypeOK', NEW s \in Semaphores, SignalSem(s),
         UNCHANGED <<mode, space>>,
         UNCHANGED pc \/ (At("run") /\ Goto("tick"))
  PROVE  Placed'
<1>0. /\ TypeOK /\ CarcassCollected
      /\ \A t \in Threads : Place(t)
      /\ \A t \in Threads : Control(t)
      /\ \A r \in Semaphores : QueuePlace(r)
      /\ NoRepeats(readyList)
      /\ mode # "thread" => /\ pc[currentThread] \in {"P", "finish"}
                            /\ status[currentThread] \in {"BLOCKED", "READY"}
  BY PlacedParts
<1>1. UNCHANGED <<waitSem, currentThread, toBeDestroyed>>
  BY DEF SignalSem
<1>2. CASE UNCHANGED <<queue, status, readyList>>
  <2>1. CASE UNCHANGED pc
    BY <1>1, <1>2, <2>1, SamePlaced
  <2>2. CASE At("run") /\ Goto("tick")
    <3>1. CheckToBeDestroyed
      BY <1>1, <1>2, <2>2, NoCarcass DEF At
    <3>2. waitSem[currentThread] = NULL
      BY <2>2, RunningThread DEF At
    <3> QED BY <1>1, <1>2, <2>2, <3>1, <3>2, MovePlaced DEF At
  <2> QED BY <2>1, <2>2
<1>3. ASSUME NEW h \in Threads,
             h \in Members(queue[s]),
             status' = [status EXCEPT ![h] = "READY"],
             Members(readyList') = Members(readyList) \cup {h},
             NoRepeats(readyList'),
             Members(queue'[s]) = Members(queue[s]) \ {h},
             \A r \in Semaphores \ {s} : queue'[r] = queue[r],
             \A r \in Semaphores : NoRepeats(queue'[r])
      PROVE  Placed'
  <2>1. /\ currentThread \in Threads
        /\ status'[h] = "READY" /\ \A t \in Threads \ {h} : status'[t] = status[t]
    BY <1>0, <1>3 DEF TypeOK
  <2>2. /\ status[h] = "BLOCKED" /\ waitSem[h] = s
        /\ \A r \in Semaphores \ {s} : h \notin Members(queue[r])
    <3>1. \A r \in Semaphores : h \in Members(queue[r]) => status[h] = "BLOCKED" /\ waitSem[h] = r
      BY <1>0, Zenon DEF QueuePlace
    <3> QED BY <1>3, <3>1
  <2>3. pc[h] # "finish"
    <3>1. Place(h) /\ h \in Members(queue[s])
      BY <1>0, <1>3
    <3> QED BY <2>2, <3>1 DEF Place, Finishing
  <2>4. \A r \in Semaphores : Members(queue'[r]) = Members(queue[r]) \ {h}
    BY <1>3, <2>2
  <2>5. \/ UNCHANGED pc
        \/ /\ mode = "thread" /\ pc[currentThread] = "run" /\ pc'[currentThread] = "tick"
           /\ status[currentThread] = "RUNNING"
           /\ \A t \in Threads \ {currentThread} : pc'[t] = pc[t]
    BY <1>0, GotoEffect, RunningThread DEF At
  <2>6. /\ pc'[h] = pc[h]
        /\ \A t \in Threads : pc'[t] = pc[t] \/ (pc[t] = "run" /\ pc'[t] = "tick")
    BY <2>2, <2>5
  <2>7. \A t \in Threads : Place(t)'
    <3> SUFFICES ASSUME NEW t \in Threads PROVE Place(t)'
      OBVIOUS
    <3>1. CASE t = h
      BY <1>0, <1>1, <1>3, <2>1, <2>2, <3>1 DEF Place
    <3>2. CASE t # h
      <4>1. Finishing(t)' <=> Finishing(t)
        BY <2>1, <2>6, <3>2 DEF Finishing
      <4>2. \A r \in Semaphores : t \in Members(queue'[r]) <=> t \in Members(queue[r])
        BY <2>4, <3>2
      <4> QED BY <1>0, <1>1, <1>3, <2>1, <3>2, <4>1, <4>2 DEF Place
    <3> QED BY <3>1, <3>2
  <2>8. \A t \in Threads : Control(t)'
    <3> SUFFICES ASSUME NEW t \in Threads PROVE Control(t)'
      OBVIOUS
    <3>1. CASE t = h
      BY <1>0, <1>1, <2>1, <2>2, <2>3, <2>6, <3>1 DEF Control
    <3>2. CASE t # h
      BY <1>0, <1>1, <2>1, <2>6, <3>2 DEF Control
    <3> QED BY <3>1, <3>2
  <2>9. \A r \in Semaphores : QueuePlace(r)'
    <3> SUFFICES ASSUME NEW r \in Semaphores, NEW t \in Members(queue'[r])
                 PROVE  status'[t] = "BLOCKED" /\ waitSem'[t] = r
      BY <1>3, Zenon DEF QueuePlace
    <3>1. t \in Members(queue[r]) /\ t # h /\ t \in Threads
      BY <1>0, <2>4, QueueMembers
    <3>2. status[t] = "BLOCKED" /\ waitSem[t] = r
      BY <1>0, <3>1 DEF QueuePlace
    <3> QED BY <1>1, <2>1, <3>1, <3>2
  <2>10. CarcassCollected'
    <3>1. ~Finishing(h)' /\ \A t \in Threads \ {h} : Finishing(t)' <=> Finishing(t)
      BY <2>1, <2>6 DEF Finishing
    <3>2. toBeDestroyed # h
      BY <1>0, <2>3, ThreadsAssumption DEF CarcassCollected, Finishing
    <3>3. pc[currentThread] \in {"begin", "switched"} => pc'[currentThread] = pc[currentThread]
      BY <2>5
    <3>4. toBeDestroyed \in Threads \cup {NULL}
      BY <1>0 DEF TypeOK
    <3> QED BY <1>0, <1>1, <3>1, <3>2, <3>3, <3>4 DEF CarcassCollected
  <2>11. mode' # "thread" => /\ pc'[currentThread'] \in {"P", "finish"}
                             /\ status'[currentThread'] \in {"BLOCKED", "READY"}
    BY <1>0, <1>1, <2>1, <2>5
  <2> QED BY <1>3, <2>7, <2>8, <2>9, <2>10, <2>11, PlacedNext
<1> QED BY <1>2, <1>3, SignalEffect, Zenon

\* A yield keeps every thread in its place.
LEMMA YieldPlaced ==
  ASSUME Placed, TypeOK', YieldBody, At("run") \/ At("tick"),
         UNCHANGED <<mode, sems>>
  PROVE  Placed'
<1>type. TypeOK
  BY PlacedParts
<1>place. \A t \in Threads : Place(t)
  BY PlacedParts
<1>control. \A t \in Threads : Control(t)
  BY PlacedParts
<1>queues. \A r \in Semaphores : QueuePlace(r)
  BY PlacedParts
<1>1. /\ currentThread \in Threads /\ status[currentThread] = "RUNNING"
      /\ mode = "thread" /\ pc[currentThread] \in {"run", "tick"}
      /\ toBeDestroyed = NULL /\ waitSem[currentThread] = NULL
      /\ \A r \in Semaphores : currentThread \notin Members(queue[r])
  BY RunningThread DEF At
<1>2. CASE Goto("tick") /\ UNCHANGED <<sched, status, user>>
  <2>1. UNCHANGED <<currentThread, readyList, toBeDestroyed, queue, waitSem, space>>
    BY <1>2 DEF sched, sems, user
  <2>2. CheckToBeDestroyed
    BY <1>1, <1>2, <2>1, NoCarcass
  <2> QED BY <1>1, <1>2, <2>1, <2>2, MovePlaced
<1>3. ASSUME NEW next \in Threads,
             next \in Members(readyList), next # currentThread,
             status' = [status EXCEPT ![currentThread] = "READY", ![next] = "RUNNING"],
             Members(readyList') = (Members(readyList) \ {next}) \cup {currentThread},
             NoRepeats(readyList'),
             SwitchTo(next),
             Goto("switched"),
             UNCHANGED toBeDestroyed
      PROVE  Placed'
  <2>1. /\ currentThread' = next /\ UNCHANGED space
        /\ mode' = "thread" /\ UNCHANGED <<queue, waitSem>>
    BY <1>1, <1>3 DEF SwitchTo, sems
  <2>0. /\ next \in Threads /\ next # currentThread
        /\ \A t \in Threads \ {next, currentThread} :
             t \in Members(readyList') <=> t \in Members(readyList)
        /\ currentThread \in Members(readyList') /\ next \notin Members(readyList')
    BY <1>3
  <2>2. /\ status'[next] = "RUNNING" /\ status'[currentThread] = "READY"
        /\ \A t \in Threads \ {next, currentThread} : status'[t] = status[t]
    BY <1>type, <1>1, <1>3 DEF TypeOK
  <2>3. /\ pc'[currentThread] = "switched"
        /\ \A t \in Threads \ {currentThread} : pc'[t] = pc[t]
    BY <1>type, <1>3, GotoEffect
  <2>4. /\ status[next] = "READY" /\ pc[next] \in Points
        /\ pc[next] \notin {"finish", "P", "run", "tick"}
    BY <1>type, <1>place, <1>control, <1>3 DEF Place, Control, TypeOK
  <2>5. \A r \in Semaphores : next \notin Members(queue[r])
    BY <1>queues, <2>4 DEF QueuePlace
  <2>6. \A t \in Threads : Place(t)'
    <3> SUFFICES ASSUME NEW t \in Threads PROVE Place(t)'
      OBVIOUS
    <3>1. CASE t = next
      BY <2>0, <2>1, <2>2, <3>1 DEF Place
    <3>2. CASE t = currentThread
      BY <2>0, <2>1, <2>2, <3>2 DEF Place
    <3>3. CASE t # next /\ t # currentThread
      <4>1. status'[t] = status[t] /\ pc'[t] = pc[t]
        BY <2>2, <2>3, <3>3
      <4> QED BY <1>place, <1>1, <2>0, <2>1, <3>3, <4>1 DEF Place, Finishing
    <3> QED BY <3>1, <3>2, <3>3
  <2>7. \A t \in Threads : Control(t)'
    <3> SUFFICES ASSUME NEW t \in Threads PROVE Control(t)'
      OBVIOUS
    <3>1. CASE t = next
      BY <1>control, <2>0, <2>1, <2>2, <2>3, <2>4, <3>1 DEF Control
    <3>2. CASE t = currentThread
      BY <1>1, <2>1, <2>2, <2>3, <3>2 DEF Control
    <3>3. CASE t # next /\ t # currentThread
      <4>1. status'[t] = status[t] /\ pc'[t] = pc[t]
        BY <2>2, <2>3, <3>3
      <4> QED BY <1>control, <2>1, <3>3, <4>1 DEF Control
    <3> QED BY <3>1, <3>2, <3>3
  <2>8. \A r \in Semaphores : QueuePlace(r)'
    <3> SUFFICES ASSUME NEW r \in Semaphores PROVE QueuePlace(r)'
      OBVIOUS
    <3>1. ASSUME NEW t \in Members(queue[r])
          PROVE  t \in Threads /\ t # next /\ t # currentThread
      BY <1>type, <1>1, <2>5, QueueMembers
    <3> QED BY <1>queues, <2>1, <2>2, <3>1 DEF QueuePlace
  <2>9. CarcassCollected'
    <3>1. ASSUME NEW t \in Threads PROVE ~Finishing(t)
      BY <1>1, <3>1, PlacedParts, ThreadsAssumption DEF CarcassCollected
    <3>2. ASSUME NEW t \in Threads PROVE ~Finishing(t)'
      <4>1. CASE t \in {next, currentThread}
        BY <2>2, <4>1 DEF Finishing
      <4>2. CASE t \notin {next, currentThread}
        BY <2>2, <2>3, <3>1, <4>2 DEF Finishing
      <4> QED BY <4>1, <4>2
    <3> QED BY <1>1, <1>3, <3>2 DEF CarcassCollected
  <2> QED BY <1>3, <2>1, <2>6, <2>7, <2>8, <2>9, PlacedNext
<1> QED BY <1>1, <1>2, <1>3, YieldEffect, Zenon

\* Dispatching the first ready thread keeps every thread in its place, and a
\* finishing one becomes the thread to be deleted.
LEMMA DispatchPlaced ==
  ASSUME Placed, TypeOK', Dispatch
  PROVE  Placed'
<1> DEFINE next == Head(readyList)
<1>type. TypeOK
  BY PlacedParts
<1>place. \A t \in Threads : Place(t)
  BY PlacedParts
<1>control. \A t \in Threads : Control(t)
  BY PlacedParts
<1>queues. \A r \in Semaphores : QueuePlace(r)
  BY PlacedParts
<1>1. /\ readyList \in Seq(Threads) /\ NoRepeats(readyList) /\ readyList # <<>>
      /\ currentThread \in Threads /\ mode = "sleep"
  BY PlacedParts DEF TypeOK, Dispatch
<1>2. /\ next \in Threads
      /\ Members(readyList) = Members(Tail(readyList)) \cup {next}
      /\ NoRepeats(Tail(readyList)) /\ next \notin Members(Tail(readyList))
  BY <1>1, TailQueue
<1>3. /\ currentThread' = next /\ readyList' = Tail(readyList) /\ mode' = "thread"
      /\ status' = [status EXCEPT ![next] = "RUNNING"]
      /\ UNCHANGED <<queue, waitSem, space>>
  BY DEF Dispatch, SwitchTo, sems
<1> HIDE DEF next
<1>4. /\ status'[next] = "RUNNING"
      /\ \A t \in Threads \ {next} : status'[t] = status[t]
  BY <1>type, <1>2, <1>3 DEF TypeOK
<1>5. /\ NoRepeats(readyList') /\ next \in Members(readyList)
      /\ next \notin Members(readyList')
      /\ \A t \in Threads \ {next} : t \in Members(readyList') <=> t \in Members(readyList)
  BY <1>2, <1>3
<1>6. status[next] = "READY" /\ \A r \in Semaphores : next \notin Members(queue[r])
  BY <1>place, <1>queues, <1>2, <1>5 DEF Place, QueuePlace
<1>7. /\ pc[next] \in {"begin", "switched", "P"}
      /\ pc[next] = "P" => next = currentThread
  BY <1>type, <1>control, <1>2, <1>6, Zenon DEF Control, TypeOK, Points
<1>8. /\ pc[currentThread] \in {"P", "finish"}
      /\ status[currentThread] \in {"BLOCKED", "READY"}
      /\ pc[currentThread] = "finish" => status[currentThread] = "BLOCKED"
  BY <1>control, <1>1, PlacedParts DEF Control
<1>9. /\ toBeDestroyed = NULL
      /\ \A t \in Threads : Finishing(t) => t = currentThread
  BY <1>1, PlacedParts, ThreadsAssumption DEF CarcassCollected
<1>10. \/ /\ pc[currentThread] = "finish" /\ toBeDestroyed' = currentThread
          /\ \A t \in Threads : pc'[t] = pc[t]
          /\ next # currentThread
       \/ /\ pc[currentThread] = "P" /\ toBeDestroyed' = NULL
          /\ pc'[currentThread] = "switched"
          /\ \A t \in Threads \ {currentThread} : pc'[t] = pc[t]
  <2>1. CASE pc[currentThread] = "finish"
    BY <1>6, <1>8, <2>1 DEF Dispatch
  <2>2. CASE pc[currentThread] # "finish"
    <3>1. Goto("switched") /\ toBeDestroyed' = NULL
      BY <1>9, <2>2 DEF Dispatch
    <3> QED BY <1>type, <1>8, <2>2, <3>1, GotoEffect
  <2> QED BY <2>1, <2>2
<1>11. \A t \in Threads : pc'[t] = "finish" <=> pc[t] = "finish"
  BY <1>10
<1>12. \A t \in Threads : Place(t)'
  <2> SUFFICES ASSUME NEW t \in Threads PROVE Place(t)'
    OBVIOUS
  <2>1. CASE t = next
    BY <1>3, <1>4, <1>5, <2>1 DEF Place
  <2>2. CASE t # next
    <3>1. status'[t] = status[t] /\ (Finishing(t)' <=> Finishing(t))
      BY <1>4, <1>11, <2>2 DEF Finishing
    <3> QED BY <1>place, <1>1, <1>3, <1>5, <2>2, <3>1 DEF Place
  <2> QED BY <2>1, <2>2
<1>13. \A t \in Threads : Control(t)'
  <2> SUFFICES ASSUME NEW t \in Threads PROVE Control(t)'
    OBVIOUS
  <2>1. CASE t = currentThread
    BY <1>control, <1>3, <1>4, <1>7, <1>8, <1>10, <2>1 DEF Control
  <2>2. CASE t # currentThread
    <3>1. pc'[t] = pc[t]
      BY <1>10, <2>2
    <3> QED BY <1>control, <1>3, <1>4, <1>7, <2>2, <3>1 DEF Control
  <2> QED BY <2>1, <2>2
<1>14. \A r \in Semaphores : QueuePlace(r)'
  <2> SUFFICES ASSUME NEW r \in Semaphores PROVE QueuePlace(r)'
    OBVIOUS
  <2>1. ASSUME NEW t \in Members(queue[r]) PROVE t \in Threads /\ t # next
    BY <1>type, <1>6, QueueMembers
  <2> QED BY <1>queues, <1>3, <1>4, <2>1 DEF QueuePlace
<1>15. CarcassCollected'
  <2>1. \A t \in Threads : Finishing(t)' => t = currentThread
    BY <1>4, <1>9, <1>11 DEF Finishing
  <2>2. CASE pc[currentThread] = "finish"
    <3>1. /\ toBeDestroyed' = currentThread
          /\ next # currentThread /\ pc'[next] \in {"begin", "switched"}
          /\ pc'[currentThread] = "finish" /\ status'[currentThread] = "BLOCKED"
      BY <1>1, <1>2, <1>4, <1>7, <1>8, <1>10, <2>2
    <3> QED BY <1>3, <2>1, <3>1 DEF CarcassCollected, Finishing
  <2>3. CASE pc[currentThread] # "finish"
    <3>1. ASSUME NEW t \in Threads PROVE ~Finishing(t)'
      <4>1. Finishing(t)' => t = currentThread /\ pc'[t] = "finish"
        BY <2>1 DEF Finishing
      <4> QED BY <1>11, <2>3, <4>1
    <3> QED BY <1>10, <2>3, <3>1 DEF CarcassCollected
  <2> QED BY <2>2, <2>3
<1> QED BY <1>3, <1>5, <1>12, <1>13, <1>14, <1>15, PlacedNext
=============================================================================
