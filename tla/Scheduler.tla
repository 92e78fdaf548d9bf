------------------------------ MODULE Scheduler ------------------------------
(***************************************************************************)
(* Kernel threads on one processor: Thread, Scheduler, Semaphore and the   *)
(* part of Interrupt that decides when a thread can lose the processor     *)
(* (threads/thread.cc, threads/scheduler.cc, threads/synch.cc,             *)
(* machine/interrupt.cc, threads/alarm.cc), with the switches between      *)
(* kernel and user code (machine/machine.cc, machine/mipssim.cc).          *)
(*                                                                         *)
(* Code between IntOff and IntOn runs without interruption.  A thread can  *)
(* be preempted only where interrupts are turned back on, or after a user  *)
(* instruction: both call Interrupt::OneTick, which runs the handlers that *)
(* are due and yields if the timer asked for it.  Every other stretch of   *)
(* kernel code is one step here.                                           *)
(***************************************************************************)
EXTENDS Integers, Sequences, FiniteSets

CONSTANTS
  Threads,       \* the thread control blocks that can be allocated
  MainThread,    \* the thread Kernel::Initialize starts in
  Semaphores,    \* the semaphores the threads share
  DeviceSems,    \* those that an interrupt handler signals
  InitialValue,  \* the initial value of each semaphore
  MaxValue,      \* bound: no semaphore is signalled past this value
  NULL

ASSUME ThreadsAssumption ==
  /\ IsFiniteSet(Threads)
  /\ MainThread \in Threads
  /\ NULL \notin Threads

ASSUME SemaphoresAssumption ==
  /\ NULL \notin Semaphores
  /\ DeviceSems \subseteq Semaphores
  /\ InitialValue \in [Semaphores -> Nat]
  /\ MaxValue \in Nat

VARIABLES
  currentThread,  \* kernel->currentThread
  status,         \* Thread::status; UNUSED when the block is not allocated
  readyList,      \* Scheduler::readyList
  toBeDestroyed,  \* Scheduler::toBeDestroyed
  pc,             \* where each thread continues when it has the processor
  mode,           \* what the processor does: run the current thread, look for
                  \* the next one in Thread::Sleep, or wait in Interrupt::Idle
  yieldOnReturn,  \* Interrupt::yieldOnReturn
  value,          \* Semaphore::value
  queue,          \* Semaphore::queue
  waitSem,        \* the semaphore whose P a thread is inside, or NULL
  space,          \* whether a thread runs a user program (space != NULL)
  machineRegs,    \* whose up-to-date user registers the machine holds
  savedRegs,      \* whether Thread::userRegisters is up to date
  inUser,         \* whether a thread is in user code, not in the kernel
  machineStatus,  \* Interrupt::status
  oldStatus       \* the machine status that the outermost OneTick of a thread
                  \* restores when its Yield returns; NULL outside such a Yield

sched == <<currentThread, readyList, toBeDestroyed>>
sems  == <<value, queue, waitSem>>
user  == <<space, machineRegs, savedRegs>>
level == <<inUser, machineStatus, oldStatus>>
vars  == <<sched, status, pc, mode, yieldOnReturn, sems, user, level>>

MachineStatus == {"IdleMode", "SystemMode", "UserMode"}

ASSUME NullAssumption == NULL \notin MachineStatus

Status == {"UNUSED", "JUST_CREATED", "RUNNING", "READY", "BLOCKED"}

(***************************************************************************)
(* Program points of a thread.                                             *)
(*   begin     forked, will enter ThreadRoot and Thread::Begin             *)
(*   run       its own code, interrupts on                                 *)
(*   tick      Interrupt::OneTick, on the way back to its own code         *)
(*   switched  in Scheduler::Run, just after SWITCH                        *)
(*   P         the test of the loop in Semaphore::P                        *)
(*   finish    Thread::Finish was called, or the block is free             *)
(***************************************************************************)
Points == {"begin", "run", "tick", "switched", "P", "finish"}

TypeOK ==
  /\ currentThread \in Threads
  /\ status \in [Threads -> Status]
  /\ readyList \in Seq(Threads)
  /\ toBeDestroyed \in Threads \cup {NULL}
  /\ pc \in [Threads -> Points]
  /\ mode \in {"thread", "sleep", "idle"}
  /\ yieldOnReturn \in BOOLEAN
  /\ value \in [Semaphores -> Nat]
  /\ queue \in [Semaphores -> Seq(Threads)]
  /\ waitSem \in [Threads -> Semaphores \cup {NULL}]
  /\ space \in [Threads -> BOOLEAN]
  /\ machineRegs \in Threads \cup {NULL}
  /\ savedRegs \in [Threads -> BOOLEAN]
  /\ inUser \in [Threads -> BOOLEAN]
  /\ machineStatus \in MachineStatus
  /\ oldStatus \in [Threads -> MachineStatus \cup {NULL}]

\* Kernel::Initialize: the main thread runs, nothing else exists.
Init ==
  /\ currentThread = MainThread
  /\ status = [t \in Threads |-> IF t = MainThread THEN "RUNNING" ELSE "UNUSED"]
  /\ readyList = <<>>
  /\ toBeDestroyed = NULL
  /\ pc = [t \in Threads |-> IF t = MainThread THEN "run" ELSE "finish"]
  /\ mode = "thread"
  /\ yieldOnReturn = FALSE
  /\ value = InitialValue
  /\ queue = [s \in Semaphores |-> <<>>]
  /\ waitSem = [t \in Threads |-> NULL]
  /\ space = [t \in Threads |-> FALSE]
  /\ machineRegs = NULL
  /\ savedRegs = [t \in Threads |-> FALSE]
  /\ inUser = [t \in Threads |-> FALSE]
  /\ machineStatus = "SystemMode"
  /\ oldStatus = [t \in Threads |-> NULL]

-----------------------------------------------------------------------------
(* The pieces the operations share. *)

\* The current thread has the processor and is at the point loc.
At(loc) == mode = "thread" /\ pc[currentThread] = loc

\* The same, for the kernel's own code with interrupts on.
InKernel == At("run") /\ ~inUser[currentThread]

Goto(loc) == pc' = [pc EXCEPT ![currentThread] = loc]

\* Scheduler::ReadyToRun
ReadyToRun(t) ==
  /\ status' = [status EXCEPT ![t] = "READY"]
  /\ readyList' = Append(readyList, t)

\* The first half of Scheduler::Run: save the user registers of the thread that
\* leaves and switch stacks.
SwitchTo(next) ==
  /\ currentThread' = next
  /\ savedRegs' = IF space[currentThread]
                  THEN [savedRegs EXCEPT ![currentThread] =
                                            (machineRegs = currentThread)]
                  ELSE savedRegs
  /\ UNCHANGED <<space, machineRegs>>

\* Scheduler::CheckToBeDestroyed
CheckToBeDestroyed ==
  /\ status' = [t \in Threads |-> IF t = toBeDestroyed THEN "UNUSED" ELSE status[t]]
  /\ toBeDestroyed' = NULL

\* Broken variant of SignalSem: First() instead of RemoveFront().
SignalSemKeepsWaiter(s) ==
  /\ value[s] < MaxValue
  /\ value' = [value EXCEPT ![s] = @ + 1]
  /\ \/ queue[s] = <<>> /\ UNCHANGED <<status, readyList>>
     \/ queue[s] # <<>> /\ ReadyToRun(Head(queue[s]))
  /\ UNCHANGED <<queue, waitSem, currentThread, toBeDestroyed>>

\* Broken variant of SignalSem: wakes a thread only when the value was 0.
SignalSemAtZero(s) ==
  /\ value[s] < MaxValue
  /\ value' = [value EXCEPT ![s] = @ + 1]
  /\ \/ /\ queue[s] = <<>> \/ value[s] # 0
        /\ UNCHANGED <<queue, status, readyList>>
     \/ /\ queue[s] # <<>> /\ value[s] = 0
        /\ queue' = [queue EXCEPT ![s] = Tail(@)]
        /\ ReadyToRun(Head(queue[s]))
  /\ UNCHANGED <<waitSem, currentThread, toBeDestroyed>>

\* The part of Semaphore::V that runs with interrupts off.
SignalSem(s) ==
  /\ value[s] < MaxValue
  /\ value' = [value EXCEPT ![s] = @ + 1]
  /\ \/ /\ queue[s] = <<>>
        /\ UNCHANGED <<queue, status, readyList>>
     \/ /\ queue[s] # <<>>
        /\ queue' = [queue EXCEPT ![s] = Tail(@)]
        /\ ReadyToRun(Head(queue[s]))
  /\ UNCHANGED <<waitSem, currentThread, toBeDestroyed>>

\* Broken variant of YieldBody: Prepend() instead of Append() on the ready list.
YieldBodyPrepends ==
  \/ /\ readyList = <<>>
     /\ Goto("tick")
     /\ UNCHANGED <<sched, status, user>>
  \/ /\ readyList # <<>>
     /\ LET next == Head(readyList) IN
          /\ status' = [status EXCEPT ![currentThread] = "READY", ![next] = "RUNNING"]
          /\ readyList' = <<currentThread>> \o Tail(readyList)
          /\ SwitchTo(next)
     /\ Goto("switched")
     /\ UNCHANGED toBeDestroyed

\* Thread::Yield: nothing to do when no other thread is ready; either way
\* interrupts are turned on again at the end.
YieldBody ==
  \/ /\ readyList = <<>>
     /\ Goto("tick")
     /\ UNCHANGED <<sched, status, user>>
  \/ /\ readyList # <<>>
     /\ LET next == Head(readyList) IN
          /\ status' = [status EXCEPT ![currentThread] = "READY", ![next] = "RUNNING"]
          /\ readyList' = Append(Tail(readyList), currentThread)
          /\ SwitchTo(next)
     /\ Goto("switched")
     /\ UNCHANGED toBeDestroyed

-----------------------------------------------------------------------------
(* What a thread does with interrupts on. *)

\* Thread::Thread
NewThread(t) ==
  /\ InKernel
  /\ status[t] = "UNUSED"
  /\ status' = [status EXCEPT ![t] = "JUST_CREATED"]
  /\ space' = [space EXCEPT ![t] = FALSE]
  /\ UNCHANGED <<sched, pc, mode, yieldOnReturn, sems, machineRegs, savedRegs, level>>

\* Thread::Fork
Fork(t) ==
  /\ InKernel
  /\ status[t] = "JUST_CREATED"
  /\ ReadyToRun(t)
  /\ pc' = [pc EXCEPT ![t] = "begin", ![currentThread] = "tick"]
  /\ UNCHANGED <<currentThread, toBeDestroyed, mode, yieldOnReturn, sems, user, level>>

\* Thread::Yield, called by the thread itself
Yield ==
  /\ InKernel
  /\ YieldBody
  /\ UNCHANGED <<mode, yieldOnReturn, sems, level>>

\* Thread::Finish; the main thread never returns from main(), it halts the
\* machine.
Finish ==
  /\ InKernel
  /\ currentThread # MainThread
  /\ status' = [status EXCEPT ![currentThread] = "BLOCKED"]
  /\ mode' = "sleep"
  /\ Goto("finish")
  /\ UNCHANGED <<sched, yieldOnReturn, sems, user, level>>

\* StartProcess: give the thread an address space, set up its registers and
\* enter user code (Machine::Run).
StartProcess ==
  /\ InKernel
  /\ ~space[currentThread]
  /\ space' = [space EXCEPT ![currentThread] = TRUE]
  /\ machineRegs' = currentThread
  /\ savedRegs' = [savedRegs EXCEPT ![currentThread] = FALSE]
  /\ inUser' = [inUser EXCEPT ![currentThread] = TRUE]
  /\ machineStatus' = "UserMode"
  /\ UNCHANGED <<sched, status, pc, mode, yieldOnReturn, sems, oldStatus>>

\* The loop of Machine::Run: one user instruction, then OneTick.
UserInstruction ==
  /\ At("run")
  /\ inUser[currentThread]
  /\ savedRegs' = [savedRegs EXCEPT ![currentThread] = FALSE]
  /\ Goto("tick")
  /\ UNCHANGED <<sched, status, mode, yieldOnReturn, sems, space, machineRegs, level>>

\* Machine::RaiseException: a system call enters the kernel ...
RaiseException ==
  /\ At("run")
  /\ inUser[currentThread]
  /\ inUser' = [inUser EXCEPT ![currentThread] = FALSE]
  /\ machineStatus' = "SystemMode"
  /\ UNCHANGED <<sched, status, pc, mode, yieldOnReturn, sems, user, oldStatus>>

\* ... writes its result to the user's registers and returns; the instruction
\* is over, so OneTick follows.
ExceptionReturn ==
  /\ InKernel
  /\ space[currentThread]
  /\ savedRegs' = [savedRegs EXCEPT ![currentThread] = FALSE]
  /\ inUser' = [inUser EXCEPT ![currentThread] = TRUE]
  /\ machineStatus' = "UserMode"
  /\ Goto("tick")
  /\ UNCHANGED <<sched, status, mode, yieldOnReturn, sems, space, machineRegs, oldStatus>>

\* Semaphore::P, up to the test of its loop
CallP(s) ==
  /\ InKernel
  /\ waitSem' = [waitSem EXCEPT ![currentThread] = s]
  /\ Goto("P")
  /\ UNCHANGED <<sched, status, mode, yieldOnReturn, value, queue, user, level>>

\* Semaphore::V, called by a thread
CallV(s) ==
  /\ InKernel
  /\ SignalSem(s)
  /\ Goto("tick")
  /\ UNCHANGED <<mode, yieldOnReturn, user, level>>

-----------------------------------------------------------------------------
(* Steps with interrupts off: the scheduler and the loop of P. *)

\* Semaphore::P: the value is 0, queue up and sleep.
BlockInP ==
  /\ At("P")
  /\ LET s == waitSem[currentThread] IN
       /\ value[s] = 0
       /\ queue' = [queue EXCEPT ![s] = Append(@, currentThread)]
  /\ status' = [status EXCEPT ![currentThread] = "BLOCKED"]
  /\ mode' = "sleep"
  /\ UNCHANGED <<sched, pc, yieldOnReturn, value, waitSem, user, level>>

\* Broken variant of LeaveP: the unit is not taken.
LeavePKeepsUnit ==
  /\ At("P")
  /\ value[waitSem[currentThread]] # 0
  /\ waitSem' = [waitSem EXCEPT ![currentThread] = NULL]
  /\ Goto("tick")
  /\ UNCHANGED <<sched, status, mode, yieldOnReturn, value, queue, user, level>>

\* Semaphore::P: consume a unit and turn interrupts on again.
LeaveP ==
  /\ At("P")
  /\ LET s == waitSem[currentThread] IN
       /\ value[s] # 0
       /\ value' = [value EXCEPT ![s] = @ - 1]
  /\ waitSem' = [waitSem EXCEPT ![currentThread] = NULL]
  /\ Goto("tick")
  /\ UNCHANGED <<sched, status, mode, yieldOnReturn, queue, user, level>>

\* Thread::Sleep finds a ready thread and runs it; it may find itself, if a
\* handler woke it while the processor was idle.
Dispatch ==
  /\ mode = "sleep"
  /\ readyList # <<>>
  /\ LET next == Head(readyList) IN
       /\ status' = [status EXCEPT ![next] = "RUNNING"]
       /\ SwitchTo(next)
  /\ readyList' = Tail(readyList)
  /\ mode' = "thread"
  /\ \/ /\ pc[currentThread] = "finish"
        /\ toBeDestroyed' = currentThread
        /\ UNCHANGED pc
     \/ /\ pc[currentThread] # "finish"
        /\ Goto("switched")
        /\ UNCHANGED toBeDestroyed
  /\ UNCHANGED <<yieldOnReturn, sems, level>>

\* Broken variant of Begin: does not call CheckToBeDestroyed.
BeginKeepsCarcass ==
  /\ At("begin")
  /\ Goto("tick")
  /\ UNCHANGED <<sched, status, mode, yieldOnReturn, sems, user, level>>

\* Thread::Begin
Begin ==
  /\ At("begin")
  /\ CheckToBeDestroyed
  /\ Goto("tick")
  /\ UNCHANGED <<currentThread, readyList, mode, yieldOnReturn, sems, user, level>>

\* Broken variant of Resume: RestoreUserState is not called.
ResumeNoRestore ==
  /\ At("switched")
  /\ CheckToBeDestroyed
  /\ Goto(IF waitSem[currentThread] # NULL THEN "P" ELSE "tick")
  /\ UNCHANGED <<currentThread, readyList, mode, yieldOnReturn, sems, user, level>>

\* The second half of Scheduler::Run, then back into P or to the end of Yield.
Resume ==
  /\ At("switched")
  /\ CheckToBeDestroyed
  /\ machineRegs' = IF space[currentThread]
                    THEN IF savedRegs[currentThread] THEN currentThread ELSE NULL
                    ELSE machineRegs
  /\ Goto(IF waitSem[currentThread] # NULL THEN "P" ELSE "tick")
  /\ UNCHANGED <<currentThread, readyList, mode, yieldOnReturn, sems, space, savedRegs, level>>

-----------------------------------------------------------------------------
(* Interrupts: due in OneTick, or awaited in Idle. *)

\* A device handler that OneTick runs signals the semaphore a thread waits on.
TickDevice(s) ==
  /\ At("tick")
  /\ SignalSem(s)
  /\ UNCHANGED <<pc, mode, yieldOnReturn, user, level>>

\* Alarm::CallBack run by OneTick
TickTimer ==
  /\ At("tick")
  /\ ~yieldOnReturn
  /\ yieldOnReturn' = TRUE
  /\ UNCHANGED <<sched, status, pc, mode, sems, user, level>>

\* Broken variant of TickReturn: the status found is not restored after Yield.
TickReturnKeepsStatus ==
  /\ At("tick")
  /\ \/ /\ ~yieldOnReturn
        /\ Goto("run")
        /\ UNCHANGED <<sched, status, user, machineStatus, oldStatus>>
     \/ /\ yieldOnReturn
        /\ machineStatus' = "SystemMode"
        /\ YieldBody
        /\ UNCHANGED oldStatus
  /\ yieldOnReturn' = FALSE
  /\ UNCHANGED <<mode, sems, inUser>>

\* The end of OneTick: back to where the thread was, or Yield on its behalf as a
\* kernel routine.  Yield ends with a OneTick of its own; the outermost one
\* restores the machine status it found.
TickReturn ==
  /\ At("tick")
  /\ \/ /\ ~yieldOnReturn
        /\ Goto("run")
        /\ machineStatus' = IF oldStatus[currentThread] = NULL
                            THEN machineStatus
                            ELSE oldStatus[currentThread]
        /\ oldStatus' = [oldStatus EXCEPT ![currentThread] = NULL]
        /\ UNCHANGED <<sched, status, user>>
     \/ /\ yieldOnReturn
        /\ oldStatus' = [oldStatus EXCEPT ![currentThread] =
                           IF @ = NULL THEN machineStatus ELSE @]
        /\ machineStatus' = "SystemMode"
        /\ YieldBody
  /\ yieldOnReturn' = FALSE
  /\ UNCHANGED <<mode, sems, inUser>>

\* Thread::Sleep finds no ready thread and calls Interrupt::Idle.
Idle ==
  /\ mode = "sleep"
  /\ readyList = <<>>
  /\ mode' = "idle"
  /\ machineStatus' = "IdleMode"
  /\ UNCHANGED <<sched, status, pc, yieldOnReturn, sems, user, inUser, oldStatus>>

\* A device handler run by Idle
IdleDevice(s) ==
  /\ mode = "idle"
  /\ SignalSem(s)
  /\ UNCHANGED <<pc, mode, yieldOnReturn, user, level>>

\* Idle returns to Sleep after the handlers that were due; a timer interrupt
\* alone also ends it, and asks for no yield (Alarm::CallBack in IdleMode).
IdleReturn ==
  /\ mode = "idle"
  /\ mode' = "sleep"
  /\ machineStatus' = "SystemMode"
  /\ UNCHANGED <<sched, status, pc, yieldOnReturn, sems, user, inUser, oldStatus>>

-----------------------------------------------------------------------------
ThreadStep ==
  \/ \E t \in Threads : NewThread(t) \/ Fork(t)
  \/ \E s \in Semaphores : CallP(s) \/ CallV(s)
  \/ Yield \/ Finish \/ StartProcess \/ UserInstruction
  \/ RaiseException \/ ExceptionReturn

KernelStep ==
  \/ BlockInP \/ LeaveP \/ Dispatch \/ Begin \/ Resume
  \/ TickReturn \/ Idle \/ IdleReturn

DeviceStep == \E s \in DeviceSems : TickDevice(s) \/ IdleDevice(s)

Next == ThreadStep \/ KernelStep \/ DeviceStep \/ TickTimer

Spec == Init /\ [][Next]_vars

(***************************************************************************)
(* Fairness.  Kernel code with interrupts off runs on; a thread that has   *)
(* the processor gets to its next instruction or kernel call; the timer,   *)
(* always re-armed (machine/timer.cc), fires again and again as long as    *)
(* simulated time advances, that is, as long as OneTick is called.         *)
(***************************************************************************)
FairSpec == Spec /\ WF_vars(KernelStep) /\ WF_vars(ThreadStep) /\ SF_vars(TickTimer)

-----------------------------------------------------------------------------
(* Properties *)

Members(q) == {q[i] : i \in 1..Len(q)}

NoRepeats(q) == \A i, j \in 1..Len(q) : q[i] = q[j] => i = j

\* A thread that gave up the processor for good and is not deleted yet.
Finishing(t) == pc[t] = "finish" /\ status[t] = "BLOCKED"

\* Every thread is in exactly one place, the one its status names: the
\* processor, the ready list (once), the queue of the semaphore it waits on
\* (once), or on its way out.  List::Append relies on it
\* (ASSERT(!IsInList(item)), lib/list.cc), and so does every Thread pointer the
\* scheduler and the semaphores keep.
ThreadPlacement ==
  /\ \A t \in Threads :
       /\ status[t] = "RUNNING" <=> (mode = "thread" /\ t = currentThread)
       /\ status[t] = "READY" <=> t \in Members(readyList)
       /\ status[t] = "BLOCKED" =>
            (Finishing(t) <=> \A s \in Semaphores : t \notin Members(queue[s]))
  /\ \A s \in Semaphores : \A t \in Members(queue[s]) :
       status[t] = "BLOCKED" /\ waitSem[t] = s
  /\ NoRepeats(readyList)
  /\ \A s \in Semaphores : NoRepeats(queue[s])

\* A thread's status and the point where its code continues agree: only a thread
\* inside P waits on a semaphore, a thread that is scheduled resumes in Run or
\* starts in ThreadRoot, a new thread has neither a continuation nor an address
\* space.
ControlPoints ==
  /\ \A t \in Threads :
       /\ waitSem[t] # NULL => pc[t] \in {"P", "switched"}
       /\ pc[t] = "P" => waitSem[t] # NULL /\ t = currentThread
       /\ status[t] \in {"UNUSED", "JUST_CREATED"} => pc[t] = "finish"
       /\ status[t] \in {"RUNNING", "READY"} => pc[t] # "finish"
       /\ status[t] = "BLOCKED" => pc[t] \in {"P", "switched", "finish"}
       /\ pc[t] \in {"run", "tick"} => status[t] = "RUNNING"
       /\ pc[t] = "begin" \/ status[t] = "JUST_CREATED" => ~space[t]
  /\ mode # "thread" => /\ pc[currentThread] \in {"P", "finish"}
                        /\ status[currentThread] \in {"BLOCKED", "READY"}

\* The threads a V took off the queue of s that have not tested the value since.
Woken(s) == {t \in Threads : waitSem[t] = s /\ t \notin Members(queue[s])}

\* No lost wake-up: while threads sleep on a semaphore, each unit of its value
\* is matched by a thread that is awake inside P and will test the value.  V wakes
\* one thread and adds one unit, but another thread can take the unit first and
\* the woken one goes back to sleep (the while loop of Semaphore::P).
NoLostWakeup ==
  \A s \in Semaphores :
    queue[s] # <<>> => value[s] <= Cardinality(Woken(s))

\* A finishing thread is deleted by the very next thread to run, before
\* anything else happens: so Scheduler::Run finds toBeDestroyed NULL
\* (ASSERT in Run), never deletes the stack it runs on (ASSERT in ~Thread),
\* and at most one thread is waiting to be deleted.
CarcassCollected ==
  /\ toBeDestroyed # NULL =>
       /\ Finishing(toBeDestroyed)
       /\ toBeDestroyed # currentThread
       /\ mode = "thread" /\ pc[currentThread] \in {"begin", "switched"}
  /\ \A t \in Threads :
       Finishing(t) => t = toBeDestroyed \/ (t = currentThread /\ mode # "thread")

\* A user program finds its own registers, as it left them, whenever it runs or a
\* system call works on them; while it is off the processor its thread block holds
\* them (Scheduler::Run, Thread::SaveUserState, Thread::RestoreUserState).
UserRegistersKept ==
  \A t \in Threads :
    space[t] /\ status[t] \in {"RUNNING", "READY", "BLOCKED"} /\ pc[t] # "finish" =>
      IF t = currentThread /\ ~(mode = "thread" /\ pc[t] = "switched")
      THEN machineRegs = t
      ELSE savedRegs[t]

\* The machine status that belongs to the code thread t is in.
StatusOf(t) == IF inUser[t] THEN "UserMode" ELSE "SystemMode"

\* The machine status is the one of the code that runs, user or kernel, although
\* a context switch changes it and each thread carries the status to restore in a
\* local variable of OneTick (Interrupt::OneTick, Machine::RaiseException).
MachineStatusRight ==
  /\ machineStatus = IF mode = "idle" THEN "IdleMode"
                     ELSE IF At("run") \/ (At("tick") /\ oldStatus[currentThread] = NULL)
                     THEN StatusOf(currentThread)
                     ELSE "SystemMode"
  /\ \A t \in Threads :
       IF oldStatus[t] # NULL
       THEN /\ oldStatus[t] = StatusOf(t)
            /\ pc[t] \in {"tick", "switched"} /\ waitSem[t] = NULL
       ELSE inUser[t] => t = currentThread /\ (At("run") \/ At("tick"))

\* A ready thread eventually runs: the ready list is FIFO and the timer makes
\* every running thread yield (the comment of Thread::Yield promises that it
\* "eventually works its way to the front of the ready list").
ReadyRuns == \A t \in Threads : status[t] = "READY" ~> status[t] = "RUNNING"

\* What Semaphore promises its callers (threads/synch.h): P waits until the value
\* is positive and takes one unit, V adds one unit, both atomically.
AtomicSemaphore == INSTANCE Semaphore WITH Procs <- Threads, waiting <- waitSem
SemaphorePromise == AtomicSemaphore!Spec
=============================================================================
