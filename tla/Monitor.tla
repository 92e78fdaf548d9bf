------------------------------- MODULE Monitor -------------------------------
(***************************************************************************)
(* Class Lock and class Condition (threads/synch.cc): a monitor lock and   *)
(* one condition variable of it, made of semaphores, with Mesa semantics.  *)
(*                                                                         *)
(* Semaphores are atomic here: P is one step that needs a value other than *)
(* zero, V is one step (what Scheduler is shown to implement).  A thread   *)
(* can lose the processor at the end of each P and V, so the code between  *)
(* two of them is at most one step.                                        *)
(***************************************************************************)
EXTENDS Integers, Sequences, FiniteSets

CONSTANTS
  Threads,
  NULL

ASSUME MonitorAssumption == IsFiniteSet(Threads) /\ NULL \notin Threads

VARIABLES
  lockValue,   \* the value of Lock::semaphore
  lockHolder,  \* Lock::lockHolder
  waitQueue,   \* Condition::waitQueue; a waiter stands for its semaphore
  waiter,      \* the value of the semaphore a thread allocated in Wait, or NULL
  pc

monitor == <<lockValue, lockHolder, waitQueue, waiter, pc>>

(***************************************************************************)
(*   outside    not using the monitor                                      *)
(*   acquire    in Lock::Acquire, before P                                 *)
(*   got        in Lock::Acquire, between P and the assignment             *)
(*   inside     holds the lock, between calls                              *)
(*   broadcast  in the loop of Condition::Broadcast                        *)
(*   sleep      in Condition::Wait, before P of its own semaphore          *)
(*   reacquire  in Condition::Wait, before P of the lock                   *)
(*   regot      in Condition::Wait, after P of the lock                    *)
(***************************************************************************)
Holding == {"got", "inside", "broadcast", "regot"}
Points == Holding \cup {"outside", "acquire", "sleep", "reacquire"}

MonitorTypeOK ==
  /\ lockValue \in Nat
  /\ lockHolder \in Threads \cup {NULL}
  /\ waitQueue \in Seq(Threads)
  /\ waiter \in [Threads -> Nat \cup {NULL}]
  /\ pc \in [Threads -> Points]

\* Lock::Lock and Condition::Condition
MonitorInit ==
  /\ lockValue = 1
  /\ lockHolder = NULL
  /\ waitQueue = <<>>
  /\ waiter = [t \in Threads |-> NULL]
  /\ pc = [t \in Threads |-> "outside"]

Goto(t, from, to) ==
  /\ pc[t] = from
  /\ pc' = [pc EXCEPT ![t] = to]

-----------------------------------------------------------------------------
(* Lock *)

CallAcquire(t) ==
  /\ Goto(t, "outside", "acquire")
  /\ UNCHANGED <<lockValue, lockHolder, waitQueue, waiter>>

\* P of the lock's semaphore
LockP(t, from, to) ==
  /\ Goto(t, from, to)
  /\ lockValue # 0
  /\ lockValue' = lockValue - 1

\* What Lock::Release changes besides the program point
LockV ==
  /\ lockHolder' = NULL
  /\ lockValue' = lockValue + 1

AcquireP(t) ==
  /\ LockP(t, "acquire", "got")
  /\ UNCHANGED <<lockHolder, waitQueue, waiter>>

\* The end of Lock::Acquire
SetHolder(t) ==
  /\ Goto(t, "got", "inside")
  /\ lockHolder' = t
  /\ UNCHANGED <<lockValue, waitQueue, waiter>>

\* Lock::Release
Release(t) ==
  /\ Goto(t, "inside", "outside")
  /\ LockV
  /\ UNCHANGED <<waitQueue, waiter>>

-----------------------------------------------------------------------------
(* Condition *)

\* Condition::Wait queues a new semaphore and releases the lock ...
Wait(t) ==
  /\ Goto(t, "inside", "sleep")
  /\ waiter' = [waiter EXCEPT ![t] = 0]
  /\ waitQueue' = Append(waitQueue, t)
  /\ LockV

\* ... waits for a signal ...
WaiterP(t) ==
  /\ Goto(t, "sleep", "reacquire")
  /\ waiter[t] # 0
  /\ waiter' = [waiter EXCEPT ![t] = @ - 1]
  /\ UNCHANGED <<lockValue, lockHolder, waitQueue>>

\* ... acquires the lock again ...
ReacquireP(t) ==
  /\ LockP(t, "reacquire", "regot")
  /\ UNCHANGED <<lockHolder, waitQueue, waiter>>

\* ... and deletes the semaphore.
WaitReturn(t) ==
  /\ Goto(t, "regot", "inside")
  /\ lockHolder' = t
  /\ waiter' = [waiter EXCEPT ![t] = NULL]
  /\ UNCHANGED <<lockValue, waitQueue>>

\* Broken variant of WakeFirst: First() instead of RemoveFront().
WakeFirstKeeps ==
  /\ waitQueue # <<>>
  /\ waiter' = [waiter EXCEPT ![Head(waitQueue)] = @ + 1]
  /\ UNCHANGED <<lockValue, lockHolder, waitQueue>>

\* Condition::Signal, when someone waits: V of the first waiter's semaphore
WakeFirst ==
  /\ waitQueue # <<>>
  /\ waitQueue' = Tail(waitQueue)
  /\ waiter' = [waiter EXCEPT ![Head(waitQueue)] = @ + 1]
  /\ UNCHANGED <<lockValue, lockHolder>>

Signal(t) ==
  /\ pc[t] = "inside"
  /\ WakeFirst
  /\ UNCHANGED pc

\* Condition::Broadcast
Broadcast(t) ==
  /\ Goto(t, "inside", "broadcast")
  /\ UNCHANGED <<lockValue, lockHolder, waitQueue, waiter>>

BroadcastSignal(t) ==
  /\ pc[t] = "broadcast"
  /\ WakeFirst
  /\ UNCHANGED pc

\* Broken variant of BroadcastEnd: the loop stops too early.
BroadcastEndEarly(t) ==
  /\ Goto(t, "broadcast", "inside")
  /\ UNCHANGED <<lockValue, lockHolder, waitQueue, waiter>>

BroadcastEnd(t) ==
  /\ waitQueue = <<>>
  /\ Goto(t, "broadcast", "inside")
  /\ UNCHANGED <<lockValue, lockHolder, waitQueue, waiter>>

-----------------------------------------------------------------------------
\* The steps of a call that has begun
Continue(t) ==
  \/ AcquireP(t) \/ SetHolder(t)
  \/ WaiterP(t) \/ ReacquireP(t) \/ WaitReturn(t)
  \/ BroadcastSignal(t) \/ BroadcastEnd(t)

\* A thread that uses the monitor in any way the assertions allow
MonitorNext ==
  \E t \in Threads :
    \/ Continue(t)
    \/ CallAcquire(t) \/ Release(t) \/ Wait(t) \/ Signal(t) \/ Broadcast(t)

\* A thread that can go on with a call does so.
MonitorFairness == \A t \in Threads : WF_monitor(Continue(t))

MonitorSpec == MonitorInit /\ [][MonitorNext]_monitor /\ MonitorFairness

-----------------------------------------------------------------------------
(* Properties *)

Queued(t) == \E i \in 1..Len(waitQueue) : waitQueue[i] = t

\* The lock admits one thread at a time, and is free exactly when no one is in.
\* lockHolder names the thread inside and nobody else, so the assertions
\* IsHeldByCurrentThread() of Release, Wait and Signal hold, also between the P
\* and the assignment of Acquire, when the lock is taken but has no holder.
\* And no signal is missed: a thread that sleeps is on the queue once and not
\* signalled, or off the queue and signalled once ("no chance the waiter will miss
\* the signal, even though the lock is released before calling P()", synch.cc);
\* and no queued semaphore is a deleted one.
MonitorKept ==
  /\ \A t, u \in Threads : pc[t] \in Holding /\ pc[u] \in Holding => t = u
  /\ lockValue = IF \E t \in Threads : pc[t] \in Holding THEN 0 ELSE 1
  /\ \A t \in Threads : lockHolder = t <=> pc[t] \in {"inside", "broadcast"}
  /\ \A t \in Threads :
       waiter[t] = IF pc[t] = "sleep" THEN IF Queued(t) THEN 0 ELSE 1
                   ELSE IF pc[t] \in {"reacquire", "regot"} THEN 0
                   ELSE NULL
  /\ \A t \in Threads : Queued(t) => pc[t] = "sleep"
  /\ \A i, j \in 1..Len(waitQueue) : waitQueue[i] = waitQueue[j] => i = j

\* A thread that is signalled wakes up, and a broadcast reaches everyone who
\* was waiting (Condition::Signal, Condition::Broadcast).
SignalWakes ==
  \A t \in Threads :
    /\ (pc[t] = "sleep" /\ ~Queued(t)) ~> (pc[t] = "reacquire")
    /\ (pc[t] = "sleep" /\ \E u \in Threads : pc[u] = "broadcast") ~> (pc[t] = "reacquire")
=============================================================================
