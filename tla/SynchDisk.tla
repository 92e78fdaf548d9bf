------------------------------ MODULE SynchDisk ------------------------------
(***************************************************************************)
(* The disk and its driver: class Disk (machine/disk.cc), which takes one  *)
(* request at a time and interrupts when it is done, and class SynchDisk   *)
(* (filesys/synchdisk.cc), which threads call.                             *)
(*                                                                         *)
(* The lock and the semaphore are atomic here, as Monitor and Scheduler    *)
(* show them to be; a thread can lose the processor after each of them.    *)
(***************************************************************************)
EXTENDS Integers, FiniteSets

CONSTANTS
  Threads,
  Sectors,      \* the sector numbers
  Data,         \* the contents a sector can have
  InitialData,  \* what all sectors hold at first
  NULL

Operations == [write : BOOLEAN, sector : Sectors, data : Data]

ASSUME SynchDiskAssumption ==
  /\ InitialData \in Data
  /\ NULL \notin Threads /\ NULL \notin Data /\ NULL \notin Operations

VARIABLES
  lock,       \* the thread that holds SynchDisk::lock, or NULL
  semaphore,  \* the value of SynchDisk::semaphore
  active,     \* Disk::active
  interrupt,  \* whether the disk's interrupt is pending
  sectors,    \* the file that simulates the disk
  pc,
  op,         \* the operation a thread is performing, or NULL
  buffer      \* what the caller's buffer holds after its last request

vars == <<lock, semaphore, active, interrupt, sectors, pc, op, buffer>>

(***************************************************************************)
(*   idle      not using the disk                                          *)
(*   acquire   in lock->Acquire()                                          *)
(*   request   before disk->ReadRequest() or WriteRequest()                *)
(*   wait      in semaphore->P()                                           *)
(*   release   before lock->Release()                                      *)
(***************************************************************************)
Points == {"idle", "acquire", "request", "wait", "release"}

TypeOK ==
  /\ lock \in Threads \cup {NULL}
  /\ semaphore \in Nat
  /\ active \in BOOLEAN
  /\ interrupt \in BOOLEAN
  /\ sectors \in [Sectors -> Data]
  /\ pc \in [Threads -> Points]
  /\ op \in [Threads -> Operations \cup {NULL}]
  /\ buffer \in [Threads -> Data \cup {NULL}]

\* SynchDisk::SynchDisk and Disk::Disk
Init ==
  /\ lock = NULL
  /\ semaphore = 0
  /\ active = FALSE
  /\ interrupt = FALSE
  /\ sectors = [s \in Sectors |-> InitialData]
  /\ pc = [t \in Threads |-> "idle"]
  /\ op = [t \in Threads |-> NULL]
  /\ buffer = [t \in Threads |-> NULL]

Goto(t, from, to) ==
  /\ pc[t] = from
  /\ pc' = [pc EXCEPT ![t] = to]

-----------------------------------------------------------------------------
\* A thread calls ReadSector or WriteSector.
Call(t, o) ==
  /\ Goto(t, "idle", "acquire")
  /\ op' = [op EXCEPT ![t] = o]
  /\ buffer' = [buffer EXCEPT ![t] = NULL]
  /\ UNCHANGED <<lock, semaphore, active, interrupt, sectors>>

\* Broken variant of Acquire: the lock is not taken.
AcquireNothing(t) ==
  /\ Goto(t, "acquire", "request")
  /\ UNCHANGED <<lock, semaphore, active, interrupt, sectors, op, buffer>>

\* lock->Acquire()
Acquire(t) ==
  /\ Goto(t, "acquire", "request")
  /\ lock = NULL
  /\ lock' = t
  /\ UNCHANGED <<semaphore, active, interrupt, sectors, op, buffer>>

\* Broken variant of Request: the data moves to the wrong place in the file.
RequestMisplaced(t) ==
  /\ Goto(t, "request", "wait")
  /\ LET s == CHOOSE s \in Sectors : TRUE
         d == IF op[t].write THEN op[t].data ELSE sectors[s]
     IN /\ sectors' = [sectors EXCEPT ![s] = d]
        /\ buffer' = [buffer EXCEPT ![t] = d]
  /\ active' = TRUE
  /\ interrupt' = TRUE
  /\ UNCHANGED <<lock, semaphore, op>>

\* Disk::ReadRequest and Disk::WriteRequest: the data moves at once, the
\* interrupt comes later.
Request(t) ==
  /\ Goto(t, "request", "wait")
  /\ LET s == op[t].sector
         d == IF op[t].write THEN op[t].data ELSE sectors[s]
     IN /\ sectors' = [sectors EXCEPT ![s] = d]
        /\ buffer' = [buffer EXCEPT ![t] = d]
  /\ active' = TRUE
  /\ interrupt' = TRUE
  /\ UNCHANGED <<lock, semaphore, op>>

\* Broken variant of CallBack: the handler schedules itself again and wakes no one.
CallBackPolls ==
  /\ interrupt
  /\ UNCHANGED vars

\* Disk::CallBack and SynchDisk::CallBack, run by the interrupt
CallBack ==
  /\ interrupt
  /\ interrupt' = FALSE
  /\ active' = FALSE
  /\ semaphore' = semaphore + 1
  /\ UNCHANGED <<lock, sectors, pc, op, buffer>>

\* semaphore->P()
WaitP(t) ==
  /\ Goto(t, "wait", "release")
  /\ semaphore # 0
  /\ semaphore' = semaphore - 1
  /\ UNCHANGED <<lock, active, interrupt, sectors, op, buffer>>

\* lock->Release() and return
Release(t) ==
  /\ Goto(t, "release", "idle")
  /\ lock' = NULL
  /\ op' = [op EXCEPT ![t] = NULL]
  /\ UNCHANGED <<semaphore, active, interrupt, sectors, buffer>>

-----------------------------------------------------------------------------
NewCall(t) == \E o \in Operations : Call(t, o)

Work(t) == Acquire(t) \/ Request(t) \/ WaitP(t) \/ Release(t)

Next == CallBack \/ \E t \in Threads : NewCall(t) \/ Work(t)

Spec == Init /\ [][Next]_vars

\* The disk interrupts after each request (the pending list of Interrupt is
\* served as long as time advances); a thread that can go on does so.
FairSpec == Spec /\ WF_vars(CallBack) /\ \A t \in Threads : WF_vars(Work(t))

-----------------------------------------------------------------------------
(* Properties *)

\* The driver keeps the disk's rules: the disk is not active when a request is made
\* (ASSERT(!active) in Disk::ReadRequest and WriteRequest), although it turns inactive
\* in its interrupt handler, before the thread that made the request has gone on; and
\* the interrupt of a request wakes that thread: the disk is active, or the semaphore
\* has its unit, exactly while the holder of the lock waits, and never both.
\* The types of the variables are part of it.
DiskIdleAtRequest ==
  /\ TypeOK
  /\ active = interrupt
  /\ \A t \in Threads : pc[t] \in {"request", "wait", "release"} <=> lock = t
  /\ IF \E t \in Threads : pc[t] = "wait"
       THEN semaphore = IF active THEN 0 ELSE 1
       ELSE ~active /\ semaphore = 0

\* SynchDisk implements a disk whose reads and writes are atomic.
Atomic == INSTANCE AtomicDisk WITH
  Procs <- Threads,
  contents <- sectors,
  todo <- [t \in Threads |-> IF pc[t] \in {"acquire", "request"} THEN op[t] ELSE NULL],
  got <- buffer
AtomicPromise == Atomic!Spec

\* If no more calls are made, every call returns.
CallsReturn ==
  <>[][\A t \in Threads : ~NewCall(t)]_vars => <>[](\A t \in Threads : pc[t] = "idle")
=============================================================================
