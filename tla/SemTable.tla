------------------------------- MODULE SemTable -------------------------------
(***************************************************************************)
(* The table of named semaphores (threads/stable.cc, threads/sem.cc) and   *)
(* the system calls CreateSemaphore, Wait and Signal (userprog/ksyscall.h) *)
(* of concurrent programs.  P and V are atomic steps, as in Monitor.       *)
(***************************************************************************)
EXTENDS Integers, FiniteSets

CONSTANTS
  Procs,          \* the processes
  Names,          \* semaphore names
  MAX_SEMAPHORE,
  InitialValues,  \* the values programs pass to CreateSemaphore
  MaxValue,       \* bound: no Signal when the value is this
  MinValue,       \* bound: no Wait returns when the value is this, below zero
  NULL

Sems == [name : Names, value : Int]

ASSUME SemTableAssumption ==
  /\ MAX_SEMAPHORE \in Nat
  /\ InitialValues \subseteq Int
  /\ MinValue \in Int /\ MaxValue \in Int
  /\ NULL \notin Int /\ NULL \notin Names /\ NULL \notin Sems

VARIABLES
  bm,       \* STable::bm, as the set of marked slots
  semTab,   \* STable::semTab
  waiting,  \* the slot whose semaphore a process is in P of, or NULL
  result    \* what the last system call of a process returned

vars == <<bm, semTab, waiting, result>>

Slots == 0..(MAX_SEMAPHORE - 1)

TypeOK ==
  /\ bm \in SUBSET Slots
  /\ semTab \in [Slots -> Sems \cup {NULL}]
  /\ waiting \in [Procs -> Slots \cup {NULL}]
  /\ result \in [Procs -> {0, -1}]

\* STable::STable
Init ==
  /\ bm = {}
  /\ semTab = [i \in Slots |-> NULL]
  /\ waiting = [p \in Procs |-> NULL]
  /\ result = [p \in Procs |-> 0]

\* The slots the loops of Create, Wait and Signal stop at
Found(n) == {i \in bm : semTab[i].name = n}

IsFirst(i, S) == i \in S /\ \A j \in S : i <= j

Returns(p, r) == result' = [result EXCEPT ![p] = r]

-----------------------------------------------------------------------------
\* SysCreateSemaphore, STable::Create
Create(p, n, v) ==
  /\ waiting[p] = NULL
  /\ Found(n) = {}
  /\ \E id \in Slots :
       /\ IsFirst(id, Slots \ bm)
       /\ bm' = bm \cup {id}
       /\ semTab' = [semTab EXCEPT ![id] = [name |-> n, value |-> v]]
  /\ Returns(p, 0)
  /\ UNCHANGED waiting

\* The name exists already, or the table is full.
CreateFails(p, n) ==
  /\ waiting[p] = NULL
  /\ Found(n) # {} \/ bm = Slots
  /\ Returns(p, -1)
  /\ UNCHANGED <<bm, semTab, waiting>>

\* SysWait, STable::Wait, up to P of the semaphore found
CallWait(p, n) ==
  /\ waiting[p] = NULL
  /\ \E i \in Slots :
       /\ IsFirst(i, Found(n))
       /\ waiting' = [waiting EXCEPT ![p] = i]
  /\ UNCHANGED <<bm, semTab, result>>

\* Broken variant of WaitP: does not stop at 0.
WaitPUntested(p) ==
  /\ waiting[p] # NULL
  /\ semTab[waiting[p]].value > MinValue
  /\ semTab' = [semTab EXCEPT ![waiting[p]].value = @ - 1]
  /\ waiting' = [waiting EXCEPT ![p] = NULL]
  /\ Returns(p, 0)
  /\ UNCHANGED bm

\* Sem::wait: P, which stops at the value 0 only
WaitP(p) ==
  /\ waiting[p] # NULL
  /\ semTab[waiting[p]].value # 0
  /\ semTab[waiting[p]].value > MinValue
  /\ semTab' = [semTab EXCEPT ![waiting[p]].value = @ - 1]
  /\ waiting' = [waiting EXCEPT ![p] = NULL]
  /\ Returns(p, 0)
  /\ UNCHANGED bm

\* Broken variant of Signal: the semaphore found is not signalled.
SignalForgets(p, n) ==
  /\ waiting[p] = NULL
  /\ Found(n) # {}
  /\ Returns(p, 0)
  /\ UNCHANGED <<bm, semTab, waiting>>

\* SysSignal, STable::Signal, Sem::signal: V
Signal(p, n) ==
  /\ waiting[p] = NULL
  /\ \E i \in Slots :
       /\ IsFirst(i, Found(n))
       /\ semTab[i].value < MaxValue
       /\ semTab' = [semTab EXCEPT ![i].value = @ + 1]
  /\ Returns(p, 0)
  /\ UNCHANGED <<bm, waiting>>

\* Wait or Signal of a name that is not in the table
NotFound(p, n) ==
  /\ waiting[p] = NULL
  /\ Found(n) = {}
  /\ Returns(p, -1)
  /\ UNCHANGED <<bm, semTab, waiting>>

-----------------------------------------------------------------------------
Next ==
  \E p \in Procs :
    \/ WaitP(p)
    \/ \E n \in Names :
         \/ \E v \in InitialValues : Create(p, n, v)
         \/ CreateFails(p, n) \/ CallWait(p, n) \/ Signal(p, n) \/ NotFound(p, n)

Spec == Init /\ [][Next]_vars

-----------------------------------------------------------------------------
(* Properties *)

\* Whatever programs do, a name stands for one semaphore for ever: the table
\* implements the directory of named semaphores, in which a Wait takes a unit of the
\* semaphore it was called for, a full table makes no more, and nothing is undone.
Held(n) == {i \in Slots : semTab[i] # NULL /\ semTab[i].name = n}
Directory == INSTANCE SemDirectory WITH
  Capacity <- MAX_SEMAPHORE,
  units <- [n \in Names |->
              IF Held(n) = {} THEN NULL ELSE semTab[CHOOSE i \in Held(n) : TRUE].value],
  waitsFor <- [p \in Procs |-> IF waiting[p] = NULL THEN NULL ELSE semTab[waiting[p]].name]
DirectoryPromise == Directory!Spec

=============================================================================
