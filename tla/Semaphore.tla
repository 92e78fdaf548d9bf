------------------------------ MODULE Semaphore ------------------------------
(***************************************************************************)
(* What class Semaphore promises (threads/synch.h): a semaphore has a      *)
(* non-negative value; P waits until the value is positive and then takes  *)
(* one from it; V adds one; both are atomic.  Nothing is said about who    *)
(* gets a unit when several processes wait, or about how they wait.        *)
(***************************************************************************)
EXTENDS Integers

CONSTANTS
  Procs,         \* the callers
  Semaphores,
  InitialValue,
  NULL

VARIABLES
  value,
  waiting        \* the semaphore a process is waiting for in P, or NULL

Init ==
  /\ value = InitialValue
  /\ waiting = [p \in Procs |-> NULL]

\* A process calls P ...
StartP(p, s) ==
  /\ waiting[p] = NULL
  /\ waiting' = [waiting EXCEPT ![p] = s]
  /\ UNCHANGED value

\* ... and P returns, having taken a unit.
FinishP(p) ==
  /\ waiting[p] # NULL
  /\ value[waiting[p]] > 0
  /\ value' = [value EXCEPT ![waiting[p]] = @ - 1]
  /\ waiting' = [waiting EXCEPT ![p] = NULL]

V(s) ==
  /\ value' = [value EXCEPT ![s] = @ + 1]
  /\ UNCHANGED waiting

Next ==
  \/ \E p \in Procs : FinishP(p)
  \/ \E p \in Procs, s \in Semaphores : StartP(p, s)
  \/ \E s \in Semaphores : V(s)

Spec == Init /\ [][Next]_<<value, waiting>>
=============================================================================
