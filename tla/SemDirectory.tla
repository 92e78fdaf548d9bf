----------------------------- MODULE SemDirectory -----------------------------
(***************************************************************************)
(* What the system calls CreateSemaphore, Wait and Signal promise to user  *)
(* programs: a directory of at most Capacity named counting semaphores,    *)
(* which are made once and stay.                                           *)
(***************************************************************************)
EXTENDS Integers, FiniteSets

CONSTANTS Procs, Names, Capacity, InitialValues, NULL

VARIABLES
  units,    \* units[n]: the units of the semaphore called n, NULL if there is none
  waitsFor  \* waitsFor[p]: the name that p's Wait is for, or NULL

vars == <<units, waitsFor>>

Made == {n \in Names : units[n] # NULL}

Init ==
  /\ units = [n \in Names |-> NULL]
  /\ waitsFor = [p \in Procs |-> NULL]

Create(n, v) ==
  /\ n \notin Made
  /\ Cardinality(Made) < Capacity
  /\ units' = [units EXCEPT ![n] = v]
  /\ UNCHANGED waitsFor

StartWait(p, n) ==
  /\ waitsFor[p] = NULL
  /\ n \in Made
  /\ waitsFor' = [waitsFor EXCEPT ![p] = n]
  /\ UNCHANGED units

\* A Wait ends by taking a unit, when there is one.
FinishWait(p) ==
  /\ waitsFor[p] # NULL
  /\ units[waitsFor[p]] # 0
  /\ units' = [units EXCEPT ![waitsFor[p]] = @ - 1]
  /\ waitsFor' = [waitsFor EXCEPT ![p] = NULL]

Signal(n) ==
  /\ n \in Made
  /\ units' = [units EXCEPT ![n] = @ + 1]
  /\ UNCHANGED waitsFor

Next ==
  \/ \E n \in Names : Signal(n) \/ \E v \in InitialValues : Create(n, v)
  \/ \E p \in Procs : FinishWait(p) \/ \E n \in Names : StartWait(p, n)

Spec == Init /\ [][Next]_vars
=============================================================================
