----------------------------- MODULE MCScheduler -----------------------------
(***************************************************************************)
(* A small instance of Scheduler: one semaphore with one unit, used by     *)
(* the threads and signalled by a device as well.                          *)
(***************************************************************************)
EXTENDS Scheduler

CONSTANT mutex

MCInitialValue == [s \in Semaphores |-> 1]
=============================================================================
