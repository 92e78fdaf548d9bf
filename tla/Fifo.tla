-------------------------------- MODULE Fifo --------------------------------
(***************************************************************************)
(* What class SynchList promises (threads/synchlist.h): a queue shared by  *)
(* threads.  A put appends its item in one step; a get waits until there   *)
(* is an item and removes the oldest one in one step; each of the two      *)
(* happens between its call and its return.                                *)
(***************************************************************************)
EXTENDS Sequences

CONSTANTS Procs, Items, NULL

VARIABLES
  buffer,
  call,    \* what a process is doing: "idle", "put", "get" or "done"
  arg      \* the item it puts or got

Init ==
  /\ buffer = <<>>
  /\ call = [p \in Procs |-> "idle"]
  /\ arg = [p \in Procs |-> NULL]

CallPut(p, x) ==
  /\ call[p] = "idle"
  /\ call' = [call EXCEPT ![p] = "put"]
  /\ arg' = [arg EXCEPT ![p] = x]
  /\ UNCHANGED buffer

CallGet(p) ==
  /\ call[p] = "idle"
  /\ call' = [call EXCEPT ![p] = "get"]
  /\ UNCHANGED <<buffer, arg>>

Put(p) ==
  /\ call[p] = "put"
  /\ buffer' = Append(buffer, arg[p])
  /\ call' = [call EXCEPT ![p] = "done"]
  /\ UNCHANGED arg

Get(p) ==
  /\ call[p] = "get"
  /\ buffer # <<>>
  /\ buffer' = Tail(buffer)
  /\ arg' = [arg EXCEPT ![p] = Head(buffer)]
  /\ call' = [call EXCEPT ![p] = "done"]

Return(p) ==
  /\ call[p] = "done"
  /\ call' = [call EXCEPT ![p] = "idle"]
  /\ arg' = [arg EXCEPT ![p] = NULL]
  /\ UNCHANGED buffer

Next ==
  \E p \in Procs :
    \/ CallGet(p) \/ Put(p) \/ Get(p) \/ Return(p)
    \/ \E x \in Items : CallPut(p, x)

Spec == Init /\ [][Next]_<<buffer, call, arg>>
=============================================================================
