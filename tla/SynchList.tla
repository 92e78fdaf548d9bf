------------------------------ MODULE SynchList ------------------------------
(***************************************************************************)
(* Class SynchList (threads/synchlist.cc): a list that threads share,      *)
(* protected by a monitor lock, with a condition for "not empty".  It      *)
(* composes the lock and the condition of Monitor with the list.           *)
(***************************************************************************)
EXTENDS Monitor

CONSTANT Items   \* the items that can be appended: distinct pointers

VARIABLES
  list,   \* SynchList::list
  op,     \* where a thread is in Append, RemoveFront or Apply, or "none"
  item    \* the item it appends, or has removed

synchlist == <<list, op, item>>
vars == <<monitor, synchlist>>

(***************************************************************************)
(*   append, signal, appended   Append: before list->Append, before the    *)
(*                              signal, before the release                 *)
(*   remove, removed            RemoveFront: in its loop, before release   *)
(*   apply                      Apply                                      *)
(***************************************************************************)
Ops == {"none", "append", "signal", "appended", "remove", "removed", "apply"}

TypeOK ==
  /\ MonitorTypeOK
  /\ list \in Seq(Items)
  /\ op \in [Threads -> Ops]
  /\ item \in [Threads -> Items \cup {NULL}]

\* SynchList::SynchList
Init ==
  /\ MonitorInit
  /\ list = <<>>
  /\ op = [t \in Threads |-> "none"]
  /\ item = [t \in Threads |-> NULL]

InList(x) == \E i \in 1..Len(list) : list[i] = x

\* The next part of the call, when the monitor lock is held
Proceed(t, from, to) ==
  /\ pc[t] = "inside"
  /\ op[t] = from
  /\ op' = [op EXCEPT ![t] = to]

-----------------------------------------------------------------------------
\* A thread calls Append with an item nobody else has (a list refuses an item
\* it already holds, lib/list.cc) ...
CallAppend(t, x) ==
  /\ CallAcquire(t)
  /\ ~InList(x) /\ \A u \in Threads : item[u] # x
  /\ op' = [op EXCEPT ![t] = "append"]
  /\ item' = [item EXCEPT ![t] = x]
  /\ UNCHANGED list

\* ... RemoveFront ...
CallRemoveFront(t) ==
  /\ CallAcquire(t)
  /\ op' = [op EXCEPT ![t] = "remove"]
  /\ UNCHANGED <<list, item>>

\* ... or Apply, which only reads the list.
CallApply(t) ==
  /\ CallAcquire(t)
  /\ op' = [op EXCEPT ![t] = "apply"]
  /\ UNCHANGED <<list, item>>

\* Broken variant of AppendItem: Prepend() instead of Append().
AppendItemPrepends(t) ==
  /\ Proceed(t, "append", "signal")
  /\ list' = <<item[t]>> \o list
  /\ UNCHANGED <<monitor, item>>

\* Append: list->Append(item)
AppendItem(t) ==
  /\ Proceed(t, "append", "signal")
  /\ list' = Append(list, item[t])
  /\ UNCHANGED <<monitor, item>>

\* Broken variant of SignalNotEmpty: signals only when the list was empty.
SignalNotEmptyFirst(t) ==
  /\ Proceed(t, "signal", "appended")
  /\ \/ Len(list) = 1 /\ Signal(t)
     \/ (waitQueue = <<>> \/ Len(list) # 1) /\ UNCHANGED monitor
  /\ UNCHANGED <<list, item>>

\* Append: listEmpty->Signal(lock)
SignalNotEmpty(t) ==
  /\ Proceed(t, "signal", "appended")
  /\ \/ Signal(t)
     \/ waitQueue = <<>> /\ UNCHANGED monitor
  /\ UNCHANGED <<list, item>>

\* RemoveFront: the list is empty, wait.
WaitNotEmpty(t) ==
  /\ op[t] = "remove"
  /\ list = <<>>
  /\ Wait(t)
  /\ UNCHANGED synchlist

\* RemoveFront: list->RemoveFront()
RemoveItem(t) ==
  /\ Proceed(t, "remove", "removed")
  /\ list # <<>>
  /\ list' = Tail(list)
  /\ item' = [item EXCEPT ![t] = Head(list)]
  /\ UNCHANGED monitor

\* Broken variant of Return: the loop of Apply does not end.
ReturnNever(t) ==
  /\ op[t] \in {"appended", "removed", "apply"}
  /\ UNCHANGED vars

\* lock->Release() and return
Return(t) ==
  /\ op[t] \in {"appended", "removed", "apply"}
  /\ Release(t)
  /\ op' = [op EXCEPT ![t] = "none"]
  /\ item' = [item EXCEPT ![t] = NULL]
  /\ UNCHANGED list

-----------------------------------------------------------------------------
NewCall(t) ==
  \/ CallRemoveFront(t) \/ CallApply(t)
  \/ \E x \in Items : CallAppend(t, x)

Work(t) ==
  \/ Continue(t) /\ UNCHANGED synchlist
  \/ AppendItem(t) \/ SignalNotEmpty(t) \/ WaitNotEmpty(t) \/ RemoveItem(t) \/ Return(t)

Next == \E t \in Threads : NewCall(t) \/ Work(t)

Spec == Init /\ [][Next]_vars

\* A thread that can go on with a call does so.
FairSpec == Spec /\ \A t \in Threads : WF_vars(Work(t))

-----------------------------------------------------------------------------
(* Properties *)

\* No waiter is forgotten: while threads sleep on listEmpty, each item of the list
\* has a thread that is awake in RemoveFront and will look at the list, or one that
\* has appended and is about to signal.  A thread that calls RemoveFront late may
\* take the item a woken one was called for (the while loop of RemoveFront).
\* The types of the variables are part of it.
NoForgottenWaiter ==
  /\ TypeOK
  /\ waitQueue # <<>> =>
       Len(list) <= Cardinality({t \in Threads : op[t] = "remove" /\ ~Queued(t)})
                      + Cardinality({t \in Threads : op[t] = "signal"})

\* SynchList implements a shared FIFO queue whose operations are atomic.
Fifo == INSTANCE Fifo WITH
  Procs <- Threads,
  buffer <- list,
  arg <- item,
  call <- [t \in Threads |->
             CASE op[t] = "append" -> "put"
               [] op[t] = "remove" -> "get"
               [] op[t] \in {"signal", "appended", "removed"} -> "done"
               [] OTHER -> "idle"]
FifoPromise == Fifo!Spec

\* Every call has returned, except a RemoveFront for which the list has nothing.
Settled ==
  \A t \in Threads :
    op[t] = "none" \/ (op[t] = "remove" /\ pc[t] = "sleep" /\ list = <<>>)

\* If no more calls are made, every call of Append, Apply and RemoveFront returns,
\* but those of RemoveFront for which there is no item.
CallsReturn == <>[][\A t \in Threads : ~NewCall(t)]_vars => <>[]Settled
=============================================================================
