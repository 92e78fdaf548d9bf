----------------------------- MODULE ListProofs -----------------------------
(***************************************************************************)
(* Proofs about the lists the kernel runs on: the list threads share of    *)
(* SynchList, with the lock and the condition of Monitor, and the sorted   *)
(* list of pending interrupts of Interrupts.                               *)
(*                                                                         *)
(* Monitor: the lock excludes, and no signal is missed.  MonitorKept with  *)
(* the types is inductive; the lemmas speak of single steps, so that those *)
(* about SynchList can use them.                                           *)
(*                                                                         *)
(* SynchList: it keeps the monitor's rules, forgets no waiter, and         *)
(* implements Fifo.  The inductive invariant adds to Monitor's what ties a *)
(* thread's place in SynchList to its place in the monitor (CallsAgree).   *)
(*                                                                         *)
(* Interrupts: they are handled in the order of their times, for any ticks *)
(* and any disk.  ClockOrder needs that nothing pending was scheduled in   *)
(* the future (ClockInv); the lemmas say what Insert makes of a list in    *)
(* order, and that every delay is positive.                                *)
(***************************************************************************)
EXTENDS SynchList, Interrupts, TLAPS

-----------------------------------------------------------------------------
(* Monitor *)

MonitorInv == MonitorTypeOK /\ MonitorKept

\* What a thread holding the lock implies
LEMMA OneHolder ==
  ASSUME MonitorInv, NEW t \in Threads, pc[t] \in Holding
  PROVE  lockValue = 0 /\ \A u \in Threads : u # t => pc[u] \notin Holding
BY DEF MonitorInv, MonitorKept

LEMMA MonitorInitKept == MonitorInit => MonitorInv
<1> SUFFICES ASSUME MonitorInit PROVE MonitorInv
  OBVIOUS
<1>1. MonitorTypeOK
  BY DEF MonitorInit, MonitorTypeOK, Points
<1>2. \A t \in Threads : pc[t] = "outside" /\ waiter[t] = NULL /\ lockHolder # t /\ ~ Queued(t)
  BY MonitorAssumption DEF MonitorInit, Queued
<1>3. QED
  BY <1>1, <1>2 DEF MonitorInit, MonitorInv, MonitorKept, Holding

-----------------------------------------------------------------------------
(* Steps that leave the queue and the waiters' semaphores alone *)

\* A step of one thread from one point to another that involves no waiting
LEMMA MoveKeepsWaiters ==
  ASSUME MonitorInv, NEW t \in Threads, NEW from, NEW to \in Points, Goto(t, from, to),
         UNCHANGED <<waitQueue, waiter>>, lockValue' \in Nat, lockHolder' \in Threads \cup {NULL},
         from \notin {"sleep", "regot"}, to # "sleep",
         from = "reacquire" <=> to = "regot", to # "reacquire"
  PROVE  /\ MonitorTypeOK'
         /\ \A u \in Threads : pc'[u] = IF u = t THEN to ELSE pc[u]
         /\ \A u \in Threads :
              waiter'[u] = IF pc'[u] = "sleep" THEN IF Queued(u)' THEN 0 ELSE 1
                           ELSE IF pc'[u] \in {"reacquire", "regot"} THEN 0
                           ELSE NULL
         /\ \A u \in Threads : Queued(u)' => pc'[u] = "sleep"
         /\ \A i, j \in 1..Len(waitQueue') : waitQueue'[i] = waitQueue'[j] => i = j
<1>1. MonitorTypeOK'
  BY DEF MonitorInv, MonitorTypeOK, Goto
<1>2. \A u \in Threads : pc'[u] = IF u = t THEN to ELSE pc[u]
  BY DEF MonitorInv, MonitorTypeOK, Goto
<1>3. \A u \in Threads : Queued(u)' <=> Queued(u)
  BY DEF Queued
<1>4. \A u \in Threads : Queued(u)' => pc'[u] = "sleep"
  BY <1>2, <1>3 DEF MonitorInv, MonitorKept, Goto
<1>5. \A u \in Threads :
        waiter'[u] = IF pc'[u] = "sleep" THEN IF Queued(u)' THEN 0 ELSE 1
                     ELSE IF pc'[u] \in {"reacquire", "regot"} THEN 0
                     ELSE NULL
  BY <1>2, <1>3 DEF MonitorInv, MonitorKept, Goto
<1>6. QED
  BY <1>1, <1>2, <1>4, <1>5 DEF MonitorInv, MonitorKept

LEMMA CallAcquireKeeps ==
  ASSUME MonitorInv, NEW t \in Threads, CallAcquire(t)
  PROVE  MonitorInv'
<1>1. \A u \in Threads : pc'[u] = IF u = t THEN "acquire" ELSE pc[u]
  BY MoveKeepsWaiters DEF CallAcquire, Points, MonitorInv, MonitorTypeOK
<1>2. \A u \in Threads : pc'[u] \in Holding <=> pc[u] \in Holding
  BY <1>1 DEF Holding, CallAcquire, Goto
<1>3. \A u \in Threads : pc'[u] \in {"inside", "broadcast"} <=> pc[u] \in {"inside", "broadcast"}
  BY <1>1 DEF CallAcquire, Goto
<1>4. lockValue' = lockValue /\ lockHolder' = lockHolder
  BY DEF CallAcquire
<1>5. /\ \A u, w \in Threads : pc'[u] \in Holding /\ pc'[w] \in Holding => u = w
      /\ lockValue' = IF \E u \in Threads : pc'[u] \in Holding THEN 0 ELSE 1
      /\ \A u \in Threads : lockHolder' = u <=> pc'[u] \in {"inside", "broadcast"}
  BY <1>2, <1>3, <1>4 DEF MonitorInv, MonitorKept
<1>6. QED
  BY <1>5, MoveKeepsWaiters DEF CallAcquire, Points, MonitorInv, MonitorTypeOK, MonitorKept

\* P of the lock: the lock was free, so nobody was in.
LEMMA LockPKeeps ==
  ASSUME MonitorInv, NEW t \in Threads, NEW from, NEW to, LockP(t, from, to),
         \/ from = "acquire" /\ to = "got"
         \/ from = "reacquire" /\ to = "regot",
         UNCHANGED <<lockHolder, waitQueue, waiter>>
  PROVE  MonitorInv'
<1>1. \A u \in Threads : pc[u] \notin Holding
  BY DEF MonitorInv, MonitorKept, LockP
<1>2. lockValue = 1 /\ lockValue' = 0
  BY <1>1 DEF MonitorInv, MonitorKept, LockP
<1>3. to \in Points /\ to \in Holding /\ to \notin {"inside", "broadcast"}
  BY DEF Points, Holding
<1>4. \A u \in Threads : pc'[u] = IF u = t THEN to ELSE pc[u]
  BY <1>3 DEF LockP, Goto, MonitorInv, MonitorTypeOK
<1>5. /\ \A u, w \in Threads : pc'[u] \in Holding /\ pc'[w] \in Holding => u = w
      /\ lockValue' = IF \E u \in Threads : pc'[u] \in Holding THEN 0 ELSE 1
  BY <1>1, <1>2, <1>3, <1>4
<1>6. \A u \in Threads : lockHolder' = u <=> pc'[u] \in {"inside", "broadcast"}
  BY <1>1, <1>3, <1>4 DEF MonitorInv, MonitorKept, Holding
<1>7. QED
  BY <1>2, <1>3, <1>5, <1>6, MoveKeepsWaiters DEF LockP, MonitorInv, MonitorTypeOK, MonitorKept

\* The steps of the thread that holds the lock and keeps it
LEMMA HolderMoves ==
  ASSUME MonitorInv, NEW t \in Threads, NEW from \in Holding, NEW to \in {"inside", "broadcast"},
         Goto(t, from, to), lockHolder' = t, lockValue' = lockValue
  PROVE  /\ \A u, w \in Threads : pc'[u] \in Holding /\ pc'[w] \in Holding => u = w
         /\ lockValue' = IF \E u \in Threads : pc'[u] \in Holding THEN 0 ELSE 1
         /\ \A u \in Threads : lockHolder' = u <=> pc'[u] \in {"inside", "broadcast"}
<1>1. \A u \in Threads : pc'[u] = IF u = t THEN to ELSE pc[u]
  BY DEF Goto, MonitorInv, MonitorTypeOK
<1>2. lockValue = 0 /\ \A u \in Threads : u # t => pc[u] \notin Holding
  BY OneHolder DEF Goto
<1>3. QED
  BY <1>1, <1>2 DEF Holding

LEMMA SetHolderKeeps ==
  ASSUME MonitorInv, NEW t \in Threads, SetHolder(t)
  PROVE  MonitorInv'
<1>1. /\ Goto(t, "got", "inside") /\ lockHolder' = t /\ lockValue' = lockValue
      /\ UNCHANGED <<waitQueue, waiter>>
  BY DEF SetHolder
<1>2. QED
  BY <1>1, HolderMoves, MoveKeepsWaiters DEF Holding, Points, MonitorInv, MonitorTypeOK, MonitorKept

LEMMA BroadcastKeeps ==
  ASSUME MonitorInv, NEW t \in Threads, Broadcast(t) \/ BroadcastEnd(t)
  PROVE  MonitorInv'
<1>1. PICK from \in {"inside", "broadcast"}, to \in {"inside", "broadcast"} :
        Goto(t, from, to) /\ UNCHANGED <<lockValue, lockHolder, waitQueue, waiter>>
  BY DEF Broadcast, BroadcastEnd
<1>2. lockHolder' = t
  BY <1>1 DEF MonitorInv, MonitorKept, Goto
<1>3. QED
  BY <1>1, <1>2, HolderMoves, MoveKeepsWaiters
     DEF Holding, Points, MonitorInv, MonitorTypeOK, MonitorKept

\* Lock::Release and the first half of Wait: nobody is in afterwards.
LEMMA HolderLeaves ==
  ASSUME MonitorInv, NEW t \in Threads, NEW to \in {"outside", "sleep"},
         Goto(t, "inside", to), LockV
  PROVE  /\ lockValue' = 1
         /\ \A u, w \in Threads : pc'[u] \in Holding /\ pc'[w] \in Holding => u = w
         /\ lockValue' = IF \E u \in Threads : pc'[u] \in Holding THEN 0 ELSE 1
         /\ \A u \in Threads : lockHolder' = u <=> pc'[u] \in {"inside", "broadcast"}
<1>1. \A u \in Threads : pc'[u] = IF u = t THEN to ELSE pc[u]
  BY DEF Goto, MonitorInv, MonitorTypeOK
<1>2. lockValue = 0 /\ \A u \in Threads : u # t => pc[u] \notin Holding
  BY OneHolder DEF Goto, Holding
<1>3. \A u \in Threads : pc'[u] \notin Holding
  BY <1>1, <1>2 DEF Holding
<1>4. lockValue' = 1 /\ lockHolder' = NULL
  BY <1>2 DEF LockV
<1>5. QED
  BY <1>3, <1>4, MonitorAssumption DEF Holding

LEMMA ReleaseKeeps ==
  ASSUME MonitorInv, NEW t \in Threads, Release(t)
  PROVE  MonitorInv'
<1>1. Goto(t, "inside", "outside") /\ LockV /\ lockHolder' = NULL /\ UNCHANGED <<waitQueue, waiter>>
  BY DEF Release, LockV
<1>2. QED
  BY <1>1, HolderLeaves, MoveKeepsWaiters DEF Points, MonitorInv, MonitorTypeOK, MonitorKept

-----------------------------------------------------------------------------
(* Steps on the queue and on the waiters' semaphores *)

\* Where the threads of a queue are once one more is at its end
LEMMA QueueAppended ==
  ASSUME MonitorTypeOK, NEW t \in Threads, waitQueue' = Append(waitQueue, t), ~ Queued(t),
         \A i, j \in 1..Len(waitQueue) : waitQueue[i] = waitQueue[j] => i = j
  PROVE  /\ waitQueue' \in Seq(Threads)
         /\ \A u \in Threads : Queued(u)' <=> u = t \/ Queued(u)
         /\ \A i, j \in 1..Len(waitQueue') : waitQueue'[i] = waitQueue'[j] => i = j
<1> USE DEF MonitorTypeOK
<1>1. waitQueue' \in Seq(Threads) /\ Len(waitQueue') = Len(waitQueue) + 1
  OBVIOUS
<1>2. \A i \in 1..Len(waitQueue') :
        waitQueue'[i] = IF i = Len(waitQueue) + 1 THEN t ELSE waitQueue[i]
  OBVIOUS
<1>3. Len(waitQueue) \in Nat
  OBVIOUS
<1>4. \A u \in Threads : Queued(u)' <=> u = t \/ Queued(u)
  BY <1>1, <1>2, <1>3 DEF Queued
<1>5. \A i, j \in 1..Len(waitQueue') : waitQueue'[i] = waitQueue'[j] => i = j
  BY <1>1, <1>2, <1>3 DEF Queued
<1>6. QED
  BY <1>1, <1>4, <1>5

\* Where they are once the first has left
LEMMA QueueShortened ==
  ASSUME MonitorTypeOK, waitQueue # <<>>, waitQueue' = Tail(waitQueue),
         \A i, j \in 1..Len(waitQueue) : waitQueue[i] = waitQueue[j] => i = j
  PROVE  /\ waitQueue' \in Seq(Threads)
         /\ Head(waitQueue) \in Threads /\ Queued(Head(waitQueue))
         /\ \A u \in Threads : Queued(u)' <=> u # Head(waitQueue) /\ Queued(u)
         /\ \A i, j \in 1..Len(waitQueue') : waitQueue'[i] = waitQueue'[j] => i = j
<1> USE DEF MonitorTypeOK
<1>1. /\ Len(waitQueue) \in Nat \ {0} /\ Len(waitQueue') = Len(waitQueue) - 1
      /\ waitQueue' \in Seq(Threads)
  OBVIOUS
<1>2. \A i \in 1..Len(waitQueue') : waitQueue'[i] = waitQueue[i + 1]
  OBVIOUS
<1>3. Head(waitQueue) = waitQueue[1] /\ Head(waitQueue) \in Threads
  BY <1>1
<1>4. Queued(Head(waitQueue))
  BY <1>1, <1>3 DEF Queued
<1>5. ASSUME NEW u \in Threads PROVE Queued(u)' <=> u # Head(waitQueue) /\ Queued(u)
  <2>1. ASSUME Queued(u)' PROVE u # Head(waitQueue) /\ Queued(u)
    <3>1. PICK i \in 1..Len(waitQueue') : waitQueue'[i] = u
      BY <2>1 DEF Queued
    <3>2. i + 1 \in 1..Len(waitQueue) /\ waitQueue[i + 1] = u /\ i + 1 # 1 /\ 1 \in 1..Len(waitQueue)
      BY <1>1, <1>2, <3>1
    <3>3. QED
      BY <1>3, <3>2 DEF Queued
  <2>2. ASSUME Queued(u), u # Head(waitQueue) PROVE Queued(u)'
    <3>1. PICK i \in 1..Len(waitQueue) : waitQueue[i] = u
      BY <2>2 DEF Queued
    <3>2. i # 1
      BY <1>3, <2>2, <3>1
    <3>3. i - 1 \in 1..Len(waitQueue') /\ waitQueue'[i - 1] = u
      BY <1>1, <1>2, <3>1, <3>2
    <3>4. QED
      BY <3>3 DEF Queued
  <2>3. QED
    BY <2>1, <2>2
<1>6. \A i, j \in 1..Len(waitQueue') : waitQueue'[i] = waitQueue'[j] => i = j
  <2> SUFFICES ASSUME NEW i \in 1..Len(waitQueue'), NEW j \in 1..Len(waitQueue'),
                      waitQueue'[i] = waitQueue'[j]
               PROVE  i = j
    OBVIOUS
  <2>1. i + 1 \in 1..Len(waitQueue) /\ j + 1 \in 1..Len(waitQueue)
    BY <1>1
  <2>2. i + 1 = j + 1
    BY <1>2, <2>1
  <2>3. QED
    BY <2>2
<1>7. QED
  BY <1>1, <1>3, <1>4, <1>5, <1>6

\* The waiter is on the queue before the lock is free.
LEMMA WaitKeeps ==
  ASSUME MonitorInv, NEW t \in Threads, Wait(t)
  PROVE  MonitorInv'
<1>1. Goto(t, "inside", "sleep") /\ LockV /\ lockHolder' = NULL
  BY DEF Wait, LockV
<1>2. \A u \in Threads : pc'[u] = IF u = t THEN "sleep" ELSE pc[u]
  BY <1>1 DEF Goto, MonitorInv, MonitorTypeOK
<1>3. ~ Queued(t)
  BY <1>1 DEF Goto, MonitorInv, MonitorKept
<1>4. /\ waitQueue' \in Seq(Threads)
      /\ \A u \in Threads : Queued(u)' <=> u = t \/ Queued(u)
      /\ \A i, j \in 1..Len(waitQueue') : waitQueue'[i] = waitQueue'[j] => i = j
  BY <1>3, QueueAppended DEF Wait, MonitorInv, MonitorKept
<1>5. \A u \in Threads : waiter'[u] = IF u = t THEN 0 ELSE waiter[u]
  BY DEF Wait, MonitorInv, MonitorTypeOK
<1>6. MonitorTypeOK'
  <2>1. lockValue' \in Nat
    BY <1>1, HolderLeaves
  <2>2. pc' \in [Threads -> Points]
    BY <1>1 DEF Goto, Points, MonitorInv, MonitorTypeOK
  <2>3. waiter' \in [Threads -> Nat \cup {NULL}]
    BY DEF Wait, MonitorInv, MonitorTypeOK
  <2>4. QED
    BY <1>1, <1>4, <2>1, <2>2, <2>3 DEF MonitorTypeOK
<1>7. \A u \in Threads :
        waiter'[u] = IF pc'[u] = "sleep" THEN IF Queued(u)' THEN 0 ELSE 1
                     ELSE IF pc'[u] \in {"reacquire", "regot"} THEN 0
                     ELSE NULL
  BY <1>2, <1>4, <1>5 DEF MonitorInv, MonitorKept
<1>8. \A u \in Threads : Queued(u)' => pc'[u] = "sleep"
  BY <1>2, <1>4 DEF MonitorInv, MonitorKept
<1>9. QED
  BY <1>1, <1>4, <1>6, <1>7, <1>8, HolderLeaves DEF MonitorInv, MonitorKept

\* The first half of Wait ends when a signal has taken the waiter off the queue.
LEMMA WaiterPKeeps ==
  ASSUME MonitorInv, NEW t \in Threads, WaiterP(t)
  PROVE  MonitorInv'
<1>1. pc[t] = "sleep" /\ ~ Queued(t) /\ waiter[t] = 1
  BY DEF WaiterP, Goto, MonitorInv, MonitorKept
<1>2. \A u \in Threads : pc'[u] = IF u = t THEN "reacquire" ELSE pc[u]
  BY DEF WaiterP, Goto, MonitorInv, MonitorTypeOK
<1>3. \A u \in Threads : waiter'[u] = IF u = t THEN 0 ELSE waiter[u]
  BY <1>1 DEF WaiterP, MonitorInv, MonitorTypeOK
<1>4. UNCHANGED <<lockValue, lockHolder, waitQueue>> /\ \A u \in Threads : Queued(u)' <=> Queued(u)
  BY DEF WaiterP, Queued
<1>5. MonitorTypeOK'
  BY <1>1, <1>4 DEF WaiterP, Goto, Points, MonitorInv, MonitorTypeOK
<1>6. \A u \in Threads : pc'[u] \in Holding <=> pc[u] \in Holding
  BY <1>1, <1>2 DEF Holding
<1>7. /\ \A u, w \in Threads : pc'[u] \in Holding /\ pc'[w] \in Holding => u = w
      /\ lockValue' = IF \E u \in Threads : pc'[u] \in Holding THEN 0 ELSE 1
      /\ \A u \in Threads : lockHolder' = u <=> pc'[u] \in {"inside", "broadcast"}
  BY <1>1, <1>2, <1>4, <1>6 DEF MonitorInv, MonitorKept
<1>8. \A u \in Threads :
        /\ waiter'[u] = IF pc'[u] = "sleep" THEN IF Queued(u)' THEN 0 ELSE 1
                        ELSE IF pc'[u] \in {"reacquire", "regot"} THEN 0
                        ELSE NULL
        /\ Queued(u)' => pc'[u] = "sleep"
  BY <1>1, <1>2, <1>3, <1>4 DEF MonitorInv, MonitorKept
<1>9. QED
  BY <1>4, <1>5, <1>7, <1>8 DEF MonitorInv, MonitorKept

LEMMA WaitReturnKeeps ==
  ASSUME MonitorInv, NEW t \in Threads, WaitReturn(t)
  PROVE  MonitorInv'
<1>1. Goto(t, "regot", "inside") /\ lockHolder' = t /\ UNCHANGED <<lockValue, waitQueue>>
  BY DEF WaitReturn
<1>2. \A u \in Threads : pc'[u] = IF u = t THEN "inside" ELSE pc[u]
  BY <1>1 DEF Goto, MonitorInv, MonitorTypeOK
<1>3. \A u \in Threads : waiter'[u] = IF u = t THEN NULL ELSE waiter[u]
  BY DEF WaitReturn, MonitorInv, MonitorTypeOK
<1>4. \A u \in Threads : Queued(u)' <=> Queued(u)
  BY <1>1 DEF Queued
<1>5. MonitorTypeOK'
  BY <1>1 DEF WaitReturn, Goto, Points, Holding, MonitorInv, MonitorTypeOK
<1>6. \A u \in Threads :
        /\ waiter'[u] = IF pc'[u] = "sleep" THEN IF Queued(u)' THEN 0 ELSE 1
                        ELSE IF pc'[u] \in {"reacquire", "regot"} THEN 0
                        ELSE NULL
        /\ Queued(u)' => pc'[u] = "sleep"
  BY <1>1, <1>2, <1>3, <1>4 DEF Goto, MonitorInv, MonitorKept
<1>7. "regot" \in Holding
  BY DEF Holding
<1>8. QED
  BY <1>1, <1>5, <1>6, <1>7, HolderMoves DEF MonitorInv, MonitorKept

\* A signal takes one thread off the queue and gives its semaphore one unit.
LEMMA WakeFirstKeepsAll ==
  ASSUME MonitorInv, WakeFirst, UNCHANGED pc
  PROVE  MonitorInv'
<1> DEFINE h == Head(waitQueue)
<1>1. /\ waitQueue' \in Seq(Threads)
      /\ h \in Threads /\ Queued(h)
      /\ \A u \in Threads : Queued(u)' <=> u # h /\ Queued(u)
      /\ \A i, j \in 1..Len(waitQueue') : waitQueue'[i] = waitQueue'[j] => i = j
  BY QueueShortened DEF WakeFirst, MonitorInv, MonitorKept
<1>2. pc[h] = "sleep" /\ waiter[h] = 0
  BY <1>1 DEF MonitorInv, MonitorKept
<1>3. \A u \in Threads : waiter'[u] = IF u = h THEN 1 ELSE waiter[u]
  BY <1>1, <1>2 DEF WakeFirst, MonitorInv, MonitorTypeOK
<1>4. MonitorTypeOK'
  BY <1>1, <1>2 DEF WakeFirst, MonitorInv, MonitorTypeOK
<1> HIDE DEF h
<1>5. \A u \in Threads :
        /\ waiter'[u] = IF pc'[u] = "sleep" THEN IF Queued(u)' THEN 0 ELSE 1
                        ELSE IF pc'[u] \in {"reacquire", "regot"} THEN 0
                        ELSE NULL
        /\ Queued(u)' => pc'[u] = "sleep"
  BY <1>1, <1>2, <1>3 DEF MonitorInv, MonitorKept
<1>6. QED
  BY <1>1, <1>4, <1>5 DEF WakeFirst, MonitorInv, MonitorKept

-----------------------------------------------------------------------------
LEMMA ContinueKeeps ==
  ASSUME MonitorInv, NEW t \in Threads, Continue(t)
  PROVE  MonitorInv'
<1>1. CASE AcquireP(t)
  BY <1>1, LockPKeeps DEF AcquireP
<1>2. CASE ReacquireP(t)
  BY <1>2, LockPKeeps DEF ReacquireP
<1>3. CASE BroadcastSignal(t)
  BY <1>3, WakeFirstKeepsAll DEF BroadcastSignal
<1>4. QED
  BY <1>1, <1>2, <1>3, SetHolderKeeps, WaiterPKeeps, WaitReturnKeeps, BroadcastKeeps DEF Continue

LEMMA StutterKeeps == MonitorInv /\ UNCHANGED monitor => MonitorInv'
BY DEF monitor, MonitorInv, MonitorTypeOK, MonitorKept, Queued

\* The lock excludes and no signal is missed, however many threads use Lock::Acquire,
\* Release, Condition::Wait, Signal and Broadcast as their assertions allow.
THEOREM MonitorCorrect == MonitorSpec => []MonitorKept
<1>1. MonitorInit => MonitorInv
  BY MonitorInitKept
<1>2. ASSUME MonitorInv, [MonitorNext]_monitor PROVE MonitorInv'
  <2>1. ASSUME NEW t \in Threads, Signal(t) PROVE MonitorInv'
    BY <1>2, <2>1, WakeFirstKeepsAll DEF Signal
  <2>2. QED
    BY <1>2, <2>1, ContinueKeeps, CallAcquireKeeps, ReleaseKeeps, WaitKeeps, BroadcastKeeps,
       StutterKeeps DEF MonitorNext
<1>3. MonitorInv => MonitorKept
  BY DEF MonitorInv
<1>4. QED
  BY <1>1, <1>2, <1>3, PTL DEF MonitorSpec

-----------------------------------------------------------------------------
(* SynchList *)

\* A thread is outside the monitor exactly when it is in no call; it waits only in
\* RemoveFront; and it has an item only in Append, or when RemoveFront has got one.
CallsAgree ==
  /\ \A t \in Threads : pc[t] = "outside" <=> op[t] = "none"
  /\ \A t \in Threads : pc[t] = "sleep" => op[t] = "remove"
  /\ \A t \in Threads : op[t] \in {"signal", "appended", "removed"} => pc[t] = "inside"
  /\ \A t \in Threads : op[t] \in {"none", "remove", "apply"} => item[t] = NULL
  /\ \A t \in Threads : op[t] = "append" => item[t] \in Items
  /\ \A t \in Threads : pc[t] \notin {"broadcast"}

ListInv == TypeOK /\ MonitorKept /\ CallsAgree

LEMMA InitList == Init => ListInv
<1> SUFFICES ASSUME Init PROVE ListInv
  OBVIOUS
<1>1. MonitorInv
  BY MonitorInitKept DEF Init
<1>2. TypeOK
  BY <1>1 DEF Init, TypeOK, Ops, MonitorInv
<1>3. CallsAgree
  BY DEF Init, MonitorInit, CallsAgree
<1>4. QED
  BY <1>1, <1>2, <1>3 DEF ListInv, MonitorInv

LEMMA ListInvHasMonitor == ListInv => MonitorInv
BY DEF ListInv, TypeOK, MonitorInv

-----------------------------------------------------------------------------
(* One lemma per action *)

LEMMA CallKeepsList ==
  ASSUME ListInv, NEW t \in Threads, NewCall(t)
  PROVE  ListInv'
<1>1. CallAcquire(t) /\ list' = list
  BY DEF NewCall, CallAppend, CallRemoveFront, CallApply
<1>2. MonitorInv'
  BY <1>1, ListInvHasMonitor, CallAcquireKeeps
<1>3. \A u \in Threads : pc'[u] = IF u = t THEN "acquire" ELSE pc[u]
  BY <1>1 DEF CallAcquire, Goto, ListInv, TypeOK, MonitorTypeOK
<1>4. pc[t] = "outside" /\ op[t] = "none" /\ item[t] = NULL
  BY <1>1 DEF CallAcquire, Goto, ListInv, CallsAgree
<1>5. PICK o \in {"append", "remove", "apply"}, x \in Items \cup {NULL} :
        /\ o = "append" => x \in Items
        /\ o # "append" => x = NULL
        /\ op' = [op EXCEPT ![t] = o]
        /\ item' = [item EXCEPT ![t] = x]
  <2>1. CASE \E x \in Items : CallAppend(t, x)
    BY <2>1, Zenon DEF CallAppend
  <2>2. CASE CallRemoveFront(t) \/ CallApply(t)
    <3>1. item' = [item EXCEPT ![t] = NULL]
      BY <1>4, <2>2 DEF CallRemoveFront, CallApply, ListInv, TypeOK
    <3>2. QED
      BY <2>2, <3>1, Zenon DEF CallRemoveFront, CallApply
  <2>3. QED
    BY <2>1, <2>2 DEF NewCall
<1>6. TypeOK'
  BY <1>1, <1>2, <1>5 DEF ListInv, TypeOK, MonitorInv, Ops
<1>7. \A u \in Threads : /\ op'[u] = IF u = t THEN o ELSE op[u]
                         /\ item'[u] = IF u = t THEN x ELSE item[u]
  BY <1>5 DEF ListInv, TypeOK
<1>8. CallsAgree'
  BY <1>3, <1>5, <1>7 DEF ListInv, CallsAgree
<1>9. QED
  BY <1>2, <1>6, <1>8 DEF ListInv, MonitorInv

\* The steps inside Acquire and Wait
LEMMA ContinueKeepsList ==
  ASSUME ListInv, NEW t \in Threads, Continue(t), UNCHANGED synchlist
  PROVE  ListInv'
<1>1. MonitorInv'
  BY ListInvHasMonitor, ContinueKeeps
<1>2. TypeOK'
  BY <1>1 DEF ListInv, TypeOK, MonitorInv, synchlist
<1>3. /\ \A u \in Threads : u # t => pc'[u] = pc[u]
      /\ \/ pc[t] = "acquire" /\ pc'[t] = "got"
         \/ pc[t] = "got" /\ pc'[t] = "inside"
         \/ pc[t] = "sleep" /\ pc'[t] = "reacquire"
         \/ pc[t] = "reacquire" /\ pc'[t] = "regot"
         \/ pc[t] = "regot" /\ pc'[t] = "inside"
  <2>1. PICK from \in {"acquire", "got", "sleep", "reacquire", "regot"},
             to \in {"got", "inside", "reacquire", "regot"} :
          /\ Goto(t, from, to)
          /\ \/ from = "acquire" /\ to = "got"
             \/ from = "got" /\ to = "inside"
             \/ from = "sleep" /\ to = "reacquire"
             \/ from = "reacquire" /\ to = "regot"
             \/ from = "regot" /\ to = "inside"
    <3>1. pc[t] # "broadcast"
      BY DEF ListInv, CallsAgree
    <3>2. AcquireP(t) \/ SetHolder(t) \/ WaiterP(t) \/ ReacquireP(t) \/ WaitReturn(t)
      BY <3>1 DEF Continue, BroadcastSignal, BroadcastEnd, Goto
    <3>3. QED
      BY <3>2 DEF AcquireP, LockP, SetHolder, WaiterP, ReacquireP, WaitReturn
  <2>2. QED
    BY <2>1 DEF Goto, ListInv, TypeOK, MonitorTypeOK
<1>4. CallsAgree'
  BY <1>3 DEF ListInv, CallsAgree, synchlist
<1>5. QED
  BY <1>1, <1>2, <1>4 DEF ListInv, MonitorInv

LEMMA AppendItemKeepsList ==
  ASSUME ListInv, NEW t \in Threads, AppendItem(t)
  PROVE  ListInv'
<1>1. MonitorInv'
  BY ListInvHasMonitor, StutterKeeps DEF AppendItem
<1>2. op[t] = "append" /\ item[t] \in Items /\ pc[t] = "inside"
  BY DEF AppendItem, Proceed, ListInv, CallsAgree
<1>3. TypeOK'
  BY <1>1, <1>2 DEF ListInv, TypeOK, MonitorInv, Ops, AppendItem, Proceed
<1>4. \A u \in Threads : op'[u] = IF u = t THEN "signal" ELSE op[u]
  BY DEF AppendItem, Proceed, ListInv, TypeOK
<1>5. CallsAgree'
  BY <1>2, <1>4 DEF ListInv, CallsAgree, AppendItem, monitor
<1>6. QED
  BY <1>1, <1>3, <1>5 DEF ListInv, MonitorInv

LEMMA SignalKeepsList ==
  ASSUME ListInv, NEW t \in Threads, SignalNotEmpty(t)
  PROVE  ListInv'
<1>1. MonitorInv'
  BY ListInvHasMonitor, StutterKeeps, WakeFirstKeepsAll DEF SignalNotEmpty, Signal
<1>2. pc' = pc
  BY DEF SignalNotEmpty, Signal, monitor
<1>3. TypeOK'
  BY <1>1 DEF ListInv, TypeOK, MonitorInv, Ops, SignalNotEmpty, Proceed
<1>4. op[t] = "signal" /\ pc[t] = "inside"
  BY DEF SignalNotEmpty, Proceed
<1>5. \A u \in Threads : op'[u] = IF u = t THEN "appended" ELSE op[u]
  BY DEF SignalNotEmpty, Proceed, ListInv, TypeOK
<1>6. CallsAgree'
  BY <1>2, <1>4, <1>5, Zenon DEF ListInv, CallsAgree, SignalNotEmpty
<1>7. QED
  BY <1>1, <1>3, <1>6 DEF ListInv, MonitorInv

LEMMA WaitKeepsList ==
  ASSUME ListInv, NEW t \in Threads, WaitNotEmpty(t)
  PROVE  ListInv'
<1>1. MonitorInv'
  BY ListInvHasMonitor, WaitKeeps DEF WaitNotEmpty
<1>2. TypeOK'
  BY <1>1 DEF ListInv, TypeOK, MonitorInv, WaitNotEmpty, synchlist
<1>3. \A u \in Threads : pc'[u] = IF u = t THEN "sleep" ELSE pc[u]
  BY DEF WaitNotEmpty, Wait, Goto, ListInv, TypeOK, MonitorTypeOK
<1>4. op[t] = "remove"
  BY DEF WaitNotEmpty
<1>5. CallsAgree'
  BY <1>3, <1>4 DEF ListInv, CallsAgree, WaitNotEmpty, synchlist
<1>6. QED
  BY <1>1, <1>2, <1>5 DEF ListInv, MonitorInv

LEMMA RemoveItemKeepsList ==
  ASSUME ListInv, NEW t \in Threads, RemoveItem(t)
  PROVE  ListInv'
<1>1. MonitorInv'
  BY ListInvHasMonitor, StutterKeeps DEF RemoveItem
<1>2. op[t] = "remove" /\ pc[t] = "inside"
  BY DEF RemoveItem, Proceed
<1>3. list' \in Seq(Items) /\ Head(list) \in Items
  BY DEF RemoveItem, ListInv, TypeOK
<1>4. TypeOK'
  BY <1>1, <1>3 DEF ListInv, TypeOK, MonitorInv, Ops, RemoveItem, Proceed
<1>5. \A u \in Threads : /\ op'[u] = IF u = t THEN "removed" ELSE op[u]
                         /\ item'[u] = IF u = t THEN Head(list) ELSE item[u]
  BY DEF RemoveItem, Proceed, ListInv, TypeOK
<1>6. CallsAgree'
  BY <1>2, <1>5 DEF ListInv, CallsAgree, RemoveItem, monitor
<1>7. QED
  BY <1>1, <1>4, <1>6 DEF ListInv, MonitorInv

LEMMA ReturnKeepsList ==
  ASSUME ListInv, NEW t \in Threads, Return(t)
  PROVE  ListInv'
<1>1. MonitorInv'
  BY ListInvHasMonitor, ReleaseKeeps DEF Return
<1>2. TypeOK'
  BY <1>1 DEF ListInv, TypeOK, MonitorInv, Ops, Return
<1>3. \A u \in Threads : /\ pc'[u] = IF u = t THEN "outside" ELSE pc[u]
                         /\ op'[u] = IF u = t THEN "none" ELSE op[u]
                         /\ item'[u] = IF u = t THEN NULL ELSE item[u]
  BY DEF Return, Release, Goto, ListInv, TypeOK, MonitorTypeOK
<1>4. CallsAgree'
  BY <1>3 DEF ListInv, CallsAgree
<1>5. QED
  BY <1>1, <1>2, <1>4 DEF ListInv, MonitorInv

LEMMA NextKeepsList == ListInv /\ [Next]_vars => ListInv'
<1> SUFFICES ASSUME ListInv, [Next]_vars PROVE ListInv'
  OBVIOUS
<1>1. ASSUME NEW t \in Threads, Work(t) PROVE ListInv'
  BY <1>1, ContinueKeepsList, AppendItemKeepsList, SignalKeepsList, WaitKeepsList,
     RemoveItemKeepsList, ReturnKeepsList DEF Work
<1>2. CASE UNCHANGED vars
  <2>1. MonitorInv'
    BY <1>2, ListInvHasMonitor, StutterKeeps DEF vars
  <2>2. UNCHANGED <<pc, list, op, item>>
    BY <1>2 DEF vars, monitor, synchlist
  <2>3. QED
    BY <2>1, <2>2 DEF MonitorInv, ListInv, TypeOK, CallsAgree
<1>3. QED
  BY <1>1, <1>2, CallKeepsList DEF Next

\* SynchList uses its lock and its condition by the rules: with any number of threads in
\* Append, RemoveFront and Apply one is at the list, and no signal is missed.
THEOREM ListMonitorCorrect == Spec => []MonitorKept
<1>1. ListInv => MonitorKept
  BY DEF ListInv
<1>2. QED
  BY <1>1, InitList, NextKeepsList, PTL DEF Spec

-----------------------------------------------------------------------------
(* The refinement: a put takes effect in AppendItem, a get in RemoveItem. *)

\* What Fifo sees of the calls
Called == [t \in Threads |->
             CASE op[t] = "append" -> "put"
               [] op[t] = "remove" -> "get"
               [] op[t] \in {"signal", "appended", "removed"} -> "done"
               [] OTHER -> "idle"]

LEMMA CalledMoves ==
  ASSUME TypeOK, NEW t \in Threads, NEW o, op' = [op EXCEPT ![t] = o], NEW c,
         c = CASE o = "append" -> "put"
               [] o = "remove" -> "get"
               [] o \in {"signal", "appended", "removed"} -> "done"
               [] OTHER -> "idle"
  PROVE  Called' = [Called EXCEPT ![t] = c]
BY Zenon DEF TypeOK, Called

LEMMA NewCallImplements ==
  ASSUME ListInv, NEW t \in Threads, NewCall(t)
  PROVE  Fifo!Next \/ UNCHANGED <<list, Called, item>>
<1>1. pc[t] = "outside" /\ op[t] = "none" /\ Called[t] = "idle"
  BY DEF NewCall, CallAppend, CallRemoveFront, CallApply, CallAcquire, Goto,
         ListInv, CallsAgree, Called
<1>2. ASSUME NEW x \in Items, CallAppend(t, x) PROVE Fifo!Next
  <2>1. Called' = [Called EXCEPT ![t] = "put"]
    BY <1>2, CalledMoves, Zenon DEF CallAppend, ListInv
  <2>2. Fifo!CallPut(t, x)
    BY <1>1, <1>2, <2>1 DEF Fifo!CallPut, Called, CallAppend
  <2>3. QED
    BY <2>2 DEF Fifo!Next
<1>3. CASE CallRemoveFront(t)
  <2>1. Called' = [Called EXCEPT ![t] = "get"]
    BY <1>3, CalledMoves, Zenon DEF CallRemoveFront, ListInv
  <2>2. Fifo!CallGet(t)
    BY <1>1, <1>3, <2>1 DEF Fifo!CallGet, Called, CallRemoveFront
  <2>3. QED
    BY <2>2 DEF Fifo!Next
<1>4. CASE CallApply(t)
  <2>1. Called' = [Called EXCEPT ![t] = "idle"]
    BY <1>4, Zenon DEF CallApply, ListInv, TypeOK, Called
  <2>2. Called' = Called
    BY <1>1, <2>1, Zenon DEF Called
  <2>3. QED
    BY <1>4, <2>2 DEF CallApply
<1>5. QED
  BY <1>2, <1>3, <1>4 DEF NewCall

LEMMA WorkImplements ==
  ASSUME ListInv, NEW t \in Threads, Work(t)
  PROVE  Fifo!Next \/ UNCHANGED <<list, Called, item>>
<1>1. CASE UNCHANGED synchlist
  BY <1>1 DEF synchlist, Called
<1>2. CASE AppendItem(t)
  <2>1. Called' = [Called EXCEPT ![t] = "done"] /\ Called[t] = "put"
    BY <1>2, CalledMoves, Zenon DEF AppendItem, Proceed, ListInv, Called
  <2>2. Fifo!Put(t)
    BY <1>2, <2>1 DEF Fifo!Put, Called, AppendItem
  <2>3. QED
    BY <2>2 DEF Fifo!Next
<1>3. CASE SignalNotEmpty(t)
  <2>1. Called' = [Called EXCEPT ![t] = "done"] /\ Called[t] = "done"
    BY <1>3, CalledMoves DEF SignalNotEmpty, Proceed, ListInv, Called
  <2>2. Called' = Called
    BY <2>1, Zenon DEF Called
  <2>3. QED
    BY <1>3, <2>2 DEF SignalNotEmpty
<1>4. CASE RemoveItem(t)
  <2>1. Called' = [Called EXCEPT ![t] = "done"] /\ Called[t] = "get"
    BY <1>4, CalledMoves, Zenon DEF RemoveItem, Proceed, ListInv, Called
  <2>2. Fifo!Get(t)
    BY <1>4, <2>1 DEF Fifo!Get, Called, RemoveItem
  <2>3. QED
    BY <2>2 DEF Fifo!Next
<1>5. CASE Return(t)
  <2>1. Called' = [Called EXCEPT ![t] = "idle"]
    BY <1>5, Zenon DEF Return, ListInv, TypeOK, Called
  <2>2. CASE op[t] = "apply"
    <3>1. Called[t] = "idle" /\ item[t] = NULL
      BY <2>2 DEF Called, ListInv, CallsAgree
    <3>2. Called' = Called /\ item' = item
      BY <1>5, <2>1, <3>1 DEF Called, Return, ListInv, TypeOK
    <3>3. QED
      BY <1>5, <3>2 DEF Return
  <2>3. CASE op[t] \in {"appended", "removed"}
    <3>1. Called[t] = "done"
      BY <2>3 DEF Called
    <3>2. Fifo!Return(t)
      BY <1>5, <2>1, <3>1 DEF Fifo!Return, Called, Return
    <3>3. QED
      BY <3>2 DEF Fifo!Next
  <2>4. QED
    BY <1>5, <2>2, <2>3 DEF Return
<1>6. QED
  BY <1>1, <1>2, <1>3, <1>4, <1>5 DEF Work, WaitNotEmpty

\* SynchList implements a FIFO queue with atomic operations, for any threads and items.
THEOREM FifoRefinement == Spec => FifoPromise
<1>1. Init => Fifo!Init
  BY DEF Init, Fifo!Init
<1>2. ASSUME ListInv, [Next]_vars PROVE Fifo!Next \/ UNCHANGED <<list, Called, item>>
  <2>1. CASE UNCHANGED vars
    BY <2>1 DEF vars, synchlist, Called
  <2>2. QED
    BY <1>2, <2>1, NewCallImplements, WorkImplements DEF Next
<1>3. ListInv /\ [Next]_vars => [Fifo!Next]_<<list, Called, item>>
  BY <1>2
<1>4. QED
  BY <1>1, <1>3, InitList, NextKeepsList, PTL DEF Spec, FifoPromise, Fifo!Spec, Called

-----------------------------------------------------------------------------
(* Interrupts: the list of what is pending, and how it changes *)

\* The order in which interrupts a and b reach their handlers
Before(a, b) == a.when < b.when \/ (a.when = b.when /\ a.since <= b.since)

LEMMA PendingFields ==
  ASSUME NEW s \in Seq(PendingInterrupt)
  PROVE \A i \in 1..Len(s) : s[i] \in PendingInterrupt /\ s[i].when \in Nat /\ s[i].since \in Nat
<1>1. \A i \in 1..Len(s) : s[i] \in PendingInterrupt
  OBVIOUS
<1>2. \A x \in PendingInterrupt : x.when \in Nat /\ x.since \in Nat
  BY DEF PendingInterrupt
<1> QED BY <1>1, <1>2, Zenon

InTimeOrder(s) == \A m, n \in 1..Len(s) : m < n => Before(s[m], s[n])

\* List s with x put at place p
PutAt(s, x, p) == SubSeq(s, 1, p - 1) \o <<x>> \o SubSeq(s, p, Len(s))

\* What is in a list with x put at place p
LEMMA PutAtHolds ==
  ASSUME NEW s \in Seq(PendingInterrupt), NEW x \in PendingInterrupt,
         NEW p \in 1..(Len(s) + 1),
         NEW r, r = PutAt(s, x, p)
  PROVE /\ r \in Seq(PendingInterrupt) /\ Len(r) = Len(s) + 1
        /\ \A i \in 1..Len(r) : r[i] = IF i < p THEN s[i] ELSE IF i = p THEN x ELSE s[i - 1]
<1> DEFINE a == SubSeq(s, 1, p - 1)
           b == SubSeq(s, p, Len(s))
<1>1. a \in Seq(PendingInterrupt) /\ Len(a) = p - 1 /\ \A i \in 1..(p - 1) : a[i] = s[i]
  OBVIOUS
<1>2. /\ b \in Seq(PendingInterrupt) /\ Len(b) = Len(s) + 1 - p
      /\ \A i \in 1..(Len(s) + 1 - p) : b[i] = s[p + i - 1]
  OBVIOUS
<1>3. r = (a \o <<x>>) \o b
  BY Zenon DEF PutAt
<1> HIDE DEF a, b
<1> DEFINE c == a \o <<x>>
<1>4. /\ c \in Seq(PendingInterrupt) /\ Len(c) = p
      /\ \A i \in 1..p : c[i] = IF i < p THEN s[i] ELSE x
  BY <1>1
<1>5. r = c \o b
  BY <1>3, Zenon
<1> HIDE DEF c
<1>6. r \in Seq(PendingInterrupt) /\ Len(r) = Len(s) + 1
  <2>1. c \in Seq(PendingInterrupt) /\ b \in Seq(PendingInterrupt)
    BY <1>2, <1>4
  <2>2. c \o b \in Seq(PendingInterrupt) /\ Len(c \o b) = Len(c) + Len(b)
    BY <2>1
  <2>3. Len(s) \in Nat
    OBVIOUS
  <2> QED BY <1>2, <1>4, <1>5, <2>2, <2>3
<1>7. \A i \in 1..p : r[i] = c[i]
  BY <1>2, <1>4, <1>5
<1>8. \A i \in 1..Len(b) : r[p + i] = b[i]
  BY <1>2, <1>4, <1>5
<1>9. \A i \in 1..Len(r) : i > p => r[i] = s[i - 1]
  <2> SUFFICES ASSUME NEW i \in 1..Len(r), i > p PROVE r[i] = s[i - 1] OBVIOUS
  <2>1. i - p \in 1..Len(b) /\ p + (i - p) = i /\ p + (i - p) - 1 = i - 1
    BY <1>2, <1>6
  <2>2. b[i - p] = s[p + (i - p) - 1] /\ r[p + (i - p)] = b[i - p]
    BY <1>2, <1>8, <2>1
  <2> QED BY <2>1, <2>2
<1> QED BY <1>4, <1>6, <1>7, <1>9

\* List r is in order, and holds what s holds and x.
Holds(r, s, x) ==
  /\ r \in Seq(PendingInterrupt) /\ InTimeOrder(r)
  /\ \E i \in 1..Len(r) : r[i] = x
  /\ \A i \in 1..Len(s) : \E j \in 1..Len(r) : r[j] = s[i]
  /\ \A j \in 1..Len(r) : r[j] = x \/ \E i \in 1..Len(s) : r[j] = s[i]

\* Nothing pending was scheduled in the future.
ClockInv ==
  /\ ClockOrder
  /\ \A n \in 1..Len(pending) : pending[n].since <= totalTicks

\* ClockOrder, by what a step can disturb
ClockModes ==
  /\ totalTicks \in Nat
  /\ {inHandler, yieldOnReturn, randomize, active} \subseteq BOOLEAN
  /\ machineStatus \in {"SystemMode", "UserMode", "IdleMode", "halted"}
  /\ lastSector \in Sectors /\ bufferInit \in Nat

ClockList ==
  /\ pending \in Seq(PendingInterrupt) /\ InTimeOrder(pending)
  /\ \E n \in 1..Len(pending) : pending[n].device = "timer"
  /\ \A n \in 1..Len(pending) : pending[n].since <= totalTicks

ClockLate ==
  /\ inHandler => /\ Head(pending).when <= totalTicks
                  /\ totalTicks - Head(pending).when
                       <= IF machineStatus = "IdleMode" THEN 0 ELSE SystemTick - 1
  /\ ~inHandler => \A n \in 1..Len(pending) : pending[n].when > totalTicks

LEMMA ClockParts == ClockInv <=> ClockModes /\ ClockList /\ ClockLate
<1>1. pending \in Seq(PendingInterrupt) => DOMAIN pending = 1..Len(pending)
  OBVIOUS
<1> QED BY <1>1, Zenon DEF ClockInv, ClockOrder, ClockTypeOK, ClockModes, ClockList, ClockLate,
                       InTimeOrder, Before

LEMMA ClockPartsNext == ClockInv' <=> ClockModes' /\ ClockList' /\ ClockLate'
<1>1. pending' \in Seq(PendingInterrupt) => DOMAIN pending' = 1..Len(pending')
  OBVIOUS
<1> QED BY <1>1, Zenon DEF ClockInv, ClockOrder, ClockTypeOK, ClockModes, ClockList, ClockLate,
                       InTimeOrder, Before

\* The list is never empty, and its head is the earliest.
LEMMA FirstPending ==
  ASSUME ClockList
  PROVE /\ pending # <<>> /\ Len(pending) >= 1 /\ Head(pending) = pending[1]
        /\ Head(pending) \in PendingInterrupt
        /\ \A n \in 1..Len(pending) : pending[n].when >= pending[1].when
<1>0. pending \in Seq(PendingInterrupt) /\ Len(pending) \in Nat
  BY DEF ClockList
<1>1. pending # <<>> /\ Len(pending) >= 1
  BY <1>0 DEF ClockList
<1>2. Head(pending) = pending[1] /\ Head(pending) \in PendingInterrupt
  BY <1>0, <1>1
<1>3. \A n \in 1..Len(pending) : n > 1 => Before(pending[1], pending[n])
  BY <1>0, <1>1 DEF ClockList, InTimeOrder
<1>4. \A n \in 1..Len(pending) : pending[n].when \in Nat
  BY <1>0, PendingFields, Zenon
<1>5. \A n \in 1..Len(pending) : pending[n].when >= pending[1].when
  BY <1>0, <1>1, <1>3, <1>4 DEF Before
<1> QED BY <1>1, <1>2, <1>5

\* List r is in order, and holds what s holds and an interrupt of d, not yet due.
Scheduled(r, s, d) ==
  /\ r \in Seq(PendingInterrupt) /\ InTimeOrder(r)
  /\ \E i \in 1..Len(r) : r[i].device = d
  /\ \A i \in 1..Len(s) : \E j \in 1..Len(r) : r[j] = s[i]
  /\ \A j \in 1..Len(r) : /\ r[j].since <= totalTicks
                          /\ r[j].when > totalTicks \/ \E i \in 1..Len(s) : r[j] = s[i]

\* Two naturals have a natural product, positive if both are.
LEMMA Product ==
  ASSUME NEW a \in Nat, NEW b \in Nat
  PROVE a * b \in Nat /\ (a > 0 /\ b > 0 => a * b > 0)
  OBVIOUS

LEMMA Modulo ==
  ASSUME NEW a \in Int, NEW b \in Nat \ {0}
  PROVE a % b \in 0..(b - 1)
  OBVIOUS

\* Disk::TimeToSeek and Disk::ComputeLatency: a request takes time.
LEMMA SeekTakes ==
  ASSUME ClockModes, NEW new \in Sectors
  PROVE TimeToSeek(new).seek \in Nat /\ TimeToSeek(new).rotation \in Nat
<1> DEFINE apart == (new \div SectorsPerTrack) - (lastSector \div SectorsPerTrack)
           seek == (IF apart < 0 THEN -apart ELSE apart) * SeekTime
           over == (totalTicks + seek) % RotationTime
<1>1. TimeToSeek(new) = [seek |-> seek,
                         rotation |-> IF over > 0 THEN RotationTime - over ELSE 0]
  BY Zenon DEF TimeToSeek
<1>2. new \in Int /\ lastSector \in Int /\ totalTicks \in Nat
  BY DEF ClockModes, Sectors
<1>3. SectorsPerTrack \in Nat \ {0} /\ RotationTime \in Nat \ {0} /\ SeekTime \in Nat
  BY ClockAssumption
<1>4. apart \in Int
  BY <1>2, <1>3
<1> HIDE DEF apart
<1>5. (IF apart < 0 THEN -apart ELSE apart) \in Nat
  BY <1>4
<1>6. seek \in Nat
  BY <1>3, <1>5, Product, Zenon
<1> HIDE DEF seek
<1>7. totalTicks + seek \in Int
  BY <1>2, <1>6
<1>8. over \in 0..(RotationTime - 1)
  BY <1>3, <1>7, Modulo, Zenon
<1> HIDE DEF over
<1>9. (IF over > 0 THEN RotationTime - over ELSE 0) \in Nat
  BY <1>3, <1>8
<1> QED BY <1>1, <1>6, <1>9

LEMMA LatencyTakes ==
  ASSUME ClockModes, NEW new \in Sectors, NEW writing \in BOOLEAN
  PROVE ComputeLatency(new, writing) \in Nat \ {0}
<1> DEFINE t == TimeToSeek(new)
           timeAfter == totalTicks + t.seek + t.rotation
           apart == ModuloDiff(new, timeAfter \div RotationTime)
           buffered == /\ ~writing /\ t.seek = 0
                       /\ (timeAfter - bufferInit) \div RotationTime
                            > ModuloDiff(new, bufferInit \div RotationTime)
<1>1. ComputeLatency(new, writing) =
        IF buffered THEN RotationTime ELSE t.seek + t.rotation + apart * RotationTime + RotationTime
  BY Zenon DEF ComputeLatency
<1>2. SectorsPerTrack \in Nat \ {0} /\ RotationTime \in Nat \ {0}
  BY ClockAssumption
<1>3. t.seek \in Nat /\ t.rotation \in Nat
  BY SeekTakes, Zenon
<1> HIDE DEF t, buffered
<1>4. new \in Int /\ timeAfter \in Int
  BY <1>3 DEF ClockModes, Sectors
<1> HIDE DEF timeAfter
<1>5. timeAfter \div RotationTime \in Int
  BY <1>2, <1>4
<1>6. \A a, b \in Int : ModuloDiff(a, b) \in Nat
  <2> SUFFICES ASSUME NEW a \in Int, NEW b \in Int PROVE ModuloDiff(a, b) \in Nat
    BY Zenon
  <2>1. a % SectorsPerTrack \in Int /\ b % SectorsPerTrack \in Int
    BY <1>2
  <2>2. (a % SectorsPerTrack) - (b % SectorsPerTrack) + SectorsPerTrack \in Int
    BY <1>2, <2>1
  <2>3. ModuloDiff(a, b) \in 0..(SectorsPerTrack - 1)
    BY <1>2, <2>2, Modulo, Zenon DEF ModuloDiff
  <2> QED BY <1>2, <2>3
<1>7. apart \in Nat
  BY <1>4, <1>5, <1>6, Zenon
<1> HIDE DEF apart
<1>8. apart * RotationTime \in Nat
  BY <1>2, <1>7, Product, Zenon
<1>9. t.seek + t.rotation + apart * RotationTime + RotationTime \in Nat \ {0}
  BY <1>2, <1>3, <1>8
<1> QED BY <1>1, <1>2, <1>9, Zenon

\* Interrupt::OneTick: what becomes due is at most a tick late.
LEMMA OneTickKeeps ==
  ASSUME ClockInv, NEW mode \in {"SystemMode", "UserMode"}, OneTick(mode)
  PROVE ClockInv'
<1>1. ClockModes /\ ClockList /\ ClockLate
  BY ClockParts, Zenon
<1>2. PICK tick \in 1..SystemTick : totalTicks' = totalTicks + tick
  BY <1>1, ClockAssumption DEF OneTick, ClockModes
<1>3. /\ ~inHandler /\ machineStatus' = mode /\ inHandler' = Due(pending, totalTicks')
      /\ UNCHANGED <<pending, yieldOnReturn, randomize, active, lastSector, bufferInit>>
  BY Zenon DEF OneTick, KernelRuns
<1>4. totalTicks \in Nat /\ totalTicks' \in Nat /\ totalTicks <= totalTicks' /\ SystemTick \in Nat
  BY <1>1, <1>2, ClockAssumption DEF ClockModes
<1>5. ClockModes'
  <2>1. inHandler' \in BOOLEAN
    BY <1>3, Zenon DEF Due
  <2>2. mode \in {"SystemMode", "UserMode", "IdleMode", "halted"}
    OBVIOUS
  <2> QED BY <1>1, <1>3, <1>4, <2>1, <2>2, Zenon DEF ClockModes, Sectors
<1>6. ClockList'
  <2>1. \A n \in 1..Len(pending) : pending[n].since \in Nat /\ pending[n].since <= totalTicks
    BY <1>1, PendingFields, Zenon DEF ClockList
  <2>2. \A n \in 1..Len(pending) : pending[n].since <= totalTicks'
    BY <1>4, <2>1
  <2> QED BY <1>1, <1>3, <2>2, Zenon DEF ClockList, InTimeOrder
<1>7. ClockLate'
  <2>1. /\ pending # <<>> /\ Len(pending) >= 1 /\ Head(pending) = pending[1]
        /\ \A n \in 1..Len(pending) : pending[n].when >= pending[1].when
    BY <1>1, FirstPending, Zenon
  <2>2. \A n \in 1..Len(pending) : pending[n].when \in Nat /\ pending[n].when > totalTicks
    BY <1>1, <1>3, PendingFields, Zenon DEF ClockList, ClockLate
  <2>3. Len(pending) \in Nat
    BY <1>1 DEF ClockList
  <2>4. 1 \in 1..Len(pending)
    BY <2>1, <2>3
  <2>5. Head(pending).when \in Nat /\ Head(pending).when > totalTicks
    BY <2>1, <2>2, <2>4, Zenon
  <2>6. totalTicks' - Head(pending).when <= SystemTick - 1
    BY <1>2, <1>4, <2>5
  <2>7. inHandler' => Head(pending).when <= totalTicks'
    BY <1>3, Zenon DEF Due
  <2>8. ~inHandler' => Head(pending).when > totalTicks'
    <3>1. ~inHandler' => ~(Head(pending).when <= totalTicks')
      BY <1>3, <2>1, Zenon DEF Due
    <3> QED BY <1>4, <2>5, <3>1
  <2>9. ~inHandler' => \A n \in 1..Len(pending) : pending[n].when > totalTicks'
    BY <1>4, <2>1, <2>2, <2>5, <2>8
  <2>10. machineStatus' # "IdleMode"
    BY <1>3
  <2> QED BY <1>3, <2>6, <2>7, <2>9, <2>10, Zenon DEF ClockLate
<1> QED BY <1>5, <1>6, <1>7, ClockPartsNext, Zenon

\* Interrupt::Idle: there is an interrupt to wait for, and it is taken on time.
LEMMA IdleKeeps == ASSUME ClockInv, Idle PROVE ClockInv'
<1>1. ClockModes /\ ClockList /\ ClockLate
  BY ClockParts, Zenon
<1>2. /\ pending # <<>> /\ Len(pending) >= 1 /\ Head(pending) = pending[1]
      /\ \A n \in 1..Len(pending) : pending[n].when >= pending[1].when
  BY <1>1, FirstPending, Zenon
<1>3. ~inHandler /\ Len(pending) \in Nat
  BY <1>1 DEF Idle, KernelRuns, ClockList
<1>4. \A n \in 1..Len(pending) : /\ pending[n].when \in Nat /\ pending[n].when > totalTicks
                                 /\ pending[n].since \in Nat /\ pending[n].since <= totalTicks
  BY <1>1, <1>3, PendingFields, Zenon DEF ClockList, ClockLate
<1>5. 1 \in 1..Len(pending)
  BY <1>2, <1>3
<1>6. Head(pending).when \in Nat /\ Head(pending).when > totalTicks
  BY <1>2, <1>4, <1>5, Zenon
<1>7. /\ totalTicks' = Head(pending).when /\ inHandler' = TRUE /\ machineStatus' = "IdleMode"
      /\ UNCHANGED <<pending, yieldOnReturn, randomize, active, lastSector, bufferInit>>
  BY <1>2, <1>6, Zenon DEF Idle
<1>8. ClockModes'
  BY <1>1, <1>6, <1>7, Zenon DEF ClockModes, Sectors
<1>9. ClockList'
  <2>1. totalTicks \in Nat
    BY <1>1, Zenon DEF ClockModes
  <2>2. \A n \in 1..Len(pending) : pending[n].since <= totalTicks'
    BY <1>4, <1>6, <1>7, <2>1
  <2> QED BY <1>1, <1>7, <2>2, Zenon DEF ClockList, InTimeOrder
<1>10. ClockLate'
  <2>1. totalTicks' - Head(pending).when = 0 /\ Head(pending).when <= totalTicks' /\ 0 <= 0
    BY <1>6, <1>7
  <2> QED BY <1>7, <2>1 DEF ClockLate
<1> QED BY <1>8, <1>9, <1>10, ClockPartsNext, Zenon

\* The pending interrupts without the first
LEMMA RestKeeps ==
  ASSUME ClockList, NEW s, s = Tail(pending)
  PROVE /\ s \in Seq(PendingInterrupt) /\ InTimeOrder(s)
        /\ \A i \in 1..Len(s) : s[i].when >= Head(pending).when /\ s[i].since <= totalTicks
        /\ Head(pending).device # "timer" => \E i \in 1..Len(s) : s[i].device = "timer"
<1>1. /\ pending # <<>> /\ Len(pending) >= 1 /\ Head(pending) = pending[1]
      /\ \A n \in 1..Len(pending) : pending[n].when >= pending[1].when
  BY FirstPending, Zenon
<1>2. pending \in Seq(PendingInterrupt) /\ Len(pending) \in Nat
  BY DEF ClockList
<1>3. /\ s \in Seq(PendingInterrupt) /\ Len(s) = Len(pending) - 1
      /\ \A i \in 1..Len(s) : s[i] = pending[i + 1]
  BY <1>1, <1>2
<1>4. \A i \in 1..Len(s) : i + 1 \in 1..Len(pending)
  BY <1>2, <1>3
<1>5. \A i \in 1..Len(s) : s[i].when >= Head(pending).when /\ s[i].since <= totalTicks
  BY <1>1, <1>3, <1>4, Zenon DEF ClockList
<1>6. InTimeOrder(s)
  <2> SUFFICES ASSUME NEW m \in 1..Len(s), NEW n \in 1..Len(s), m < n PROVE Before(s[m], s[n])
    BY Zenon DEF InTimeOrder
  <2>1. m + 1 < n + 1
    BY <1>2, <1>3
  <2> QED BY <1>3, <1>4, <2>1, Zenon DEF ClockList, InTimeOrder
<1>7. ASSUME Head(pending).device # "timer" PROVE \E i \in 1..Len(s) : s[i].device = "timer"
  <2>1. PICK n \in 1..Len(pending) : pending[n].device = "timer"
    BY Zenon DEF ClockList
  <2>2. n # 1
    BY <1>1, <1>7, <2>1
  <2>3. n - 1 \in 1..Len(s) /\ (n - 1) + 1 = n
    BY <1>2, <1>3, <2>2
  <2> QED BY <1>3, <2>1, <2>3, Zenon
<1> QED BY <1>3, <1>5, <1>6, <1>7, Zenon

LEMMA YieldKeeps == ASSUME ClockInv, Yield PROVE ClockInv'
<1>1. ClockModes /\ ClockList /\ ClockLate
  BY ClockParts, Zenon
<1> QED BY <1>1, ClockPartsNext, Zenon DEF Yield, ClockModes, ClockList, ClockLate, InTimeOrder, Sectors

LEMMA ClockStops == ASSUME ClockInv, UNCHANGED clockVars PROVE ClockInv'
<1>1. ClockModes /\ ClockList /\ ClockLate
  BY ClockParts, Zenon
<1> QED BY <1>1, ClockPartsNext, Zenon
        DEF clockVars, ClockModes, ClockList, ClockLate, InTimeOrder, Sectors

\* Timer::Timer schedules the first interrupt.
LEMMA ClockInitInv == ASSUME ClockInit PROVE ClockInv
<1>1. PICK delay \in IF randomize THEN 1 .. 2 * TimerTicks ELSE {TimerTicks} :
        pending = <<[when |-> delay, device |-> "timer", since |-> 0]>>
  BY Zenon DEF ClockInit
<1>2. delay \in Nat \ {0}
  BY <1>1, ClockAssumption
<1> DEFINE x == [when |-> delay, device |-> "timer", since |-> 0]
<1>3. x \in PendingInterrupt /\ x.when > 0 /\ x.since = 0 /\ x.device = "timer"
  BY <1>2 DEF PendingInterrupt
<1>4. pending = <<x>>
  BY <1>1
<1> HIDE DEF x
<1>5. pending \in Seq(PendingInterrupt) /\ Len(pending) = 1 /\ pending[1] = x
  BY <1>3, <1>4
<1>6. totalTicks = 0
  BY DEF ClockInit
<1>7. ClockList
  BY <1>3, <1>5, <1>6 DEF ClockList, InTimeOrder
<1>8. ClockLate
  BY <1>3, <1>5, <1>6 DEF ClockLate, ClockInit
<1>9. ClockModes
  <2>1. SectorsPerTrack \in Nat /\ NumTracks \in Nat /\ SectorsPerTrack > 0 /\ NumTracks > 0
    BY ClockAssumption
  <2>2. SectorsPerTrack * NumTracks \in Nat /\ SectorsPerTrack * NumTracks > 0
    BY <2>1, Product, Zenon
  <2>3. 0 \in Sectors
    BY <2>2 DEF Sectors
  <2> QED BY <2>3, Zenon DEF ClockInit, ClockModes
<1> QED BY <1>7, <1>8, <1>9, ClockParts, Zenon

-----------------------------------------------------------------------------
(* Interrupts: the steps that schedule *)

\* The library's theorems about well-founded relations
Induction == INSTANCE WellFoundedInduction

\* Every nonempty set of naturals has a least element.
LEMMA Least ==
  ASSUME NEW S, S \subseteq Nat, S # {}
  PROVE \E n \in S : \A m \in S : n <= m
<1>1. PICK x \in S : \A y \in S : ~ (<<y, x>> \in Induction!OpToRel(<, Nat))
  BY Induction!WFMin, Induction!NatLessThanWellFounded, Zenon
<1>2. \A y \in S : ~(y < x)
  BY <1>1, Zenon DEF Induction!OpToRel
<1> QED BY <1>2

\* SortedList::Insert on the list of pending interrupts: there is a place p, with
\* the interrupts up to the time of the new one before it and the later ones behind.
LEMMA InsertPlace ==
  ASSUME NEW s \in Seq(PendingInterrupt), NEW x \in PendingInterrupt, InTimeOrder(s)
  PROVE \E p \in 1..(Len(s) + 1) :
          /\ Insert(s, x) = PutAt(s, x, p)
          /\ \A i \in 1..Len(s) : IF i < p THEN s[i].when <= x.when ELSE s[i].when > x.when
<1> DEFINE bigger == {n \in DOMAIN s : x.when < s[n].when}
           place == IF bigger = {} THEN Len(s) + 1
                    ELSE CHOOSE n \in bigger : \A m \in bigger : n <= m
<1>0. Len(s) \in Nat /\ DOMAIN s = 1..Len(s)
  OBVIOUS
<1>1. \A i \in 1..Len(s) : s[i].when \in Nat
  BY PendingFields, Zenon
<1>2. x.when \in Nat
  BY DEF PendingInterrupt
<1>3. Insert(s, x) = PutAt(s, x, place)
  BY Zenon DEF Insert, PutAt
<1>4. CASE bigger = {}
  <2>1. place = Len(s) + 1
    BY <1>4
  <2>2. \A i \in 1..Len(s) : s[i].when <= x.when /\ i < Len(s) + 1
    BY <1>0, <1>1, <1>2, <1>4
  <2> HIDE DEF place, bigger
  <2> QED BY <1>0, <1>3, <2>1, <2>2
<1>5. CASE bigger # {}
  <2>1. bigger \subseteq Nat
    BY <1>0
  <2>2. place \in bigger /\ \A m \in bigger : place <= m
    BY <1>5, <2>1, Least, Zenon
  <2>3. /\ place \in 1..Len(s) /\ x.when < s[place].when
        /\ \A i \in 1..Len(s) : x.when < s[i].when => place <= i
    BY <1>0, <2>2, Zenon
  <2> HIDE DEF place, bigger
  <2>4. \A i \in 1..Len(s) : i > place => s[place].when <= s[i].when
    BY <1>0, <1>1, <2>3 DEF InTimeOrder, Before
  <2>5. \A i \in 1..Len(s) : IF i < place THEN s[i].when <= x.when ELSE s[i].when > x.when
    BY <1>0, <1>1, <1>2, <2>3, <2>4
  <2> QED BY <1>0, <1>3, <2>3, <2>5
<1> QED BY <1>4, <1>5, Zenon

\* So the list stays in order, with the same interrupts and the new one, if this was
\* scheduled last.
LEMMA InsertKeeps ==
  ASSUME NEW s \in Seq(PendingInterrupt), NEW x \in PendingInterrupt, InTimeOrder(s),
         \A i \in 1..Len(s) : s[i].since <= x.since,
         NEW r, r = Insert(s, x)
  PROVE Holds(r, s, x)
<1>1. PICK p \in 1..(Len(s) + 1) :
        /\ Insert(s, x) = PutAt(s, x, p)
        /\ \A i \in 1..Len(s) : IF i < p THEN s[i].when <= x.when ELSE s[i].when > x.when
  BY InsertPlace, Zenon
<1>2. /\ r \in Seq(PendingInterrupt) /\ Len(r) = Len(s) + 1
      /\ \A i \in 1..Len(r) : r[i] = IF i < p THEN s[i] ELSE IF i = p THEN x ELSE s[i - 1]
  BY <1>1, PutAtHolds
<1>3. Len(s) \in Nat
  OBVIOUS
<1>4. \A i \in 1..Len(s) : s[i].when \in Nat /\ s[i].since \in Nat
  BY PendingFields, Zenon
<1>5. x.when \in Nat /\ x.since \in Nat
  BY DEF PendingInterrupt
<1>6. InTimeOrder(r)
  <2> SUFFICES ASSUME NEW m \in 1..Len(r), NEW n \in 1..Len(r), m < n
               PROVE Before(r[m], r[n])
    BY Zenon DEF InTimeOrder
  <2>1. CASE n < p
    <3>1. m \in 1..Len(s) /\ n \in 1..Len(s) /\ r[m] = s[m] /\ r[n] = s[n]
      BY <1>2, <1>3, <2>1
    <3> QED BY <3>1, Zenon DEF InTimeOrder
  <2>2. CASE n = p
    <3>1. m \in 1..Len(s) /\ r[m] = s[m] /\ r[n] = x /\ s[m].when <= x.when
      BY <1>1, <1>2, <1>3, <2>2
    <3> QED BY <1>4, <1>5, <3>1 DEF Before
  <2>3. CASE n > p /\ m = p
    <3>1. n - 1 \in 1..Len(s) /\ r[m] = x /\ r[n] = s[n - 1] /\ s[n - 1].when > x.when
      BY <1>1, <1>2, <1>3, <2>3
    <3> QED BY <1>4, <1>5, <3>1 DEF Before
  <2>4. CASE n > p /\ m < p
    <3>1. m \in 1..Len(s) /\ n - 1 \in 1..Len(s) /\ r[m] = s[m] /\ r[n] = s[n - 1]
          /\ s[m].when <= x.when /\ s[n - 1].when > x.when
      BY <1>1, <1>2, <1>3, <2>4
    <3> QED BY <1>4, <1>5, <3>1 DEF Before
  <2>5. CASE n > p /\ m > p
    <3>1. /\ m - 1 \in 1..Len(s) /\ n - 1 \in 1..Len(s) /\ m - 1 < n - 1
          /\ r[m] = s[m - 1] /\ r[n] = s[n - 1]
      BY <1>2, <1>3, <2>5
    <3> QED BY <3>1, Zenon DEF InTimeOrder
  <2> QED BY <1>2, <2>1, <2>2, <2>3, <2>4, <2>5
<1>7. p \in 1..Len(r) /\ r[p] = x
  BY <1>2, <1>3
<1>8. \A i \in 1..Len(s) : \E j \in 1..Len(r) : r[j] = s[i]
  <2> SUFFICES ASSUME NEW i \in 1..Len(s) PROVE \E j \in 1..Len(r) : r[j] = s[i] OBVIOUS
  <2>1. CASE i < p
    BY <1>2, <1>3, <2>1
  <2>2. CASE i >= p
    <3>1. i + 1 \in 1..Len(r) /\ r[i + 1] = s[i]
      BY <1>2, <1>3, <2>2
    <3> QED BY <3>1, Zenon
  <2> QED BY <2>1, <2>2
<1>9. \A j \in 1..Len(r) : r[j] = x \/ \E i \in 1..Len(s) : r[j] = s[i]
  <2> SUFFICES ASSUME NEW j \in 1..Len(r), j # p PROVE \E i \in 1..Len(s) : r[j] = s[i]
    BY <1>7, Zenon
  <2>1. CASE j < p
    BY <1>2, <1>3, <2>1
  <2>2. CASE j > p
    <3>1. j - 1 \in 1..Len(s) /\ r[j] = s[j - 1]
      BY <1>2, <1>3, <2>2
    <3> QED BY <3>1, Zenon
  <2> QED BY <2>1, <2>2
<1> QED BY <1>2, <1>6, <1>7, <1>8, <1>9, Zenon DEF Holds

\* Interrupt::Schedule, ahead of now: the list keeps its order and all it held.
LEMMA ScheduleKeeps ==
  ASSUME NEW s \in Seq(PendingInterrupt), InTimeOrder(s), totalTicks \in Nat,
         \A i \in 1..Len(s) : s[i].since <= totalTicks,
         NEW d \in {"timer", "disk", "console"}, NEW ahead \in Nat \ {0},
         NEW r, r = Schedule(s, d, ahead)
  PROVE Scheduled(r, s, d)
<1> DEFINE x == [when |-> totalTicks + ahead, device |-> d, since |-> totalTicks]
<1>1. /\ x \in PendingInterrupt /\ x.since = totalTicks /\ x.device = d
      /\ x.when > totalTicks
  <2>1. totalTicks + ahead \in Nat /\ totalTicks + ahead > totalTicks
    OBVIOUS
  <2> QED BY <2>1, Zenon DEF PendingInterrupt
<1>2. r = Insert(s, x)
  BY Zenon DEF Schedule
<1> HIDE DEF x
<1>3. \A i \in 1..Len(s) : s[i].since <= x.since
  BY <1>1
<1>4. Holds(r, s, x)
  BY <1>1, <1>2, <1>3, InsertKeeps, Zenon
<1>5. x.since <= totalTicks
  BY <1>1
<1> QED BY <1>1, <1>4, <1>5, Zenon DEF Holds, Scheduled

\* A device schedules its interrupt while the kernel runs.
LEMMA ScheduleStep ==
  ASSUME ClockModes, ClockList, ClockLate, ~inHandler, UNCHANGED <<totalTicks, inHandler>>,
         NEW d \in {"timer", "disk", "console"}, NEW ahead \in Nat \ {0},
         pending' = Schedule(pending, d, ahead)
  PROVE ClockList' /\ ClockLate'
<1>1. /\ totalTicks \in Nat /\ pending \in Seq(PendingInterrupt) /\ InTimeOrder(pending)
      /\ \A n \in 1..Len(pending) : pending[n].since <= totalTicks
      /\ \A n \in 1..Len(pending) : pending[n].when > totalTicks
  BY Zenon DEF ClockModes, ClockList, ClockLate
<1>2. PICK n \in 1..Len(pending) : pending[n].device = "timer"
  BY Zenon DEF ClockList
<1>3. /\ pending' \in Seq(PendingInterrupt) /\ InTimeOrder(pending')
      /\ \A i \in 1..Len(pending) : \E j \in 1..Len(pending') : pending'[j] = pending[i]
      /\ \A j \in 1..Len(pending') :
           /\ pending'[j].since <= totalTicks
           /\ pending'[j].when > totalTicks \/ \E i \in 1..Len(pending) : pending'[j] = pending[i]
  <2>1. Scheduled(pending', pending, d)
    BY <1>1, ScheduleKeeps, Zenon
  <2> QED BY <2>1, Zenon DEF Scheduled
<1>4. \E j \in 1..Len(pending') : pending'[j].device = "timer"
  BY <1>2, <1>3, Zenon
<1>5. \A j \in 1..Len(pending') : pending'[j].when > totalTicks
  BY <1>1, <1>3, Zenon
<1>6. InTimeOrder(pending)'
  BY <1>3, Zenon DEF InTimeOrder, Before
<1>7. ClockList'
  BY <1>3, <1>4, <1>6, Zenon DEF ClockList
<1>8. ClockLate'
  BY <1>5, Zenon DEF ClockLate
<1> QED BY <1>7, <1>8

\* ConsoleOutput::PutChar
LEMMA PutCharKeeps == ASSUME ClockInv, PutChar PROVE ClockInv'
<1>1. ClockModes /\ ClockList /\ ClockLate
  BY ClockParts, Zenon
<1>2. ConsoleTime \in Nat \ {0}
  BY ClockAssumption
<1>3. ClockList' /\ ClockLate'
  BY <1>1, <1>2, ScheduleStep, Zenon DEF PutChar, KernelRuns
<1>4. ClockModes'
  BY <1>1, Zenon DEF PutChar, ClockModes, Sectors
<1> QED BY <1>3, <1>4, ClockPartsNext, Zenon

\* Disk::ReadRequest and Disk::WriteRequest
LEMMA DiskRequestKeeps ==
  ASSUME ClockInv, NEW sector \in Sectors, NEW writing \in BOOLEAN, DiskRequest(sector, writing)
  PROVE ClockInv'
<1>1. ClockModes /\ ClockList /\ ClockLate
  BY ClockParts, Zenon
<1>2. ComputeLatency(sector, writing) \in Nat \ {0}
  BY <1>1, LatencyTakes, Zenon
<1>3. ClockList' /\ ClockLate'
  BY <1>1, <1>2, ScheduleStep, Zenon DEF DiskRequest, KernelRuns
<1>4. TimeToSeek(sector).seek \in Nat /\ TimeToSeek(sector).rotation \in Nat
  BY <1>1, SeekTakes, Zenon
<1>5. totalTicks + TimeToSeek(sector).seek + TimeToSeek(sector).rotation \in Nat
  BY <1>1, <1>4 DEF ClockModes
<1>6. bufferInit' \in Nat /\ lastSector' \in Sectors /\ active' = TRUE
      /\ UNCHANGED <<totalTicks, inHandler, yieldOnReturn, machineStatus, randomize>>
  BY <1>1, <1>5, Zenon DEF DiskRequest, UpdateLast, ClockModes
<1>7. ClockModes'
  BY <1>1, <1>6, Zenon DEF ClockModes, Sectors
<1> QED BY <1>3, <1>7, ClockPartsNext, Zenon

\* One turn of the loop of Interrupt::CheckIfDue
LEMMA CallBackKeeps == ASSUME ClockInv, CallBack PROVE ClockInv'
<1>1. ClockModes /\ ClockList /\ ClockLate
  BY ClockParts, Zenon
<1> DEFINE rest == Tail(pending)
           now == totalTicks
<1>2. /\ rest \in Seq(PendingInterrupt) /\ InTimeOrder(rest)
      /\ \A i \in 1..Len(rest) : rest[i].when >= Head(pending).when /\ rest[i].since <= now
      /\ Head(pending).device # "timer" => \E i \in 1..Len(rest) : rest[i].device = "timer"
  BY <1>1, RestKeeps, Zenon
<1>3. /\ inHandler /\ inHandler' = Due(pending', totalTicks)
      /\ machineStatus' = IF machineStatus = "IdleMode" /\ ~inHandler'
                          THEN "SystemMode" ELSE machineStatus
      /\ UNCHANGED <<totalTicks, randomize, lastSector, bufferInit>>
  BY Zenon DEF CallBack
<1>4. /\ now \in Nat /\ Head(pending).when \in Nat /\ Head(pending).when <= now
      /\ now - Head(pending).when <= IF machineStatus = "IdleMode" THEN 0 ELSE SystemTick - 1
  <2>1. Head(pending) \in PendingInterrupt
    BY <1>1, FirstPending, Zenon
  <2>2. Head(pending).when \in Nat
    BY <2>1 DEF PendingInterrupt
  <2> QED BY <1>1, <1>3, <2>2, Zenon DEF ClockModes, ClockLate
<1>5. /\ pending' \in Seq(PendingInterrupt) /\ InTimeOrder(pending')
      /\ \E i \in 1..Len(pending') : pending'[i].device = "timer"
      /\ \A i \in 1..Len(pending') : /\ pending'[i].since <= now
                                     /\ pending'[i].when >= Head(pending).when
      /\ active' \in BOOLEAN /\ yieldOnReturn' \in BOOLEAN
  <2>1. CASE Head(pending).device = "timer" /\ TimerCallBack(rest)
    <3>1. PICK delay \in IF randomize THEN 1 .. 2 * TimerTicks ELSE {TimerTicks} :
            pending' = Schedule(rest, "timer", delay)
      BY <2>1, Zenon DEF TimerCallBack
    <3>2. delay \in Nat \ {0}
      BY <3>1, ClockAssumption
    <3>3. Scheduled(pending', rest, "timer")
      BY <1>2, <1>4, <3>1, <3>2, ScheduleKeeps, Zenon
    <3> HIDE DEF rest, now
    <3>4. \A i \in 1..Len(pending') : pending'[i].when \in Nat
      BY <3>3, PendingFields, Zenon DEF Scheduled
    <3>5. \A i \in 1..Len(pending') : pending'[i].when >= Head(pending).when
      <4> SUFFICES ASSUME NEW i \in 1..Len(pending') PROVE pending'[i].when >= Head(pending).when
        OBVIOUS
      <4>1. CASE pending'[i].when > totalTicks
        BY <1>4, <3>4, <4>1 DEF now
      <4>2. CASE \E j \in 1..Len(rest) : pending'[i] = rest[j]
        BY <1>2, <4>2, Zenon
      <4> QED BY <3>3, <4>1, <4>2, Zenon DEF Scheduled
    <3>6. active' \in BOOLEAN /\ yieldOnReturn' \in BOOLEAN
      BY <1>1, <2>1, Zenon DEF TimerCallBack, ClockModes
    <3> QED BY <3>3, <3>5, <3>6, Zenon DEF Scheduled, now
  <2>2. CASE Head(pending).device # "timer" /\ pending' = rest
               /\ active' \in BOOLEAN /\ yieldOnReturn' \in BOOLEAN
    BY <1>2, <2>2, Zenon
  <2>3. Head(pending).device = "disk" \/ Head(pending).device = "console"
          => Head(pending).device # "timer"
    OBVIOUS
  <2> QED BY <1>1, <2>1, <2>2, <2>3, Zenon DEF CallBack, ClockModes
<1> HIDE DEF rest
<1>6. InTimeOrder(pending)'
  BY <1>5, Zenon DEF InTimeOrder, Before
<1>7. ClockList'
  BY <1>3, <1>5, <1>6, Zenon DEF ClockList
<1>8. ClockModes'
  <2>1. inHandler' \in BOOLEAN
    BY <1>3, Zenon DEF Due
  <2> QED BY <1>1, <1>3, <1>5, <2>1, Zenon DEF ClockModes, Sectors
<1>9. ClockLate'
  <2>1. /\ pending' # <<>> /\ Len(pending') >= 1 /\ Len(pending') \in Nat
        /\ Head(pending') = pending'[1]
    BY <1>5
  <2>2. 1 \in 1..Len(pending')
    BY <2>1
  <2>3. \A n \in 1..Len(pending') : pending'[n].when \in Nat
    BY <1>5, PendingFields, Zenon
  <2>4. \A n \in 1..Len(pending') : n > 1 => Before(pending'[1], pending'[n])
    BY <1>5, <2>2, Zenon DEF InTimeOrder
  <2>5. \A n \in 1..Len(pending') : pending'[n].when >= pending'[1].when
    BY <2>2, <2>3, <2>4 DEF Before
  <2>6. CASE inHandler'
    <3>1. machineStatus' = machineStatus
      BY <1>3, <2>6, Zenon
    <3>2. Head(pending').when <= now
      BY <1>3, <2>6, Zenon DEF Due
    <3>3. Head(pending').when >= Head(pending).when /\ Head(pending').when \in Nat
      BY <1>5, <2>1, <2>2, <2>3, Zenon
    <3>4. now - Head(pending').when <= IF machineStatus = "IdleMode" THEN 0 ELSE SystemTick - 1
      <4>1. SystemTick \in Nat
        BY ClockAssumption
      <4> HIDE DEF now
      <4> QED BY <1>4, <3>3, <4>1
    <3> QED BY <1>3, <2>6, <3>1, <3>2, <3>4, Zenon DEF ClockLate
  <2>7. CASE ~inHandler'
    <3>1. ~(Head(pending').when <= now)
      BY <1>3, <2>1, <2>7, Zenon DEF Due
    <3>2. \A n \in 1..Len(pending') : pending'[n].when > now
      BY <1>4, <2>1, <2>2, <2>3, <2>5, <3>1
    <3> QED BY <1>3, <2>7, <3>2, Zenon DEF ClockLate
  <2> QED BY <2>6, <2>7
<1> QED BY <1>7, <1>8, <1>9, ClockPartsNext, Zenon

LEMMA ClockNextKeeps == ASSUME ClockInv, [ClockNext]_clockVars PROVE ClockInv'
<1>1. CASE OneTick("SystemMode") \/ OneTick("UserMode")
  BY <1>1, OneTickKeeps
<1>2. CASE \E s \in Sectors, w \in BOOLEAN : DiskRequest(s, w)
  BY <1>2, DiskRequestKeeps, Zenon
<1>3. CASE UNCHANGED clockVars
  BY <1>3, ClockStops, Zenon
<1> QED BY <1>1, <1>2, <1>3, IdleKeeps, CallBackKeeps, YieldKeeps, PutCharKeeps, Zenon DEF ClockNext

\* Interrupt::CheckIfDue, Interrupt::Idle and SortedList::Insert: whatever the ticks,
\* delays and disk, interrupts reach their handlers in the order of their times, and
\* of their scheduling when these are equal; none is early, none is later than the
\* tick that made it due, and the timer always has its next one pending.
THEOREM ClockCorrect == ClockSpec => []ClockOrder
<1>1. ClockInit => ClockInv
  BY ClockInitInv
<1>2. ClockInv /\ [ClockNext]_clockVars => ClockInv'
  BY ClockNextKeeps
<1>3. ClockInv => ClockOrder
  BY DEF ClockInv
<1> QED BY <1>1, <1>2, <1>3, PTL DEF ClockSpec
(* Monitor *)

-----------------------------------------------------------------------------
(* No waiter is forgotten. *)

\* Counting, with the library's theorems about finite sets
Finite == INSTANCE FiniteSetTheorems

\* Cardinality and IsFiniteSet are those of the library.
LEMMA SameCount ==
  \A S : /\ Cardinality(S) = Finite!Cardinality(S)
         /\ IsFiniteSet(S) <=> Finite!IsFiniteSet(S)
<1>1. \A S : IsFiniteSet(S) <=> Finite!IsFiniteSet(S)
  BY Zenon DEF IsFiniteSet, Finite!IsFiniteSet
<1>2. \A S : Cardinality(S) = Finite!Cardinality(S)
  BY Zenon DEF Cardinality, Finite!Cardinality
<1>3. QED
  BY <1>1, <1>2, Zenon

\* A part of a finite set is finite, with a number of elements.
LEMMA CountPart ==
  ASSUME NEW S, IsFiniteSet(S), NEW T \in SUBSET S
  PROVE  IsFiniteSet(T) /\ Cardinality(T) \in Nat
BY SameCount, Finite!FS_Subset, Finite!FS_CardinalityType, Zenon

\* One element more
LEMMA CountAdd ==
  ASSUME NEW S, NEW x, IsFiniteSet(S)
  PROVE  Cardinality(S \cup {x}) = IF x \in S THEN Cardinality(S) ELSE Cardinality(S) + 1
BY SameCount, Finite!FS_AddElement, Zenon

\* One element fewer
LEMMA CountRemove ==
  ASSUME NEW S, NEW x, IsFiniteSet(S)
  PROVE  Cardinality(S \ {x}) = IF x \in S THEN Cardinality(S) - 1 ELSE Cardinality(S)
BY SameCount, Finite!FS_RemoveElement, Zenon

\* The threads that will look at the list, and those that will signal
Looking == {t \in Threads : op[t] = "remove" /\ ~ Queued(t)}
Signalling == {t \in Threads : op[t] = "signal"}

LEMMA CountsAreNumbers ==
  /\ IsFiniteSet(Looking) /\ IsFiniteSet(Signalling)
  /\ Cardinality(Looking) \in Nat /\ Cardinality(Signalling) \in Nat
<1>1. Looking \in SUBSET Threads /\ Signalling \in SUBSET Threads
  BY DEF Looking, Signalling
<1>2. IsFiniteSet(Looking) /\ IsFiniteSet(Signalling)
  BY <1>1, CountPart, MonitorAssumption
<1>3. QED
  BY <1>2, CountPart

Covered == waitQueue # <<>> => Len(list) <= Cardinality(Looking) + Cardinality(Signalling)

\* A step that neither takes a thread out of RemoveFront's loop nor lengthens the list,
\* nor puts a thread to sleep
LEMMA CallCovers ==
  ASSUME ListInv, Covered, NEW t \in Threads, NewCall(t)
  PROVE  Covered'
<1>1. pc[t] = "outside" /\ op[t] = "none" /\ ~ Queued(t)
  BY DEF NewCall, CallAppend, CallRemoveFront, CallApply, CallAcquire, Goto,
         ListInv, CallsAgree, MonitorKept
<1>2. UNCHANGED <<waitQueue, list>> /\ \A u \in Threads : Queued(u)' <=> Queued(u)
  BY DEF NewCall, CallAppend, CallRemoveFront, CallApply, CallAcquire, Queued
<1>3. PICK o \in {"append", "remove", "apply"} : op' = [op EXCEPT ![t] = o]
  BY DEF NewCall, CallAppend, CallRemoveFront, CallApply
<1>4. \A u \in Threads : op'[u] = IF u = t THEN o ELSE op[u]
  BY <1>3 DEF ListInv, TypeOK
<1>5. Signalling' = Signalling
  BY <1>1, <1>4 DEF Signalling
<1>6. Looking' = Looking \/ Looking' = Looking \cup {t}
  BY <1>1, <1>2, <1>4 DEF Looking
<1>7. Cardinality(Looking') >= Cardinality(Looking)
  BY <1>6, CountsAreNumbers, CountAdd
<1>8. Len(list) \in Nat /\ Cardinality(Looking') \in Nat
  <2>1. Cardinality(Looking') = Cardinality(Looking) \/ Cardinality(Looking') = Cardinality(Looking) + 1
    BY <1>6, CountsAreNumbers, CountAdd
  <2>2. QED
    BY <2>1, CountsAreNumbers DEF ListInv, TypeOK
<1>9. Cardinality(Looking)' = Cardinality(Looking') /\ Cardinality(Signalling)' = Cardinality(Signalling)
  BY <1>5
<1>10. QED
  BY <1>2, <1>7, <1>8, <1>9, CountsAreNumbers DEF Covered

LEMMA ContinueCovers ==
  ASSUME ListInv, Covered, NEW t \in Threads, Continue(t), UNCHANGED synchlist
  PROVE  Covered'
<1>1. pc[t] # "broadcast"
  BY DEF ListInv, CallsAgree
<1>2. waitQueue' = waitQueue /\ list' = list /\ op' = op
  BY <1>1 DEF Continue, AcquireP, SetHolder, WaiterP, ReacquireP, WaitReturn, BroadcastSignal,
              BroadcastEnd, Goto, synchlist
<1>3. Looking' = Looking /\ Signalling' = Signalling
  BY <1>2 DEF Looking, Signalling, Queued
<1>4. QED
  BY <1>2, <1>3 DEF Covered

\* A new item has a thread that is about to signal.
LEMMA AppendItemCovers ==
  ASSUME ListInv, Covered, NEW t \in Threads, AppendItem(t)
  PROVE  Covered'
<1>1. op[t] = "append" /\ UNCHANGED waitQueue /\ Len(list) \in Nat /\ Len(list') = Len(list) + 1
  BY DEF AppendItem, Proceed, monitor, ListInv, TypeOK, CallsAgree
<1>2. \A u \in Threads : op'[u] = IF u = t THEN "signal" ELSE op[u]
  BY DEF AppendItem, Proceed, ListInv, TypeOK
<1>3. Looking' = Looking
  BY <1>1, <1>2 DEF Looking, Queued
<1>4. Signalling' = Signalling \cup {t} /\ t \notin Signalling
  BY <1>1, <1>2 DEF Signalling
<1>5. Cardinality(Signalling') = Cardinality(Signalling) + 1
  BY <1>4, CountsAreNumbers, CountAdd, Zenon
<1>6. QED
  BY <1>1, <1>3, <1>5, CountsAreNumbers DEF Covered

\* The signal takes one thread off the queue, which will look at the list.
LEMMA SignalCovers ==
  ASSUME ListInv, Covered, NEW t \in Threads, SignalNotEmpty(t)
  PROVE  Covered'
<1>1. CASE waitQueue = <<>>
  <2>1. waitQueue' = <<>>
    BY <1>1 DEF SignalNotEmpty, Signal, WakeFirst, monitor
  <2>2. QED
    BY <2>1 DEF Covered
<1>2. CASE waitQueue # <<>>
  <2> DEFINE h == Head(waitQueue)
  <2>1. WakeFirst /\ list' = list
    BY <1>2 DEF SignalNotEmpty, Signal
  <2>2. h \in Threads /\ Queued(h) /\ \A u \in Threads : Queued(u)' <=> u # h /\ Queued(u)
    BY <1>2, <2>1, QueueShortened DEF WakeFirst, ListInv, TypeOK, MonitorKept
  <2>3. op[t] = "signal" /\ \A u \in Threads : op'[u] = IF u = t THEN "appended" ELSE op[u]
    BY DEF SignalNotEmpty, Proceed, ListInv, TypeOK
  <2>4. op[h] = "remove" /\ h # t
    BY <2>2, <2>3 DEF ListInv, MonitorKept, CallsAgree
  <2> HIDE DEF h
  <2>5. Looking' = Looking \cup {h} /\ h \notin Looking
    BY <2>2, <2>3, <2>4 DEF Looking
  <2>6. Signalling' = Signalling \ {t} /\ t \in Signalling
    BY <2>3 DEF Signalling
  <2>7. /\ Cardinality(Looking') = Cardinality(Looking) + 1
        /\ Cardinality(Signalling') = Cardinality(Signalling) - 1
    BY <2>5, <2>6, CountsAreNumbers, CountAdd, CountRemove, Zenon
  <2>8. QED
    BY <1>2, <2>1, <2>7, CountsAreNumbers DEF Covered
<1>3. QED
  BY <1>1, <1>2

\* A thread waits only when the list is empty.
LEMMA WaitCovers ==
  ASSUME ListInv, Covered, NEW t \in Threads, WaitNotEmpty(t), ListInv'
  PROVE  Covered'
<1>1. Len(list') = 0
  BY DEF WaitNotEmpty, synchlist
<1>2. Cardinality(Looking)' \in Nat /\ Cardinality(Signalling)' \in Nat
  <2>1. Looking' \in SUBSET Threads /\ Signalling' \in SUBSET Threads
    BY DEF Looking, Signalling
  <2>2. QED
    BY <2>1, CountPart, MonitorAssumption
<1>3. QED
  BY <1>1, <1>2 DEF Covered

LEMMA RemoveItemCovers ==
  ASSUME ListInv, Covered, NEW t \in Threads, RemoveItem(t)
  PROVE  Covered'
<1>1. /\ op[t] = "remove" /\ pc[t] = "inside" /\ UNCHANGED waitQueue
      /\ Len(list) \in Nat /\ Len(list') = Len(list) - 1
  BY DEF RemoveItem, Proceed, monitor, ListInv, TypeOK
<1>2. ~ Queued(t)
  BY <1>1 DEF ListInv, MonitorKept
<1>3. \A u \in Threads : op'[u] = IF u = t THEN "removed" ELSE op[u]
  BY DEF RemoveItem, Proceed, ListInv, TypeOK
<1>4. Looking' = Looking \ {t} /\ t \in Looking
  BY <1>1, <1>2, <1>3 DEF Looking, Queued
<1>5. Signalling' = Signalling
  BY <1>1, <1>3 DEF Signalling
<1>6. Cardinality(Looking') = Cardinality(Looking) - 1
  BY <1>4, CountsAreNumbers, CountRemove, Zenon
<1>7. QED
  BY <1>1, <1>5, <1>6, CountsAreNumbers DEF Covered

LEMMA ReturnCovers ==
  ASSUME ListInv, Covered, NEW t \in Threads, Return(t)
  PROVE  Covered'
<1>1. op[t] \notin {"remove", "signal"} /\ UNCHANGED <<waitQueue, list>>
  BY DEF Return, Release
<1>2. \A u \in Threads : op'[u] = IF u = t THEN "none" ELSE op[u]
  BY DEF Return, ListInv, TypeOK
<1>3. Looking' = Looking /\ Signalling' = Signalling
  BY <1>1, <1>2 DEF Looking, Signalling, Queued
<1>4. QED
  BY <1>1, <1>3 DEF Covered

\* No thread sleeps in RemoveFront beside an item that nobody is coming for: the signal
\* of Append and the loop of RemoveFront suffice, whatever overtakes whom.
THEOREM WaitersRemembered == Spec => []NoForgottenWaiter
<1>1. Init => ListInv /\ Covered
  BY InitList DEF Init, MonitorInit, Covered
<1>2. ASSUME ListInv, Covered, [Next]_vars PROVE ListInv' /\ Covered'
  <2>1. ListInv'
    BY <1>2, NextKeepsList
  <2>2. ASSUME NEW t \in Threads, Work(t) PROVE Covered'
    BY <1>2, <2>1, <2>2, ContinueCovers, AppendItemCovers, SignalCovers, WaitCovers,
       RemoveItemCovers, ReturnCovers DEF Work
  <2>3. CASE UNCHANGED vars
    <3>1. UNCHANGED <<waitQueue, list, op>>
      BY <2>3 DEF vars, monitor, synchlist
    <3>2. Looking' = Looking /\ Signalling' = Signalling
      BY <3>1 DEF Looking, Signalling, Queued
    <3>3. QED
      BY <1>2, <2>1, <3>1, <3>2 DEF Covered
  <2>4. QED
    BY <1>2, <2>1, <2>2, <2>3, CallCovers DEF Next
<1>3. ListInv /\ Covered => NoForgottenWaiter
  BY DEF ListInv, Covered, NoForgottenWaiter, Looking, Signalling
<1>4. QED
  BY <1>1, <1>2, <1>3, PTL DEF Spec
=============================================================================
