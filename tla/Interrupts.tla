----------------------------- MODULE Interrupts -----------------------------
(***************************************************************************)
(* Simulated time: Interrupt (interrupt.cc) with its sorted list of        *)
(* pending interrupts, the timer and its alarm (timer.cc, alarm.cc), the   *)
(* latency model of the disk (disk.cc), and a device that asks for one     *)
(* interrupt a fixed delay ahead, as ConsoleOutput::PutChar does.          *)
(***************************************************************************)
EXTENDS Integers, Sequences

CONSTANTS UserTick, SystemTick, TimerTicks, ConsoleTime,
          RotationTime, SeekTime, SectorsPerTrack, NumTracks,
          MaxTicks                   \* simulated time of a run

\* The constants of stats.h and disk.h are positive, and a user instruction takes
\* no longer than a kernel one.
ASSUME ClockAssumption ==
    /\ {UserTick, SystemTick, TimerTicks, ConsoleTime, RotationTime,
        SectorsPerTrack, NumTracks} \subseteq Nat \ {0}
    /\ SeekTime \in Nat /\ MaxTicks \in Nat
    /\ UserTick <= SystemTick

VARIABLES totalTicks,                \* of stats; its split by mode is only printed
          pending,                   \* SortedList of [when, device, since]
          inHandler, yieldOnReturn, machineStatus,
          randomize,                 \* of the timer
          active, lastSector, bufferInit,   \* of the disk
          request                    \* history: the disk request, its latency, and
                                     \* since when the head is on its track

clockVars == <<totalTicks, pending, inHandler, yieldOnReturn, machineStatus,
               randomize, active, lastSector, bufferInit, request>>

\* The CPU is not in an interrupt handler, nor leaving one.
KernelRuns == /\ ~inHandler /\ ~yieldOnReturn
              /\ machineStatus # "halted" /\ totalTicks < MaxTicks

Sectors == 0 .. SectorsPerTrack * NumTracks - 1

\* A bug: an unsorted list.
InsertLast(list, item) == Append(list, item)

\* PendingCompare orders by time alone, and SortedList::Insert puts an item
\* before the first one that is bigger.
Insert(list, item) ==
    LET bigger == {n \in DOMAIN list : item.when < list[n].when}
        place == IF bigger = {} THEN Len(list) + 1
                 ELSE CHOOSE n \in bigger : \A m \in bigger : n <= m
    IN  SubSeq(list, 1, place - 1) \o <<item>> \o SubSeq(list, place, Len(list))

Schedule(list, device, fromNow) ==
    Insert(list, [when |-> totalTicks + fromNow, device |-> device,
                  since |-> totalTicks])

ClockInit ==
    /\ totalTicks = 0
    /\ randomize \in BOOLEAN
    /\ \E delay \in IF randomize THEN 1 .. 2 * TimerTicks ELSE {TimerTicks} :
          pending = <<[when |-> delay, device |-> "timer", since |-> 0]>>
    /\ inHandler = FALSE /\ yieldOnReturn = FALSE
    /\ machineStatus = "SystemMode"
    /\ active = FALSE /\ lastSector = 0 /\ bufferInit = 0
    /\ request = [sector |-> -1, since |-> 0]

-----------------------------------------------------------------------------
(***************************************************************************)
(* The disk: how long a request takes from where the head is now.          *)
(***************************************************************************)
TimeToSeek(newSector) ==
    LET apart == (newSector \div SectorsPerTrack) - (lastSector \div SectorsPerTrack)
        seek == (IF apart < 0 THEN -apart ELSE apart) * SeekTime
        over == (totalTicks + seek) % RotationTime
    IN  [seek |-> seek, rotation |-> IF over > 0 THEN RotationTime - over ELSE 0]

ModuloDiff(to, from) ==
    ((to % SectorsPerTrack) - (from % SectorsPerTrack) + SectorsPerTrack)
        % SectorsPerTrack

ComputeLatency(newSector, writing) ==
    LET t == TimeToSeek(newSector)
        timeAfter == totalTicks + t.seek + t.rotation
        buffered == /\ ~writing /\ t.seek = 0
                    /\ (timeAfter - bufferInit) \div RotationTime
                         > ModuloDiff(newSector, bufferInit \div RotationTime)
        around == ModuloDiff(newSector, timeAfter \div RotationTime) * RotationTime
    IN  IF buffered THEN RotationTime
        ELSE t.seek + t.rotation + around + RotationTime

\* A bug: the track buffer is not reset by a seek.
UpdateLastSector(newSector) == lastSector' = newSector /\ UNCHANGED bufferInit

UpdateLast(newSector) ==
    LET t == TimeToSeek(newSector)
    IN  /\ bufferInit' = IF t.seek # 0 THEN totalTicks + t.seek + t.rotation
                         ELSE bufferInit
        /\ lastSector' = newSector

\* Disk::ReadRequest and WriteRequest.
DiskRequest(sector, writing) ==
    LET ticks == ComputeLatency(sector, writing)
        t == TimeToSeek(sector)
    IN  /\ KernelRuns /\ ~active
        /\ active' = TRUE
        /\ UpdateLast(sector)
        /\ pending' = Schedule(pending, "disk", ticks)
        /\ request' = [sector |-> sector, writing |-> writing, at |-> totalTicks,
                       seek |-> t.seek, ticks |-> ticks,
                       since |-> IF t.seek = 0 THEN request.since
                                 ELSE totalTicks + t.seek + t.rotation]
        /\ UNCHANGED <<totalTicks, inHandler, yieldOnReturn, machineStatus,
                       randomize>>

\* ConsoleOutput::PutChar, whose caller waits for the interrupt.
PutChar ==
    /\ KernelRuns
    /\ \A n \in DOMAIN pending : pending[n].device # "console"
    /\ pending' = Schedule(pending, "console", ConsoleTime)
    /\ UNCHANGED <<totalTicks, inHandler, yieldOnReturn, machineStatus,
                   randomize, active, lastSector, bufferInit, request>>

-----------------------------------------------------------------------------
\* Interrupts are due once the clock stands at "now".
Due(list, now) == list # <<>> /\ Head(list).when <= now

\* OneTick: time advances by the mode the machine is in, and CheckIfDue(FALSE)
\* enters the handlers if the first interrupt is due.
OneTick(mode) ==
    LET tick == IF mode = "SystemMode" THEN SystemTick ELSE UserTick
    IN  /\ KernelRuns
        /\ machineStatus' = mode
        /\ totalTicks' = totalTicks + tick
        /\ inHandler' = Due(pending, totalTicks')
        /\ UNCHANGED <<pending, yieldOnReturn, randomize, active,
                       lastSector, bufferInit, request>>

\* Idle: CheckIfDue(TRUE) moves the clock to the first interrupt; without one
\* the machine halts.
Idle ==
    LET next == Head(pending).when
    IN  /\ KernelRuns
        /\ IF pending = <<>>
           THEN machineStatus' = "halted" /\ UNCHANGED <<totalTicks, inHandler>>
           ELSE /\ machineStatus' = "IdleMode" /\ inHandler' = TRUE
                /\ totalTicks' = IF next > totalTicks THEN next ELSE totalTicks
        /\ UNCHANGED <<pending, yieldOnReturn, randomize, active,
                       lastSector, bufferInit, request>>

\* Alarm::CallBack, then Timer::SetInterrupt.
TimerCallBack(rest) ==
    /\ yieldOnReturn' = (yieldOnReturn \/ machineStatus # "IdleMode")
    /\ \E delay \in IF randomize THEN 1 .. 2 * TimerTicks ELSE {TimerTicks} :
          pending' = Schedule(rest, "timer", delay)
    /\ UNCHANGED active

\* The loop of CheckIfDue: take the first interrupt, call its device, and go
\* on while the next one is due.  Idle returns to SystemMode.
CallBack ==
    LET next == Head(pending)
        rest == Tail(pending)
    IN  /\ inHandler
        /\ \/ next.device = "timer" /\ TimerCallBack(rest) /\ UNCHANGED request
           \/ /\ next.device = "disk" /\ active' = FALSE /\ request' = [sector |-> -1, since |-> request.since]
              /\ pending' = rest /\ UNCHANGED yieldOnReturn
           \/ /\ next.device = "console"
              /\ pending' = rest /\ UNCHANGED <<yieldOnReturn, active, request>>
        /\ inHandler' = Due(pending', totalTicks)
        /\ machineStatus' = IF machineStatus = "IdleMode" /\ ~inHandler'
                            THEN "SystemMode" ELSE machineStatus
        /\ UNCHANGED <<totalTicks, randomize, lastSector, bufferInit>>

\* The end of OneTick: the interrupted thread yields.
Yield == /\ ~inHandler /\ yieldOnReturn
         /\ yieldOnReturn' = FALSE
         /\ UNCHANGED <<totalTicks, pending, inHandler, machineStatus,
                        randomize, active, lastSector, bufferInit, request>>

ClockNext == \/ OneTick("SystemMode") \/ OneTick("UserMode")
             \/ Idle \/ CallBack \/ Yield \/ PutChar
             \/ \E s \in Sectors, w \in BOOLEAN : DiskRequest(s, w)

ClockSpec == ClockInit /\ [][ClockNext]_clockVars

-----------------------------------------------------------------------------
PendingInterrupt == [when : Nat, device : {"timer", "disk", "console"}, since : Nat]

ClockTypeOK ==
    /\ totalTicks \in Nat
    /\ pending \in Seq(PendingInterrupt)
    /\ {inHandler, yieldOnReturn, randomize, active} \subseteq BOOLEAN
    /\ machineStatus \in {"SystemMode", "UserMode", "IdleMode", "halted"}
    /\ lastSector \in Sectors /\ bufferInit \in Nat

\* Interrupts reach their handlers in the order of their times, and in the
\* order they were scheduled in when these are equal; never early, and no later
\* than the tick that made them due (not late at all on an idle machine).  The
\* timer always has its next interrupt pending, so Idle never halts.
ClockOrder ==
    /\ ClockTypeOK
    /\ \A m, n \in DOMAIN pending :
          m < n => \/ pending[m].when < pending[n].when
                   \/ pending[m].when = pending[n].when /\ pending[m].since <= pending[n].since
    /\ inHandler => /\ Head(pending).when <= totalTicks
                    /\ totalTicks - Head(pending).when
                         <= IF machineStatus = "IdleMode" THEN 0 ELSE SystemTick - 1
    /\ ~inHandler => \A n \in DOMAIN pending : pending[n].when > totalTicks
    /\ \E n \in DOMAIN pending : pending[n].device = "timer"

\* A disk request ends at the moment its sector has just passed under the
\* head, at the first such moment after the seek; a read that ComputeLatency
\* takes from the track buffer is of a sector that passed since the head came
\* to the track.
DiskTiming ==
    LET r == request
        s == r.sector % SectorsPerTrack
        Passes(t) == t % RotationTime = 0 /\ (t \div RotationTime) % SectorsPerTrack = s
        arrived == r.at + r.seek
        ends == r.at + r.ticks
    IN  r.sector # -1 =>
          \/ /\ Passes(ends - RotationTime) /\ ends - RotationTime >= arrived
             /\ \A t \in arrived .. ends - RotationTime - 1 : ~Passes(t)
          \/ /\ ~r.writing /\ r.seek = 0 /\ r.ticks = RotationTime
             /\ \E t \in r.since .. r.at - 1 : Passes(t)
=============================================================================
