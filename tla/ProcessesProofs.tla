-------------------------- MODULE ProcessesProofs ---------------------------
(***************************************************************************)
(* Proofs about Processes, for any number of slots: the slots of the table *)
(* and the PCBs agree, and a Join returns after the Exit of the process it *)
(* waited for, whatever the programs do.  If every program joins each of   *)
(* its children once before it exits, no process outlives its parent and   *)
(* no call of the table fails.                                             *)
(***************************************************************************)
EXTENDS Processes, TLAPS

-----------------------------------------------------------------------------
(* The inductive invariant *)

\* A slot is taken exactly while it has a PCB, and only ExecUpdate has taken one for a
\* thread that does not exist yet.
Table ==
  /\ \A s \in Slots : s \in bm <=> Live(s)
  /\ \A s \in Slots : pc[s] # "none" => s \in bm
  /\ \A s \in Slots : s \in bm /\ pc[s] = "none" =>
       \E p \in Slots : pc[p] = "fork" /\ target[p] = s

\* Where a thread holds bmsem
InTable == Execing \ {"exec"}

\* One thread at a time holds bmsem, and it is free otherwise.
Turn ==
  /\ \A p, q \in Slots : pc[p] \in InTable /\ pc[q] \in InTable => p = q
  /\ bmsem = IF \E p \in Slots : pc[p] \in InTable THEN 0 ELSE 1

\* The PCBs that a system call is about to use exist.
Pointers ==
  \A p \in Slots :
    /\ pc[p] = "execEnd" => target[p] \in Slots
    /\ pc[p] \in {"fork", "forked", "join"} => Live(target[p])
    /\ pc[p] = "fork" => pc[target[p]] = "none"
    /\ pc[p] \in {"inc", "counting"} => processID(p) = p
    /\ pc[p] \in {"dec", "discounting"} => Live(pcb[p].parentID)

\* joinsem and exitsem hold at most one unit between them, and only for a process that is in
\* Exit and has not been released by the Join that waited for it.
Handshake ==
  /\ \A c \in Slots : Live(c) =>
       \/ pcb[c].joinsem = 0 /\ pcb[c].exitsem = 0
       \/ /\ pc[c] = "exit" /\ pcb[c].joinsem + pcb[c].exitsem = 1
          /\ \A q \in Slots : ~(pc[q] = "joined" /\ target[q] = c)
  /\ \A c \in Slots : pc[c] \in {"dec", "discounting", "release", "exit"} => exitCode[c] = 0

Inv == TypeOK /\ Table /\ Turn /\ Pointers /\ JoinAfterExit /\ Handshake

\* Slot 0 is in the table, and the null pointer is no slot.
LEMMA SlotFacts == 0 \in Slots /\ Slots \subseteq Int /\ NULL \notin Int
  BY ProcessesAssumption DEF Slots

\* The constructor of PCB makes a PCB.
LEMMA NewPCBType ==
  ASSUME NEW id \in Int
  PROVE NewPCB(id) \in PCBs /\ NewPCB(id) # NULL
<1>1. NewPCB(id) \in PCBs
  BY DEF NewPCB, PCBs
<1> QED BY <1>1, NullAssumption

\* PTable::PTable
LEMMA InitInv == Init => Inv
<1> SUFFICES ASSUME Init PROVE Inv OBVIOUS
<1> USE SlotFacts
<1>1. \A s \in Slots : (s = 0 => pcb[s] = NewPCB(-1) /\ pc[s] = "user")
                     /\ (s # 0 => pcb[s] = NULL /\ pc[s] = "none")
  BY DEF Init
<1>2. NewPCB(-1) \in PCBs /\ NewPCB(-1) # NULL
  BY NewPCBType
<1>3. TypeOK
  BY <1>2, ProcessesAssumption DEF Init, TypeOK, Points, Execing, Joining, Exiting
<1>4. Table
  BY <1>1, <1>2 DEF Init, Table, Live, Present, NewPCB
<1>5. Turn /\ Pointers /\ JoinAfterExit
  BY <1>1 DEF Init, Turn, Pointers, JoinAfterExit, InTable, Execing
<1>6. Handshake
  BY <1>1, <1>2 DEF Init, Handshake, Live, Present, NewPCB
<1> QED BY <1>3, <1>4, <1>5, <1>6 DEF Inv

\* Only the machine's state changes.
LEMMA FaultStep ==
  ASSUME Inv, machine' \in {"running", "halted", "null pcb", "deleted semaphore",
                            "semaphore in use", "bitmap range"},
         UNCHANGED <<bm, bmsem, pcb, pc, target, program>>
  PROVE Inv'
<1> USE DEF Inv, program
<1>1. TypeOK'
  BY Zenon DEF TypeOK
<1>2. \A s : Live(s)' <=> Live(s)
  BY Zenon DEF Live, Present
<1>3. Table' /\ Turn'
  BY <1>2, Zenon DEF Table, Turn
<1>4. Pointers' /\ JoinAfterExit' /\ Handshake'
  BY <1>2, Zenon DEF Pointers, JoinAfterExit, Handshake, processID
<1> QED BY <1>1, <1>3, <1>4, Zenon

\* The PCBs but for the fields multex and numwait
SamePCBs ==
  /\ pcb' \in [Slots -> PCBs \cup {NULL}]
  /\ \A s \in Slots :
       /\ pcb'[s] = NULL <=> pcb[s] = NULL
       /\ pcb'[s].deleted = pcb[s].deleted /\ pcb'[s].parentID = pcb[s].parentID
       /\ pcb'[s].joinsem = pcb[s].joinsem /\ pcb'[s].exitsem = pcb[s].exitsem

\* Such a change leaves the same slots live.
LEMMA SameLive == ASSUME SamePCBs PROVE \A s : Live(s)' <=> Live(s)
  BY DEF SamePCBs, Live, Present

\* The moves that change no slot, target or semaphore but multex
Moves == {<<"user", "exec">>, <<"start", "user">>, <<"forked", "execEnd">>,
          <<"inc", "counting">>, <<"counting", "joinCall">>, <<"joinCall", "join">>,
          <<"dec", "discounting">>, <<"discounting", "release">>}

\* Such a move keeps the invariant.
LEMMA MoveStep ==
  ASSUME Inv, NEW p \in Slots, NEW a, NEW b, <<a, b>> \in Moves, Goto(p, a, b),
         b = "join" => Live(target[p]),
         SamePCBs, UNCHANGED <<bm, bmsem, target, program, machine>>
  PROVE Inv'
<1> USE SameLive DEF Goto, Moves
<1>1. /\ pc[p] = a /\ pc'[p] = b
      /\ \A q \in Slots \ {p} : pc'[q] = pc[q]
      /\ DOMAIN pc' = Slots
  BY Zenon DEF Inv, TypeOK
<1>2. TypeOK'
  BY Zenon DEF Inv, TypeOK, SamePCBs, program, Points, Execing, Joining, Exiting
<1>3. Table'
  BY <1>1 DEF Inv, Table
<1>4. Turn'
  BY <1>1 DEF Inv, Turn, InTable, Execing
<1>5. Pointers'
  <2> SUFFICES ASSUME NEW q \in Slots
      PROVE /\ pc'[q] = "execEnd" => target[q] \in Slots
            /\ pc'[q] \in {"fork", "forked", "join"} => Live(target[q])
            /\ pc'[q] = "fork" => pc'[target[q]] = "none"
            /\ pc'[q] \in {"inc", "counting"} => processID(q) = q
            /\ pc'[q] \in {"dec", "discounting"} => Live(pcb[q].parentID)
    BY SMT DEF Pointers, processID, program, SamePCBs
  <2>1. pc'[q] = "execEnd" => target[q] \in Slots
    BY <1>1 DEF Inv, Pointers, Live, Present
  <2>2. pc'[q] = "fork" => pc'[target[q]] = "none"
    BY <1>1 DEF Inv, Pointers, Live, Present
  <2>3. pc'[q] \in {"inc", "counting"} => processID(q) = q
    BY <1>1 DEF Inv, Pointers
  <2> QED BY <2>1, <2>2, <2>3, <1>1 DEF Inv, Pointers
<1>6. JoinAfterExit'
  BY <1>1 DEF Inv, JoinAfterExit, program, Live, Present
<1>7. Handshake'
  BY <1>1 DEF Inv, Handshake, program, SamePCBs
<1> QED BY <1>2, <1>3, <1>4, <1>5, <1>6, <1>7 DEF Inv

\* A change of the fields multex and numwait of one PCB
LEMMA FieldChange ==
  ASSUME TypeOK, NEW id \in Slots, pcb[id] # NULL, NEW m \in Nat, NEW n \in Nat,
         \/ pcb' = [pcb EXCEPT ![id].multex = m]
         \/ pcb' = [pcb EXCEPT ![id].numwait = n, ![id].multex = m]
  PROVE SamePCBs
<1>0. pcb[id] \in PCBs
  BY Zenon DEF TypeOK
<1>1. PICK r \in PCBs : pcb' = [pcb EXCEPT ![id] = r]
         /\ r.deleted = pcb[id].deleted /\ r.parentID = pcb[id].parentID
         /\ r.joinsem = pcb[id].joinsem /\ r.exitsem = pcb[id].exitsem
  <2>1. CASE pcb' = [pcb EXCEPT ![id].multex = m]
    BY <1>0, <2>1, Zenon DEF PCBs
  <2>2. CASE pcb' = [pcb EXCEPT ![id].numwait = n, ![id].multex = m]
    <3>1. [pcb[id] EXCEPT !.numwait = n, !.multex = m] \in PCBs
      BY <1>0, Zenon DEF PCBs
    <3>2. pcb' = [pcb EXCEPT ![id] = [pcb[id] EXCEPT !.numwait = n, !.multex = m]]
      BY <2>2, Zenon DEF TypeOK
    <3> QED BY <1>0, <3>1, <3>2, Zenon DEF PCBs
  <2> QED BY <2>1, <2>2
<1> QED BY <1>1, NullAssumption, Zenon DEF TypeOK, SamePCBs

\* PTable::ExecUpdate takes bmsem.
LEMMA ExecPStep ==
  ASSUME Inv, NEW p \in Slots, ExecP(p)
  PROVE Inv'
<1> USE DEF ExecP, Goto
<1>1. /\ pc[p] = "exec" /\ pc'[p] = "slot"
      /\ \A q \in Slots \ {p} : pc'[q] = pc[q]
  BY Zenon DEF Inv, TypeOK
<1>2. \A s : Live(s)' <=> Live(s)
  BY DEF Live, Present
<1>3. TypeOK'
  <2>1. pc' \in [Slots -> Points]
    BY Zenon DEF Inv, TypeOK, Points, Execing
  <2>2. bmsem' \in Nat
    <3>1. bmsem \in Nat /\ bmsem # 0 /\ bmsem' = bmsem - 1
      BY Zenon DEF Inv, TypeOK
    <3> QED BY <3>1
  <2> QED BY <2>1, <2>2, Zenon DEF Inv, TypeOK, program
<1>4. Table'
  BY <1>1, <1>2 DEF Inv, Table
<1>5. Turn'
  BY <1>1 DEF Inv, Turn, InTable, Execing
<1>6. Pointers'
  BY <1>1, <1>2 DEF Inv, Pointers, processID, program, Live, Present
<1>7. JoinAfterExit' /\ Handshake'
  BY <1>1, <1>2 DEF Inv, JoinAfterExit, Handshake, program, Live, Present
<1> QED BY <1>3, <1>4, <1>5, <1>6, <1>7 DEF Inv

\* ExecUpdate finds no free slot, and gives bmsem back.
LEMMA ExecFailsStep ==
  ASSUME Inv, NEW p \in Slots, ExecFails(p)
  PROVE Inv'
<1> USE DEF ExecFails, Goto
<1>1. /\ pc[p] = "slot" /\ pc'[p] = "user"
      /\ \A q \in Slots \ {p} : pc'[q] = pc[q]
  BY Zenon DEF Inv, TypeOK
<1>2. \A s : Live(s)' <=> Live(s)
  BY DEF Live, Present
<1>3. TypeOK'
  <2>1. pc' \in [Slots -> Points]
    BY Zenon DEF Inv, TypeOK, Points, Execing
  <2>2. bmsem' \in Nat
    <3>1. bmsem \in Nat /\ bmsem' = bmsem + 1
      BY Zenon DEF Inv, TypeOK
    <3> QED BY <3>1
  <2> QED BY <2>1, <2>2, Zenon DEF Inv, TypeOK, program
<1>4. Table'
  BY <1>1, <1>2 DEF Inv, Table
<1>5. Turn'
  BY <1>1 DEF Inv, Turn, InTable, Execing
<1>6. Pointers'
  BY <1>1, <1>2 DEF Inv, Pointers, processID, program, Live, Present
<1>7. JoinAfterExit' /\ Handshake'
  BY <1>1, <1>2 DEF Inv, JoinAfterExit, Handshake, program, Live, Present
<1> QED BY <1>3, <1>4, <1>5, <1>6, <1>7 DEF Inv

\* ExecUpdate takes a free slot and makes the PCB.
LEMMA ExecSlotStep ==
  ASSUME Inv, NEW p \in Slots, ExecSlot(p)
  PROVE Inv'
<1> USE DEF ExecSlot, Goto
<1>1. /\ pc[p] = "slot" /\ pc'[p] = "fork"
      /\ \A q \in Slots \ {p} : pc'[q] = pc[q]
  BY Zenon DEF Inv, TypeOK
<1>2. PICK s \in Slots \ bm :
        /\ bm' = bm \cup {s}
        /\ pcb' = [pcb EXCEPT ![s] = [NewPCB(processID(p)) EXCEPT !.multex = 0]]
        /\ target' = [target EXCEPT ![p] = s]
  BY Zenon
<1> DEFINE r == [NewPCB(processID(p)) EXCEPT !.multex = 0]
<1>3. r \in PCBs /\ r # NULL /\ ~r.deleted /\ r.joinsem = 0 /\ r.exitsem = 0
  <2>1. processID(p) \in Int
    BY SlotFacts, ProcessesAssumption, Zenon DEF Inv, TypeOK, processID
  <2>2. r \in PCBs /\ ~r.deleted /\ r.joinsem = 0 /\ r.exitsem = 0
    BY <2>1, Zenon DEF NewPCB, PCBs
  <2> QED BY <2>2, NullAssumption
<1>4. /\ pcb'[s] = r /\ \A u \in Slots \ {s} : pcb'[u] = pcb[u]
      /\ target'[p] = s /\ \A u \in Slots \ {p} : target'[u] = target[u]
  BY <1>2, Zenon DEF Inv, TypeOK
<1> HIDE DEF r
<1>5. TypeOK'
  <2>1. pc' \in [Slots -> Points] /\ bm' \in SUBSET Slots
    BY <1>2, Zenon DEF Inv, TypeOK, Points, Execing
  <2>2. pcb' \in [Slots -> PCBs \cup {NULL}]
    BY <1>2, <1>3, Zenon DEF Inv, TypeOK, r
  <2>3. target' \in [Slots -> Int \cup {NULL}]
    BY <1>2, SlotFacts, Zenon DEF Inv, TypeOK
  <2> QED BY <2>1, <2>2, <2>3, Zenon DEF Inv, TypeOK, program
<1>6. /\ Live(s)' /\ \A u : u # s => (Live(u)' <=> Live(u))
      /\ ~Live(s) /\ pc[s] = "none" /\ s # p
  BY <1>1, <1>2, <1>3, <1>4, Zenon DEF Inv, Table, Live, Present
<1>7. Table'
  BY <1>1, <1>2, <1>4, <1>6 DEF Inv, Table, Turn, InTable, Execing
<1>8. Turn'
  BY <1>1 DEF Inv, Turn, InTable, Execing
<1>9. Pointers'
  BY <1>1, <1>4, <1>6 DEF Inv, Table, Pointers, Turn, InTable, Execing, processID, program
<1>10. JoinAfterExit'
  BY <1>1, <1>4, <1>6 DEF Inv, JoinAfterExit, program, Live, Present
<1>11. Handshake'
  <2>1. \A q \in Slots : pc[q] = "joined" => target[q] # s
    BY <1>6 DEF Inv, JoinAfterExit
  <2>2. \A c \in Slots : pc'[c] \in {"dec", "discounting", "release", "exit"}
                            => exitCode'[c] = 0
    BY <1>1 DEF Inv, Handshake, program
  <2>3. ASSUME NEW c \in Slots, Live(c)'
        PROVE \/ pcb'[c].joinsem = 0 /\ pcb'[c].exitsem = 0
              \/ /\ pc'[c] = "exit" /\ pcb'[c].joinsem + pcb'[c].exitsem = 1
                 /\ \A q \in Slots : ~(pc'[q] = "joined" /\ target'[q] = c)
    <3>1. CASE c = s
      BY <1>3, <1>4, <3>1, Zenon
    <3>2. CASE c # s
      <4>1. Live(c) /\ c \in Slots \ {s} /\ pcb'[c] = pcb[c]
        BY <1>4, <1>6, <2>3, <3>2
      <4>2. CASE pcb[c].joinsem = 0 /\ pcb[c].exitsem = 0
        BY <4>1, <4>2, Zenon
      <4>3. CASE /\ pc[c] = "exit" /\ pcb[c].joinsem + pcb[c].exitsem = 1
                 /\ \A q \in Slots : ~(pc[q] = "joined" /\ target[q] = c)
        BY <1>1, <1>4, <4>1, <4>3, Zenon
      <4> QED BY <4>1, <4>2, <4>3 DEF Inv, Handshake
    <3> QED BY <3>1, <3>2
  <2> QED BY <2>2, <2>3 DEF Handshake
<1> QED BY <1>5, <1>7, <1>8, <1>9, <1>10, <1>11 DEF Inv

\* PCB::Exec makes the thread of the new process.
LEMMA ExecForkStep ==
  ASSUME Inv, NEW p \in Slots, ExecFork(p)
  PROVE Inv'
<1> USE DEF ExecFork
<1>0. target[p] \in Slots /\ Live(target[p]) /\ pc[target[p]] = "none" /\ pc[p] = "fork"
      /\ target[p] # p
  BY DEF Inv, Pointers, Live, Present
<1>1. /\ pc'[p] = "forked" /\ pc'[target[p]] = "start"
      /\ \A q \in Slots \ {p, target[p]} : pc'[q] = pc[q]
      /\ \A q \in Slots \ {target[p]} : exitCode'[q] = exitCode[q]
  BY <1>0, Zenon DEF Inv, TypeOK
<1>2. \A s : Live(s)' <=> Live(s)
  BY DEF Live, Present
<1>3. TypeOK'
  BY <1>0, Zenon DEF Inv, TypeOK, Points, Execing
<1>4. Table'
  <2>1. \A q \in Slots : pc[q] = "fork" => q = p
    BY <1>0 DEF Inv, Turn, InTable, Execing
  <2> QED BY <1>0, <1>1, <1>2, <2>1, Zenon DEF Inv, Table
<1>5. Turn'
  <2>1. \A q \in Slots : pc'[q] \in InTable <=> pc[q] \in InTable
    BY <1>0, <1>1, Zenon DEF InTable, Execing
  <2> QED BY <2>1, Zenon DEF Inv, Turn
<1>6. Pointers'
  BY <1>0, <1>1, <1>2, Zenon DEF Inv, Pointers, Turn, InTable, Execing, processID
<1>7. JoinAfterExit'
  <2>1. \A q \in Slots : pc'[q] = "joined" =>
          q # p /\ pc[q] = "joined" /\ target[q] \in Slots /\ target[q] # target[p]
    BY <1>0, <1>1 DEF Inv, JoinAfterExit, Live, Present
  <2>2. \A q \in Slots : pc[q] = "joined" =>
          Live(target[q]) /\ exitCode[target[q]] = 0 /\ pc[target[q]] = "exit"
    BY DEF Inv, JoinAfterExit
  <2> SUFFICES ASSUME NEW q \in Slots, pc'[q] = "joined"
      PROVE /\ Live(target[q])
            /\ exitCode'[target[q]] = 0 /\ pc'[target[q]] = "exit"
            /\ \A u \in Slots : pc'[u] = "joined" /\ target[u] = target[q] => u = q
    BY <1>2, Zenon DEF JoinAfterExit
  <2>3. exitCode'[target[q]] = 0 /\ pc'[target[q]] = "exit"
    <3>1. target[q] \in Slots \ {p, target[p]}
      BY <1>0, <2>1, <2>2, Zenon
    <3> QED BY ONLY <1>1, <2>1, <2>2, <3>1, pc'[q] = "joined", q \in Slots
  <2> QED BY <2>1, <2>2, <2>3, Zenon DEF Inv, JoinAfterExit
<1>8. Handshake'
  BY <1>0, <1>1, <1>2, Zenon DEF Inv, Handshake
<1> QED BY <1>3, <1>4, <1>5, <1>6, <1>7, <1>8 DEF Inv

\* ExecUpdate gives bmsem back and returns the id.
LEMMA ExecReturnStep ==
  ASSUME Inv, NEW p \in Slots, ExecReturn(p)
  PROVE Inv'
<1>1. /\ pc[p] = "execEnd" /\ pc'[p] = "user" /\ pc' = [pc EXCEPT ![p] = "user"]
      /\ \A q \in Slots \ {p} : pc'[q] = pc[q] /\ target'[q] = target[q]
  BY Zenon DEF Inv, TypeOK, ExecReturn, Goto
<1>2. UNCHANGED <<mainID, bm, pcb, exitCode, machine>> /\ \A s : Live(s)' <=> Live(s)
  BY DEF ExecReturn, Live, Present
<1>3. TypeOK'
  <2>1. pc' \in [Slots -> Points]
    BY <1>1, Zenon DEF Inv, TypeOK, Points
  <2>2. bmsem' \in Nat
    <3>1. bmsem \in Nat /\ bmsem' = bmsem + 1
      BY Zenon DEF Inv, TypeOK, ExecReturn
    <3> QED BY <3>1
  <2>3. children' \in [Slots -> SUBSET Slots]
    <3>1. target[p] \in Slots
      BY <1>1 DEF Inv, Pointers
    <3> QED BY <3>1, Zenon DEF Inv, TypeOK, ExecReturn
  <2>4. target' \in [Slots -> Int \cup {NULL}]
    BY Zenon DEF Inv, TypeOK, ExecReturn
  <2> QED BY <1>2, <2>1, <2>2, <2>3, <2>4, Zenon DEF Inv, TypeOK
<1>4. Table'
  BY <1>1, <1>2 DEF Inv, Table
<1>5. Turn'
  <2>1. \A q \in Slots : pc[q] \in InTable => q = p
    BY <1>1 DEF Inv, Turn, InTable, Execing
  <2>2. bmsem = 0
    BY <1>1 DEF Inv, Turn, InTable, Execing
  <2>3. \A q \in Slots : pc'[q] \notin InTable
    BY <1>1, <2>1 DEF InTable, Execing
  <2> QED BY <2>2, <2>3 DEF Turn, ExecReturn
<1>6. Pointers'
  BY <1>1, <1>2 DEF Inv, Pointers, processID, Live, Present
<1>7. JoinAfterExit' /\ Handshake'
  BY <1>1, <1>2 DEF Inv, JoinAfterExit, Handshake, Live, Present
<1> QED BY <1>3, <1>4, <1>5, <1>6, <1>7 DEF Inv

\* The processID of a thread that is in the table is its slot.
LEMMA OwnID ==
  ASSUME TypeOK, NEW p \in Slots, processID(p) \in Slots
  PROVE processID(p) = p
  BY ProcessesAssumption, Zenon DEF TypeOK, processID

\* PTable::JoinUpdate checks the id and the caller.
LEMMA CallJoinStep ==
  ASSUME Inv, NEW p \in Slots, NEW id \in 0..NumSlots, CallJoin(p, id)
  PROVE Inv'
<1>0. CASE Fault("null pcb")
  BY <1>0, FaultStep, Zenon DEF Fault
<1> SUFFICES ASSUME Present(id), Present(processID(p)), Goto(p, "user", "inc"),
                    target' = [target EXCEPT ![p] = id],
                    UNCHANGED <<bm, bmsem, pcb, program, machine>>
             PROVE Inv'
  BY <1>0, Zenon DEF CallJoin
<1>1. /\ pc[p] = "user" /\ pc'[p] = "inc" /\ pc' = [pc EXCEPT ![p] = "inc"]
      /\ \A q \in Slots \ {p} : pc'[q] = pc[q] /\ target'[q] = target[q]
  BY Zenon DEF Inv, TypeOK, Goto
<1>2. UNCHANGED <<mainID, bm, pcb, exitCode, machine>> /\ \A s : Live(s)' <=> Live(s)
  BY DEF program, Live, Present
<1>3. TypeOK'
  <2>1. pc' \in [Slots -> Points]
    BY <1>1, Zenon DEF Inv, TypeOK, Points, Joining
  <2>2. target' \in [Slots -> Int \cup {NULL}]
    <3>1. id \in Int
      BY ProcessesAssumption
    <3> QED BY <3>1, Zenon DEF Inv, TypeOK
  <2> QED BY <2>1, <2>2, Zenon DEF Inv, TypeOK, program
<1>4. Table'
  BY <1>1, <1>2 DEF Inv, Table
<1>5. Turn'
  BY <1>1 DEF Inv, Turn, InTable, Execing
<1>6. Pointers'
  <2>1. processID(p) = p
    BY OwnID DEF Inv, Present
  <2> QED BY <1>1, <1>2, <2>1 DEF Inv, Pointers, processID, Live, Present
<1>7. JoinAfterExit' /\ Handshake'
  BY <1>1, <1>2 DEF Inv, JoinAfterExit, Handshake, Live, Present
<1> QED BY <1>3, <1>4, <1>5, <1>6, <1>7 DEF Inv

\* The semaphores joinsem and exitsem of the PCB in slot c get the values j and e.
SemaphoresSet(c, j, e) ==
  /\ pcb' \in [Slots -> PCBs \cup {NULL}]
  /\ \A s : Live(s)' <=> Live(s)
  /\ \A s \in Slots : pcb[s] # NULL => pcb'[s].parentID = pcb[s].parentID
  /\ \A s \in Slots \ {c} : pcb'[s] = pcb[s]
  /\ pcb'[c].joinsem = j /\ pcb'[c].exitsem = e

\* A semaphore of one PCB changes.
LEMMA SemaphoreChange ==
  ASSUME TypeOK, NEW c \in Slots, Live(c), NEW n \in Nat
  PROVE /\ pcb' = [pcb EXCEPT ![c].joinsem = n] => SemaphoresSet(c, n, pcb[c].exitsem)
        /\ pcb' = [pcb EXCEPT ![c].exitsem = n] => SemaphoresSet(c, pcb[c].joinsem, n)
<1>0. pcb[c] \in PCBs
  BY Zenon DEF TypeOK, Live, Present
<1>1. ASSUME pcb' = [pcb EXCEPT ![c].joinsem = n]
      PROVE SemaphoresSet(c, n, pcb[c].exitsem)
  <2> DEFINE r == [pcb[c] EXCEPT !.joinsem = n]
  <2>1. /\ r \in PCBs /\ r.deleted = pcb[c].deleted /\ r.parentID = pcb[c].parentID
        /\ r.joinsem = n /\ r.exitsem = pcb[c].exitsem
    BY <1>0 DEF PCBs
  <2>2. pcb' = [pcb EXCEPT ![c] = r]
    BY <1>1, Zenon DEF TypeOK
  <2> HIDE DEF r
  <2> QED BY <1>0, <2>1, <2>2, NullAssumption, Zenon DEF TypeOK, Live, Present, SemaphoresSet
<1>2. ASSUME pcb' = [pcb EXCEPT ![c].exitsem = n]
      PROVE SemaphoresSet(c, pcb[c].joinsem, n)
  <2> DEFINE r == [pcb[c] EXCEPT !.exitsem = n]
  <2>1. /\ r \in PCBs /\ r.deleted = pcb[c].deleted /\ r.parentID = pcb[c].parentID
        /\ r.exitsem = n /\ r.joinsem = pcb[c].joinsem
    BY <1>0 DEF PCBs
  <2>2. pcb' = [pcb EXCEPT ![c] = r]
    BY <1>2, Zenon DEF TypeOK
  <2> HIDE DEF r
  <2> QED BY <1>0, <2>1, <2>2, NullAssumption, Zenon DEF TypeOK, Live, Present, SemaphoresSet
<1> QED BY <1>1, <1>2

\* PCB::JoinWait has its unit of joinsem.
LEMMA JoinWaitStep ==
  ASSUME Inv, NEW p \in Slots, JoinWait(p)
  PROVE Inv'
<1>1. /\ pc[p] = "join" /\ pc'[p] = "joined" /\ pc' = [pc EXCEPT ![p] = "joined"]
      /\ \A q \in Slots \ {p} : pc'[q] = pc[q]
  BY Zenon DEF Inv, TypeOK, JoinWait, Goto
<1>2. UNCHANGED <<mainID, bm, bmsem, target, children, exitCode, machine>>
  BY DEF JoinWait, program
<1>3. PICK c \in Slots : c = target[p] /\ Live(c) /\ pcb[c] \in PCBs
  <2>1. target[p] \in Slots /\ Live(target[p])
    BY <1>1 DEF Inv, Pointers, Live, Present
  <2>2. pcb[target[p]] \in PCBs
    BY <2>1, Zenon DEF Inv, TypeOK, Live, Present
  <2> QED BY <2>1, <2>2
<1>4. /\ pcb[c].joinsem = 1 /\ pcb[c].exitsem = 0 /\ pc[c] = "exit" /\ c # p
      /\ \A q \in Slots : ~(pc[q] = "joined" /\ target[q] = c)
  <2>1. pcb[c].joinsem # 0 /\ pcb[c].joinsem \in Nat /\ pcb[c].exitsem \in Nat
    BY <1>3 DEF PCBs, JoinWait
  <2>2. /\ pc[c] = "exit" /\ pcb[c].joinsem + pcb[c].exitsem = 1
        /\ \A q \in Slots : ~(pc[q] = "joined" /\ target[q] = c)
    BY <1>3, <2>1 DEF Inv, Handshake
  <2> QED BY <1>1, <2>1, <2>2
<1>5. pcb' = [pcb EXCEPT ![c].joinsem = 0]
  BY <1>3, <1>4 DEF JoinWait
<1>6. SemaphoresSet(c, 0, 0)
  <2>1. SemaphoresSet(c, 0, pcb[c].exitsem)
    BY <1>3, <1>5, SemaphoreChange, Zenon DEF Inv
  <2> QED BY <1>4, <2>1
<1>7. TypeOK'
  <2>1. pc' \in [Slots -> Points]
    BY <1>1, Zenon DEF Inv, TypeOK, Points, Joining
  <2> QED BY <1>2, <1>6, <2>1, Zenon DEF SemaphoresSet, Inv, TypeOK
<1>8. Table' /\ Turn'
  BY <1>1, <1>2, <1>6 DEF SemaphoresSet, Inv, Table, Turn, InTable, Execing
<1>9. Pointers'
  BY <1>1, <1>2, <1>6 DEF SemaphoresSet, Inv, Pointers, Table, processID, Live, Present
<1>10. JoinAfterExit'
  <2>1. exitCode[c] = 0
    BY <1>3, <1>4 DEF Inv, Handshake
  <2> QED BY <1>1, <1>2, <1>3, <1>4, <1>6, <2>1 DEF SemaphoresSet, Inv, JoinAfterExit, Live, Present
<1>11. Handshake'
  BY <1>1, <1>2, <1>3, <1>4, <1>6 DEF SemaphoresSet, Inv, Handshake
<1> QED BY <1>7, <1>8, <1>9, <1>10, <1>11 DEF Inv

\* PCB::ExitRelease lets the child go.
LEMMA ExitReleaseStep ==
  ASSUME Inv, NEW p \in Slots, ExitRelease(p)
  PROVE Inv'
<1>1. /\ pc[p] = "joined" /\ pc'[p] = "user" /\ pc' = [pc EXCEPT ![p] = "user"]
      /\ target'[p] = NULL /\ target' = [target EXCEPT ![p] = NULL]
      /\ \A q \in Slots \ {p} : pc'[q] = pc[q] /\ target'[q] = target[q]
  BY Zenon DEF Inv, TypeOK, ExitRelease, Goto
<1>2. UNCHANGED <<mainID, bm, bmsem, exitCode, machine>>
  BY DEF ExitRelease
<1>3. PICK c \in Slots :
        /\ c = target[p] /\ Live(c) /\ pcb[c] \in PCBs /\ pc[c] = "exit" /\ c # p
        /\ \A q \in Slots : pc[q] = "joined" /\ target[q] = c => q = p
  <2>1. /\ target[p] \in Slots /\ Live(target[p]) /\ pc[target[p]] = "exit"
        /\ \A q \in Slots : pc[q] = "joined" /\ target[q] = target[p] => q = p
    BY <1>1 DEF Inv, JoinAfterExit, Live, Present
  <2>2. pcb[target[p]] \in PCBs
    BY <2>1, Zenon DEF Inv, TypeOK, Live, Present
  <2> QED BY <1>1, <2>1, <2>2
<1>4. pcb[c].joinsem = 0 /\ pcb[c].exitsem = 0
  BY <1>1, <1>3 DEF Inv, Handshake
<1>5. pcb' = [pcb EXCEPT ![c].exitsem = 1]
  BY <1>3, <1>4 DEF ExitRelease
<1>6. SemaphoresSet(c, 0, 1)
  BY <1>3, <1>4, <1>5, SemaphoreChange, Zenon DEF Inv
<1>7. TypeOK'
  <2>1. pc' \in [Slots -> Points] /\ target' \in [Slots -> Int \cup {NULL}]
    BY <1>1, Zenon DEF Inv, TypeOK, Points
  <2>2. children' \in [Slots -> SUBSET Slots]
    BY Zenon DEF Inv, TypeOK, ExitRelease
  <2> QED BY <1>2, <1>6, <2>1, <2>2, Zenon DEF SemaphoresSet, Inv, TypeOK
<1>8. Table' /\ Turn'
  BY <1>1, <1>2, <1>6 DEF SemaphoresSet, Inv, Table, Turn, InTable, Execing
<1>9. Pointers'
  BY <1>1, <1>2, <1>6 DEF SemaphoresSet, Inv, Pointers, Table, processID, Live, Present
<1>10. JoinAfterExit'
  BY <1>1, <1>2, <1>6 DEF SemaphoresSet, Inv, JoinAfterExit, Live, Present
<1>11. Handshake'
  <2>1. \A q \in Slots : ~(pc'[q] = "joined" /\ target'[q] = c)
    BY <1>1, <1>3
  <2>2. pc'[c] = "exit"
    BY <1>1, <1>3
  <2> QED BY <1>1, <1>2, <1>3, <1>6, <2>1, <2>2 DEF SemaphoresSet, Inv, Handshake
<1> QED BY <1>7, <1>8, <1>9, <1>10, <1>11 DEF Inv

\* An exit code other than 0 is returned without an exit.
LEMMA ExitNonZeroStep ==
  ASSUME Inv, NEW p \in Slots, ExitNonZero(p)
  PROVE Inv'
<1>1. /\ pc[p] = "user" /\ exitCode' = [exitCode EXCEPT ![p] = 1]
      /\ UNCHANGED <<mainID, bm, bmsem, pcb, pc, target, children, machine>>
  BY DEF ExitNonZero, MayExit
<1>2. \A q \in Slots \ {p} : exitCode'[q] = exitCode[q]
  BY <1>1, Zenon DEF Inv, TypeOK
<1>3. TypeOK'
  BY <1>1, Zenon DEF Inv, TypeOK
<1>4. \A s : Live(s)' <=> Live(s)
  BY <1>1 DEF Live, Present
<1>5. Table' /\ Turn' /\ Pointers'
  BY <1>1, <1>4 DEF Inv, Table, Turn, Pointers, processID
<1>6. JoinAfterExit' /\ Handshake'
  BY <1>1, <1>2, <1>4 DEF Inv, JoinAfterExit, Handshake, Live, Present
<1> QED BY <1>3, <1>5, <1>6 DEF Inv

\* PTable::ExitUpdate begins, for a process other than main.
LEMMA CallExitStep ==
  ASSUME Inv, NEW p \in Slots, CallExit(p)
  PROVE Inv'
<1>0. CASE Fault("bitmap range") \/ Fault("null pcb") \/ Fault("deleted semaphore")
  BY <1>0, FaultStep, Zenon DEF Fault
<1> SUFFICES ASSUME Live(pcb[p].parentID), Goto(p, "user", "dec"),
                    exitCode' = [exitCode EXCEPT ![p] = 0],
                    UNCHANGED <<mainID, bm, bmsem, pcb, target, children, machine>>
             PROVE Inv'
  BY <1>0, Zenon DEF CallExit
<1>1. /\ pc[p] = "user" /\ pc'[p] = "dec" /\ pc' = [pc EXCEPT ![p] = "dec"]
      /\ exitCode'[p] = 0
      /\ \A q \in Slots \ {p} : pc'[q] = pc[q] /\ exitCode'[q] = exitCode[q]
  BY Zenon DEF Inv, TypeOK, Goto
<1>2. \A s : Live(s)' <=> Live(s)
  BY DEF Live, Present
<1>3. TypeOK'
  <2>1. pc' \in [Slots -> Points] /\ exitCode' \in [Slots -> {0, 1, NULL}]
    BY <1>1, Zenon DEF Inv, TypeOK, Points, Exiting
  <2> QED BY <2>1, Zenon DEF Inv, TypeOK
<1>4. Table' /\ Turn'
  BY <1>1, <1>2 DEF Inv, Table, Turn, InTable, Execing
<1>5. Pointers'
  BY <1>1, <1>2 DEF Inv, Pointers, processID, Live, Present
<1>6. JoinAfterExit' /\ Handshake'
  BY <1>1, <1>2 DEF Inv, JoinAfterExit, Handshake, Live, Present
<1> QED BY <1>3, <1>4, <1>5, <1>6 DEF Inv

\* PCB::JoinRelease lets the parent go on.
LEMMA JoinReleaseStep ==
  ASSUME Inv, NEW p \in Slots, JoinRelease(p)
  PROVE Inv'
<1>1. /\ pc[p] = "release" /\ pc'[p] = "exit" /\ pc' = [pc EXCEPT ![p] = "exit"]
      /\ \A q \in Slots \ {p} : pc'[q] = pc[q]
  BY Zenon DEF Inv, TypeOK, JoinRelease, Goto
<1>2. UNCHANGED <<mainID, bm, bmsem, target, children, exitCode, machine>>
  BY DEF JoinRelease, program
<1>3. Live(p)
  BY <1>1 DEF Inv, Table
<1>4. /\ pcb[p].joinsem = 0 /\ pcb[p].exitsem = 0
      /\ \A q \in Slots : ~(pc[q] = "joined" /\ target[q] = p)
  BY <1>1, <1>3 DEF Inv, Handshake, JoinAfterExit
<1>5. SemaphoresSet(p, 1, 0)
  <2>1. pcb' = [pcb EXCEPT ![p].joinsem = 1]
    BY <1>4 DEF JoinRelease
  <2>2. SemaphoresSet(p, 1, pcb[p].exitsem)
    BY <1>3, <2>1, SemaphoreChange, Zenon DEF Inv
  <2> QED BY <1>4, <2>2
<1>6. TypeOK'
  <2>1. pc' \in [Slots -> Points]
    BY <1>1, Zenon DEF Inv, TypeOK, Points, Exiting
  <2> QED BY <1>2, <1>5, <2>1, Zenon DEF SemaphoresSet, Inv, TypeOK
<1>7. Table' /\ Turn'
  BY <1>1, <1>2, <1>5 DEF SemaphoresSet, Inv, Table, Turn, InTable, Execing
<1>8. Pointers'
  BY <1>1, <1>2, <1>5 DEF SemaphoresSet, Inv, Pointers, Table, processID, Live, Present
<1>9. JoinAfterExit'
  BY <1>1, <1>2, <1>5 DEF SemaphoresSet, Inv, JoinAfterExit, Live, Present
<1>10. Handshake'
  BY <1>1, <1>2, <1>4, <1>5 DEF SemaphoresSet, Inv, Handshake
<1> QED BY <1>6, <1>7, <1>8, <1>9, <1>10 DEF Inv

\* PCB::ExitWait has its unit of exitsem.
LEMMA ExitWaitStep ==
  ASSUME Inv, NEW p \in Slots, ExitWait(p)
  PROVE Inv'
<1>1. /\ pc[p] = "exit" /\ pc'[p] = "remove" /\ pc' = [pc EXCEPT ![p] = "remove"]
      /\ \A q \in Slots \ {p} : pc'[q] = pc[q]
  BY Zenon DEF Inv, TypeOK, ExitWait, Goto
<1>2. UNCHANGED <<mainID, bm, bmsem, target, children, exitCode, machine>>
  BY DEF ExitWait, program
<1>3. Live(p) /\ pcb[p] \in PCBs
  <2>1. Live(p)
    BY <1>1 DEF Inv, Table
  <2> QED BY <2>1, Zenon DEF Inv, TypeOK, Live, Present
<1>4. /\ pcb[p].joinsem = 0 /\ pcb[p].exitsem = 1
      /\ \A q \in Slots : ~(pc[q] = "joined" /\ target[q] = p)
  <2>1. pcb[p].exitsem # 0 /\ pcb[p].exitsem \in Nat /\ pcb[p].joinsem \in Nat
    BY <1>3 DEF PCBs, ExitWait
  <2>2. /\ pcb[p].joinsem + pcb[p].exitsem = 1
        /\ \A q \in Slots : ~(pc[q] = "joined" /\ target[q] = p)
    BY <1>3, <2>1 DEF Inv, Handshake
  <2> QED BY <2>1, <2>2
<1>5. SemaphoresSet(p, 0, 0)
  <2>1. pcb' = [pcb EXCEPT ![p].exitsem = 0]
    BY <1>4 DEF ExitWait
  <2>2. SemaphoresSet(p, pcb[p].joinsem, 0)
    BY <1>3, <2>1, SemaphoreChange, Zenon DEF Inv
  <2> QED BY <1>4, <2>2
<1>6. TypeOK'
  <2>1. pc' \in [Slots -> Points]
    BY <1>1, Zenon DEF Inv, TypeOK, Points, Exiting
  <2> QED BY <1>2, <1>5, <2>1, Zenon DEF SemaphoresSet, Inv, TypeOK
<1>7. Table' /\ Turn'
  BY <1>1, <1>2, <1>5 DEF SemaphoresSet, Inv, Table, Turn, InTable, Execing
<1>8. Pointers'
  BY <1>1, <1>2, <1>5 DEF SemaphoresSet, Inv, Pointers, Table, processID, Live, Present
<1>9. JoinAfterExit'
  BY <1>1, <1>2, <1>4, <1>5 DEF SemaphoresSet, Inv, JoinAfterExit, Live, Present
<1>10. Handshake'
  BY <1>1, <1>2, <1>5 DEF SemaphoresSet, Inv, Handshake
<1> QED BY <1>6, <1>7, <1>8, <1>9, <1>10 DEF Inv

\* PTable::Remove deletes the PCB and frees the slot.
LEMMA RemoveStep ==
  ASSUME Inv, NEW p \in Slots, Remove(p)
  PROVE Inv'
<1>0. CASE Fault("semaphore in use")
  BY <1>0, FaultStep, Zenon DEF Fault
<1> DEFINE r == [NewPCB(pcb[p].parentID) EXCEPT !.deleted = TRUE]
<1> SUFFICES ASSUME ~SemaphoreInUse(p), Goto(p, "remove", "none"), bm' = bm \ {p},
                    pcb' = [pcb EXCEPT ![p] = r],
                    target' = [target EXCEPT ![p] = NULL],
                    children' = [children EXCEPT ![p] = {}],
                    UNCHANGED <<mainID, bmsem, exitCode, machine>>
             PROVE Inv'
  BY <1>0, Zenon DEF Remove
<1>1. /\ pc[p] = "remove" /\ pc'[p] = "none" /\ pc' = [pc EXCEPT ![p] = "none"]
      /\ \A q \in Slots \ {p} : pc'[q] = pc[q] /\ target'[q] = target[q] /\ pcb'[q] = pcb[q]
      /\ pcb'[p] = r
  BY Zenon DEF Inv, TypeOK, Goto
<1>2. Live(p) /\ pcb[p] \in PCBs
  <2>1. Live(p)
    BY <1>1 DEF Inv, Table
  <2> QED BY <2>1, Zenon DEF Inv, TypeOK, Live, Present
<1>3. r \in PCBs /\ r.deleted
  BY <1>2, Zenon DEF NewPCB, PCBs
<1> HIDE DEF r
<1>4. ~Live(p)' /\ \A s : s # p => (Live(s)' <=> Live(s))
  BY <1>1, <1>3 DEF Live, Present
<1>5. \A q \in Slots \ {p} :
        /\ pc[q] \in {"join", "forked"} => target[q] # p
        /\ pc[q] \in {"dec", "discounting"} => pcb[q].parentID # p
  BY DEF SemaphoreInUse
<1>6. \A q \in Slots : pc[q] \in {"fork", "joined"} => target[q] # p
  BY <1>1 DEF Inv, Pointers, JoinAfterExit
<1>7. TypeOK'
  <2>1. pc' \in [Slots -> Points] /\ bm' \in SUBSET Slots
    BY <1>1, Zenon DEF Inv, TypeOK, Points
  <2>2. pcb' \in [Slots -> PCBs \cup {NULL}]
    BY <1>3, Zenon DEF Inv, TypeOK
  <2>3. target' \in [Slots -> Int \cup {NULL}] /\ children' \in [Slots -> SUBSET Slots]
    BY Zenon DEF Inv, TypeOK
  <2> QED BY <2>1, <2>2, <2>3, Zenon DEF Inv, TypeOK
<1>8. Table'
  BY <1>1, <1>4 DEF Inv, Table
<1>9. Turn'
  BY <1>1 DEF Inv, Turn, InTable, Execing
<1>10. Pointers'
  BY <1>1, <1>4, <1>5, <1>6 DEF Inv, Pointers, processID, Live, Present
<1>11. JoinAfterExit'
  BY <1>1, <1>4, <1>6 DEF Inv, JoinAfterExit, Live, Present
<1>12. Handshake'
  BY <1>1, <1>4, <1>6 DEF Inv, Handshake
<1> QED BY <1>7, <1>8, <1>9, <1>10, <1>11, <1>12 DEF Inv

\* A thread that is in a system call or runs user code has a PCB of its own.
LEMMA OwnPCB ==
  ASSUME Inv, NEW p \in Slots, pc[p] # "none"
  PROVE Live(p) /\ pcb[p] \in PCBs
<1>1. Live(p)
  BY DEF Inv, Table
<1> QED BY <1>1, Zenon DEF Inv, TypeOK, Live, Present

\* IncNumWait and DecNumWait take multex.
LEMMA MultexPStep ==
  ASSUME Inv, NEW p \in Slots, NEW id \in Slots, Live(id), NEW a, NEW b,
         <<a, b>> \in {<<"inc", "counting">>, <<"dec", "discounting">>}, MultexP(p, id, a, b)
  PROVE Inv'
<1>1. pcb[id] \in PCBs
  BY Zenon DEF Inv, TypeOK, Live, Present
<1>2. pcb[id].multex - 1 \in Nat /\ pcb' = [pcb EXCEPT ![id].multex = pcb[id].multex - 1]
  BY <1>1 DEF MultexP, PCBs
<1>3. SamePCBs
  <2>1. TypeOK /\ pcb[id] # NULL
    BY DEF Inv, Live, Present
  <2> QED BY <1>2, <2>1, FieldChange, Zenon
<1>4. Goto(p, a, b) /\ <<a, b>> \in Moves /\ b # "join"
      /\ UNCHANGED <<bm, bmsem, target, program, machine>>
  BY DEF MultexP, Moves
<1> QED BY <1>3, <1>4, MoveStep

\* IncNumWait and DecNumWait count and give multex back.
LEMMA SetNumWaitStep ==
  ASSUME Inv, NEW p \in Slots, NEW id \in Slots, Live(id), NEW n \in Nat, NEW a, NEW b,
         <<a, b>> \in {<<"counting", "joinCall">>, <<"discounting", "release">>},
         SetNumWait(p, id, n, a, b)
  PROVE Inv'
<1>1. pcb[id] \in PCBs
  BY Zenon DEF Inv, TypeOK, Live, Present
<1>2. /\ pcb[id].multex + 1 \in Nat
      /\ pcb' = [pcb EXCEPT ![id].numwait = n, ![id].multex = pcb[id].multex + 1]
  BY <1>1 DEF SetNumWait, PCBs
<1>3. SamePCBs
  <2>1. TypeOK /\ pcb[id] # NULL
    BY DEF Inv, Live, Present
  <2> QED BY <1>2, <2>1, FieldChange, Zenon
<1>4. Goto(p, a, b) /\ <<a, b>> \in Moves /\ b # "join"
      /\ UNCHANGED <<bm, bmsem, target, program, machine>>
  BY DEF SetNumWait, Moves
<1> QED BY <1>3, <1>4, MoveStep

\* A step that changes no PCB.
LEMMA SameSelf == ASSUME TypeOK, UNCHANGED pcb PROVE SamePCBs
  BY Zenon DEF TypeOK, SamePCBs

\* One case for each action.
LEMMA NextStep ==
  ASSUME Inv, Next
  PROVE Inv'
<1>1. PICK p \in Slots : Continue(p) \/ Call(p)
  BY DEF Next
<1>2. CASE CallExec(p) \/ Start(p)
  BY <1>2, SameSelf, MoveStep DEF CallExec, Start, Moves, Inv
<1>3. CASE ExecMultexV(p)
  <2>1. PICK c \in Slots : c = target[p] /\ Live(c) /\ pcb[c] \in PCBs
    <3>1. target[p] \in Slots /\ Live(target[p])
      BY <1>3 DEF ExecMultexV, Goto, Inv, Pointers, Live, Present
    <3>2. pcb[target[p]] \in PCBs
      BY <3>1, Zenon DEF Inv, TypeOK, Live, Present
    <3> QED BY <3>1, <3>2
  <2>2. pcb[c].multex + 1 \in Nat /\ pcb' = [pcb EXCEPT ![c].multex = pcb[c].multex + 1]
    BY <1>3, <2>1 DEF ExecMultexV, PCBs
  <2>3. SamePCBs
    <3>1. TypeOK /\ pcb[c] # NULL
      BY <2>1 DEF Inv, Live, Present
    <3> QED BY <2>2, <3>1, FieldChange, Zenon
  <2> QED BY <1>3, <2>3, MoveStep DEF ExecMultexV, Moves
<1>4. CASE IncNumWaitP(p) \/ IncNumWait(p)
  <2>1. processID(p) = p /\ Live(p) /\ pcb[p] \in PCBs
    BY <1>4, OwnPCB DEF IncNumWaitP, IncNumWait, MultexP, SetNumWait, Goto, Inv, Pointers
  <2>2. pcb[p].numwait + 1 \in Nat
    BY <2>1 DEF PCBs
  <2> QED BY <1>4, <2>1, <2>2, MultexPStep, SetNumWaitStep DEF IncNumWaitP, IncNumWait
<1>5. CASE DecNumWaitP(p) \/ DecNumWait(p)
  <2>1. PICK id \in Slots : id = pcb[p].parentID /\ Live(id) /\ pcb[id] \in PCBs
    <3>1. Live(pcb[p].parentID)
      BY <1>5 DEF DecNumWaitP, DecNumWait, MultexP, SetNumWait, Goto, Inv, Pointers
    <3>2. pcb[p].parentID \in Slots /\ pcb[pcb[p].parentID] \in PCBs
      BY <3>1, Zenon DEF Inv, TypeOK, Live, Present
    <3> QED BY <3>1, <3>2
  <2> DEFINE n == IF pcb[id].numwait > 0 THEN pcb[id].numwait - 1 ELSE pcb[id].numwait
  <2>2. n \in Nat
    BY <2>1 DEF PCBs
  <2>3. \/ MultexP(p, id, "dec", "discounting")
        \/ SetNumWait(p, id, n, "discounting", "release")
    BY <1>5, <2>1 DEF DecNumWaitP, DecNumWait
  <2> HIDE DEF n
  <2> QED BY <2>1, <2>2, <2>3, MultexPStep, SetNumWaitStep
<1>6. CASE CallJoinWait(p)
  <2>1. CASE Fault("deleted semaphore")
    BY <2>1, FaultStep, Zenon DEF Fault
  <2>2. CASE /\ Live(target[p]) /\ Goto(p, "joinCall", "join")
             /\ UNCHANGED <<bm, bmsem, pcb, target, program, machine>>
    BY <2>2, SameSelf, MoveStep DEF Moves, Inv
  <2> QED BY <1>6, <2>1, <2>2, Zenon DEF CallJoinWait
<1>7. CASE ExitMain(p)
  BY <1>7, FaultStep DEF ExitMain
<1>8. CASE \E id \in 0..NumSlots : CallJoin(p, id)
  BY <1>8, CallJoinStep
<1>9. CASE ExecP(p) \/ ExecFails(p) \/ ExecSlot(p) \/ ExecFork(p) \/ ExecReturn(p)
  BY <1>9, ExecPStep, ExecFailsStep, ExecSlotStep, ExecForkStep, ExecReturnStep
<1>10. CASE JoinWait(p) \/ ExitRelease(p) \/ ExitNonZero(p) \/ CallExit(p)
  BY <1>10, JoinWaitStep, ExitReleaseStep, ExitNonZeroStep, CallExitStep
<1>11. CASE JoinRelease(p) \/ ExitWait(p) \/ Remove(p)
  BY <1>11, JoinReleaseStep, ExitWaitStep, RemoveStep
<1> QED BY <1>1, <1>2, <1>3, <1>4, <1>5, <1>6, <1>7, <1>8, <1>9, <1>10, <1>11, Zenon
        DEF Continue, Call

LEMMA StutterStep == ASSUME Inv, UNCHANGED vars PROVE Inv'
  BY FaultStep, Zenon DEF vars, program, Inv, TypeOK

\* The first invariant of the runs follows.
LEMMA InvImpliesSlotsAgree == Inv => SlotsAgree
<1> SUFFICES ASSUME Inv PROVE SlotsAgree OBVIOUS
<1>1. \A s \in Slots : s \in bm <=> Live(s)
  BY DEF Inv, Table
<1>2. \A s \in Slots :
        s \in bm <=> pc[s] # "none" \/ \E p \in Slots : pc[p] = "fork" /\ target[p] = s
  BY <1>1 DEF Inv, Table, Pointers
<1> QED BY <1>1, <1>2 DEF SlotsAgree, Inv, Turn, InTable

LEMMA InvInvariant == Spec => []Inv
<1>1. Inv /\ [Next]_vars => Inv'
  BY NextStep, StutterStep
<1> QED BY InitInv, <1>1, PTL DEF Spec

\* The bitmap and the array of PCBs agree in every state, whatever the programs do and however
\* their system calls interleave: PTable::GetFreeSlot never returns a slot in use, and bmsem
\* excludes.
THEOREM SlotsCorrect == Spec => []SlotsAgree
  BY InvInvariant, InvImpliesSlotsAgree, PTL

\* Whatever the programs do, when JoinWait returns, the process it waited for has called Exit(0),
\* its PCB is still there, and no other Join is about to let it go.
THEOREM JoinCorrect == Spec => []JoinAfterExit
<1>1. Inv => JoinAfterExit
  BY DEF Inv
<1> QED BY InvInvariant, <1>1, PTL

-----------------------------------------------------------------------------
(* Programs that join every child once and then exit *)

Making == {"fork", "forked", "execEnd"}

\* The process in slot c is a child of p that has not been let go.
Owned(p, c) ==
  /\ c \in bm \ {0} /\ pcb[c].parentID = p
  /\ pcb[c].exitsem = 0 /\ pc[c] # "remove"

\* The processes that p may still join, the one it makes, the one it joins
Kids == \A p \in Slots : \A c \in children[p] : Owned(p, c) /\ pc[c] # "none"
Made == \A p \in Slots : pc[p] \in Making => Owned(p, target[p]) /\ target[p] \notin children[p]
Joins == \A p \in Slots : pc[p] \in Joining => target[p] \in children[p]
\* A process that exits, or has not begun, has no children.
Childless == \A p \in Slots : pc[p] \in Exiting \cup {"start", "none"} => children[p] = {}
\* Every process but main has been let go, or has a parent that knows it.
Parents ==
  \A c \in bm \ {0} :
    \/ pcb[c].exitsem = 1 \/ pc[c] = "remove"
    \/ \E p \in Slots : /\ pcb[c].parentID = p
                        /\ c \in children[p] \/ (pc[p] \in Making /\ target[p] = c)

\* The inductive invariant of disciplined programs, beside Inv
Family ==
  /\ machine \in {"running", "halted"}
  /\ pc[0] \notin Exiting \cup {"none"}
  /\ Kids /\ Made /\ Joins /\ Childless /\ Parents

\* Every program joins each child once and exits with 0, and the processID of the main thread is 0.
Discipline == Disciplined /\ MainIDs = {0}

\* Then processID is the slot.
LEMMA OwnIDs ==
  ASSUME Discipline, TypeOK
  PROVE \A p \in Slots : processID(p) = p
  BY Zenon DEF Discipline, TypeOK, processID

\* At the start there is only main.
LEMMA InitFamily == ASSUME Init PROVE Family
<1>1. \A s \in Slots : pc[s] = IF s = 0 THEN "user" ELSE "none"
  BY DEF Init
<1>2. 0 \in Slots /\ pc[0] = "user" /\ bm \ {0} = {} /\ \A s \in Slots : children[s] = {}
  BY <1>1, SlotFacts DEF Init
<1>3. Kids /\ Parents
  BY <1>2 DEF Kids, Parents
<1>4. Made /\ Joins /\ Childless
  BY <1>1, <1>2 DEF Made, Joins, Childless, Making, Joining
<1> QED BY <1>2, <1>3, <1>4 DEF Family, Init, Exiting

\* The moves that change no slot, parent, target or exitsem
FamilyMoves ==
  Moves \cup {<<"exec", "slot">>, <<"slot", "user">>, <<"user", "dec">>,
              <<"join", "joined">>, <<"release", "exit">>}

\* Steps that leave the slots, the parents and exitsem alone
LEMMA FamilyMove ==
  ASSUME TypeOK, Family, NEW p \in Slots, NEW a, NEW b, <<a, b>> \in FamilyMoves,
         Goto(p, a, b), b = "dec" => p # 0 /\ children[p] = {},
         \A s \in bm : pcb'[s].parentID = pcb[s].parentID /\ pcb'[s].exitsem = pcb[s].exitsem,
         UNCHANGED <<bm, target, children, machine>>
  PROVE Family'
<1>1. pc[p] = a /\ pc'[p] = b /\ \A q \in Slots \ {p} : pc'[q] = pc[q]
  BY Zenon DEF Goto, TypeOK
<1>2. /\ a \notin {"none", "remove"} /\ b \notin {"none", "remove", "start"}
      /\ b \in Making <=> a \in Making
      /\ b \in Joining <=> a \in Joining
      /\ b \in Exiting => a \in Exiting \/ b = "dec"
  BY DEF FamilyMoves, Moves, Making, Joining, Exiting
<1>3. bm \subseteq Slots /\ 0 \in Slots
  BY SlotFacts, Zenon DEF TypeOK
<1>4. \A q, c : Owned(q, c) => Owned(q, c)' /\ (pc[c] # "none" => pc'[c] # "none")
  BY <1>1, <1>2, <1>3 DEF Owned
<1>5. Kids' /\ Made' /\ Joins'
  BY <1>1, <1>2, <1>4 DEF Family, Kids, Made, Joins
<1>6. Childless'
  BY <1>1, <1>2 DEF Family, Childless
<1>7. Parents'
  BY <1>1, <1>2, <1>3 DEF Family, Parents
<1>8. pc'[0] \notin Exiting \cup {"none"}
  BY <1>1, <1>2, <1>3 DEF Family
<1> QED BY <1>5, <1>6, <1>7, <1>8 DEF Family

\* A change of multex, numwait or joinsem of a PCB leaves the parents and exitsem alone.
LEMMA KinSame ==
  ASSUME TypeOK, \A s \in bm : pcb[s] \in PCBs, NEW id, NEW m, NEW n,
         \/ pcb' = [pcb EXCEPT ![id].multex = m]
         \/ pcb' = [pcb EXCEPT ![id].numwait = n, ![id].multex = m]
         \/ pcb' = [pcb EXCEPT ![id].joinsem = m]
  PROVE \A s \in bm : pcb'[s].parentID = pcb[s].parentID /\ pcb'[s].exitsem = pcb[s].exitsem
<1> SUFFICES ASSUME NEW s \in bm
             PROVE pcb'[s].parentID = pcb[s].parentID /\ pcb'[s].exitsem = pcb[s].exitsem
  OBVIOUS
<1>1. s \in DOMAIN pcb /\ pcb[s] \in PCBs
  BY Zenon DEF TypeOK
<1>2. CASE s # id
  BY <1>1, <1>2
<1>3. CASE s = id
  <2>1. \/ pcb'[s] = [pcb[s] EXCEPT !.multex = m]
        \/ pcb'[s] = [pcb[s] EXCEPT !.numwait = n, !.multex = m]
        \/ pcb'[s] = [pcb[s] EXCEPT !.joinsem = m]
    BY <1>1, <1>3
  <2> QED BY <1>1, <2>1 DEF PCBs
<1> QED BY <1>2, <1>3

\* The new process is its maker's.
LEMMA ExecSlotFamily ==
  ASSUME Discipline, Inv, Family, NEW p \in Slots, ExecSlot(p)
  PROVE Family'
<1>1. /\ pc[p] = "slot" /\ pc'[p] = "fork" /\ \A q \in Slots \ {p} : pc'[q] = pc[q]
  BY Zenon DEF ExecSlot, Goto, Inv, TypeOK
<1>2. PICK s \in Slots \ bm :
        /\ bm' = bm \cup {s}
        /\ pcb' = [pcb EXCEPT ![s] = [NewPCB(processID(p)) EXCEPT !.multex = 0]]
        /\ target' = [target EXCEPT ![p] = s]
  BY Zenon DEF ExecSlot
<1>3. /\ pcb'[s].parentID = p /\ pcb'[s].exitsem = 0
      /\ \A u \in Slots \ {s} : pcb'[u] = pcb[u]
      /\ target'[p] = s /\ \A u \in Slots \ {p} : target'[u] = target[u]
  BY <1>2, OwnIDs, Zenon DEF Inv, TypeOK, NewPCB
<1>4. UNCHANGED <<children, machine>> /\ bm \subseteq Slots /\ 0 \in Slots
  BY SlotFacts, Zenon DEF ExecSlot, program, Inv, TypeOK
<1>5. pc[s] = "none" /\ s # p /\ s # 0
  BY <1>1, <1>2, <1>4 DEF Inv, Table, Family
<1>6. \A q, c : Owned(q, c) => Owned(q, c)' /\ c # s /\ (pc[c] # "none" => pc'[c] # "none")
  BY <1>1, <1>2, <1>3, <1>4 DEF Owned
<1>7. Owned(p, s)' /\ s \notin children[p]
  BY <1>1, <1>2, <1>3, <1>5, <1>6 DEF Owned, Family, Kids
<1>8. Kids' /\ Joins'
  BY <1>1, <1>3, <1>4, <1>6 DEF Family, Kids, Joins, Joining
<1>9. Made'
  BY <1>1, <1>3, <1>4, <1>6, <1>7 DEF Family, Made
<1>10. Childless' /\ pc'[0] \notin Exiting \cup {"none"}
  BY <1>1, <1>4 DEF Family, Childless, Exiting
<1>11. Parents'
  <2>1. \A c \in bm : c \in Slots \ {s}
    BY <1>2, <1>4
  <2>2. \A q \in Slots : pc[q] \in Making => pc'[q] \in Making /\ target'[q] = target[q]
    BY <1>1, <1>3 DEF Making
  <2>3. "fork" \in Making
    BY DEF Making
  <2> QED BY <1>1, <1>2, <1>3, <1>4, <2>1, <2>2, <2>3 DEF Family, Parents
<1> QED BY <1>4, <1>8, <1>9, <1>10, <1>11 DEF Family

\* Its thread begins with no children.
LEMMA ExecForkFamily ==
  ASSUME Inv, Family, NEW p \in Slots, ExecFork(p)
  PROVE Family'
<1>0. /\ target[p] \in Slots /\ pc[target[p]] = "none" /\ pc[p] = "fork" /\ target[p] # p
      /\ UNCHANGED <<bm, pcb, target, children, machine>>
  BY DEF ExecFork, Inv, Pointers, Live, Present
<1>1. /\ pc'[p] = "forked" /\ pc'[target[p]] = "start"
      /\ \A q \in Slots \ {p, target[p]} : pc'[q] = pc[q]
  BY <1>0, Zenon DEF Inv, TypeOK, ExecFork
<1>2. bm \subseteq Slots /\ 0 \in Slots
  BY SlotFacts, Zenon DEF Inv, TypeOK
<1>3. \A q, c : Owned(q, c) => Owned(q, c)' /\ (pc[c] # "none" => pc'[c] # "none")
  BY <1>0, <1>1, <1>2 DEF Owned
<1>4. \A q \in Slots : pc'[q] \in Making <=> pc[q] \in Making
  BY <1>0, <1>1 DEF Making
<1>5. Kids' /\ Made'
  BY <1>0, <1>3, <1>4 DEF Family, Kids, Made
<1>6. Joins' /\ Childless'
  BY <1>0, <1>1 DEF Family, Joins, Childless, Joining, Exiting
<1>7. Parents'
  BY <1>0, <1>1, <1>2, <1>4 DEF Family, Parents
<1>8. pc'[0] \notin Exiting \cup {"none"}
  BY <1>0, <1>1, <1>2 DEF Family, Exiting
<1> QED BY <1>0, <1>5, <1>6, <1>7, <1>8 DEF Family

\* The maker gets to know it.
LEMMA ExecReturnFamily ==
  ASSUME Inv, Family, NEW p \in Slots, ExecReturn(p)
  PROVE Family'
<1>1. /\ pc[p] = "execEnd" /\ pc'[p] = "user" /\ UNCHANGED <<bm, pcb, machine>>
      /\ \A q \in Slots \ {p} : pc'[q] = pc[q] /\ target'[q] = target[q]
      /\ children'[p] = children[p] \cup {target[p]}
      /\ \A q \in Slots \ {p} : children'[q] = children[q]
  BY Zenon DEF ExecReturn, Goto, Inv, TypeOK
<1>2. bm \subseteq Slots /\ 0 \in Slots
  BY SlotFacts, Zenon DEF Inv, TypeOK
<1>3. Owned(p, target[p]) /\ pc[target[p]] # "none"
  <2>1. Owned(p, target[p])
    BY <1>1 DEF Family, Made, Making
  <2>2. \A q \in Slots : pc[q] # "fork"
    BY <1>1 DEF Inv, Turn, InTable, Execing
  <2> QED BY <1>2, <2>1, <2>2 DEF Owned, Inv, Table
<1>4. \A q, c : Owned(q, c) => Owned(q, c)' /\ (pc[c] # "none" => pc'[c] # "none")
  BY <1>1, <1>2 DEF Owned
<1>5. Kids'
  BY <1>1, <1>3, <1>4 DEF Family, Kids
<1>6. Made' /\ Joins' /\ Childless'
  BY <1>1, <1>4 DEF Family, Made, Joins, Childless, Making, Joining, Exiting
<1>7. Parents'
  BY <1>1, <1>2 DEF Family, Parents
<1>8. pc'[0] \notin Exiting \cup {"none"}
  BY <1>1, <1>2 DEF Family, Exiting
<1> QED BY <1>1, <1>5, <1>6, <1>7, <1>8 DEF Family

\* A parent joins one of its children.
LEMMA CallJoinFamily ==
  ASSUME Discipline, Inv, Family, NEW p \in Slots, NEW id, CallJoin(p, id)
  PROVE Family'
<1>1. pc[p] = "user" /\ id \in children[p]
  BY Zenon DEF CallJoin, Discipline
<1>2. Present(id) /\ Present(processID(p))
  <2>1. id \in bm /\ id \in Slots /\ Live(id)
    BY <1>1, Zenon DEF Family, Kids, Owned, Inv, TypeOK, Table
  <2>2. Live(p) /\ processID(p) = p
    BY <1>1, OwnIDs, OwnPCB DEF Inv
  <2> QED BY <2>1, <2>2 DEF Live
<1>3. /\ pc' = [pc EXCEPT ![p] = "inc"] /\ target' = [target EXCEPT ![p] = id]
      /\ UNCHANGED <<bm, pcb, children, machine>>
  BY <1>2 DEF CallJoin, Goto, program
<1>4. /\ pc'[p] = "inc" /\ target'[p] = id
      /\ \A q \in Slots \ {p} : pc'[q] = pc[q] /\ target'[q] = target[q]
  BY <1>3, Zenon DEF Inv, TypeOK
<1>5. bm \subseteq Slots /\ 0 \in Slots
  BY SlotFacts, Zenon DEF Inv, TypeOK
<1>6. \A q, c : Owned(q, c) => Owned(q, c)' /\ (pc[c] # "none" => pc'[c] # "none")
  BY <1>1, <1>3, <1>4, <1>5 DEF Owned
<1>7. Kids'
  BY <1>3, <1>6 DEF Family, Kids
<1>8. Made' /\ Joins' /\ Childless'
  BY <1>1, <1>3, <1>4, <1>6 DEF Family, Made, Joins, Childless, Making, Exiting
<1>9. Parents'
  BY <1>1, <1>3, <1>4, <1>5 DEF Family, Parents, Making
<1>10. pc'[0] \notin Exiting \cup {"none"}
  BY <1>4, <1>5 DEF Family, Exiting
<1> QED BY <1>3, <1>7, <1>8, <1>9, <1>10 DEF Family

\* The child is let go, and the parent forgets it.
LEMMA ExitReleaseFamily ==
  ASSUME Inv, Family, NEW p \in Slots, ExitRelease(p)
  PROVE Family'
<1>1. /\ pc[p] = "joined" /\ pc'[p] = "user" /\ UNCHANGED <<bm, machine>>
      /\ \A q \in Slots \ {p} : pc'[q] = pc[q] /\ target'[q] = target[q]
      /\ children'[p] = children[p] \ {target[p]}
      /\ \A q \in Slots \ {p} : children'[q] = children[q]
  BY Zenon DEF ExitRelease, Goto, Inv, TypeOK
<1>2. bm \subseteq Slots /\ 0 \in Slots
  BY SlotFacts, Zenon DEF Inv, TypeOK
<1>3. PICK c \in Slots : c = target[p] /\ c \in children[p] /\ Owned(p, c) /\ pcb[c] \in PCBs
  <2>1. target[p] \in children[p] /\ Owned(p, target[p])
    BY <1>1 DEF Family, Joins, Kids, Joining
  <2>2. target[p] \in Slots /\ Live(target[p])
    BY <1>2, <2>1 DEF Owned, Inv, Table
  <2>3. pcb[target[p]] \in PCBs
    BY <2>2, Zenon DEF Inv, TypeOK, Live, Present
  <2> QED BY <2>1, <2>2, <2>3
<1>4. /\ \A s \in Slots \ {c} : pcb'[s] = pcb[s]
      /\ pcb'[c].exitsem = 1 /\ pcb'[c].parentID = p
  <2>1. pcb' = [pcb EXCEPT ![c] = [pcb[c] EXCEPT !.exitsem = 1]]
    BY <1>3 DEF ExitRelease, Owned
  <2>2. [pcb[c] EXCEPT !.exitsem = 1].exitsem = 1 /\ [pcb[c] EXCEPT !.exitsem = 1].parentID = p
    BY <1>3 DEF PCBs, Owned
  <2> QED BY <2>1, <2>2, Zenon DEF Inv, TypeOK
<1>5. \A q, d : Owned(q, d) /\ d # c =>
        Owned(q, d)' /\ (pc[d] # "none" => pc'[d] # "none")
  BY <1>1, <1>2, <1>4 DEF Owned
<1>6. \A q \in Slots \ {p} : ~Owned(q, c)
  BY <1>3 DEF Owned
<1>7. Kids'
  BY <1>1, <1>3, <1>5, <1>6 DEF Family, Kids
<1>8. Made' /\ Joins' /\ Childless'
  BY <1>1, <1>3, <1>5, <1>6 DEF Family, Made, Joins, Childless, Making, Joining, Exiting
<1>9. Parents'
  BY <1>1, <1>2, <1>3, <1>4 DEF Family, Parents, Making
<1>10. pc'[0] \notin Exiting \cup {"none"}
  BY <1>1, <1>2 DEF Family, Exiting
<1> QED BY <1>1, <1>7, <1>8, <1>9, <1>10 DEF Family

\* A child that has been let go goes on to remove itself.
LEMMA ExitWaitFamily ==
  ASSUME Inv, Family, NEW p \in Slots, ExitWait(p)
  PROVE Family'
<1>1. /\ pc[p] = "exit" /\ pc'[p] = "remove" /\ UNCHANGED <<bm, target, children, machine>>
      /\ \A q \in Slots \ {p} : pc'[q] = pc[q]
  BY Zenon DEF ExitWait, Goto, Inv, TypeOK, program
<1>2. bm \subseteq Slots /\ 0 \in Slots
  BY SlotFacts, Zenon DEF Inv, TypeOK
<1>3. /\ \A s \in Slots \ {p} : pcb'[s] = pcb[s]
      /\ \A q : ~Owned(q, p)
  BY Zenon DEF ExitWait, Inv, TypeOK, Owned
<1>4. \A q, d : Owned(q, d) => d # p /\ Owned(q, d)' /\ (pc[d] # "none" => pc'[d] # "none")
  BY <1>1, <1>2, <1>3 DEF Owned
<1>5. Kids' /\ Made' /\ Joins' /\ Childless'
  BY <1>1, <1>4 DEF Family, Kids, Made, Joins, Childless, Making, Joining, Exiting
<1>6. Parents'
  BY <1>1, <1>2, <1>3 DEF Family, Parents, Making
<1>7. pc'[0] \notin Exiting \cup {"none"}
  BY <1>1, <1>2 DEF Family, Exiting
<1> QED BY <1>1, <1>5, <1>6, <1>7 DEF Family

\* It leaves the table, and no children behind.
LEMMA RemoveFamily ==
  ASSUME Inv, Family, NEW p \in Slots, Remove(p)
  PROVE Family'
<1>1. pc[p] = "remove" /\ children[p] = {} /\ p # 0
  BY Zenon DEF Remove, Family, Childless, Exiting
<1>2. bm \subseteq Slots /\ 0 \in Slots
  BY SlotFacts, Zenon DEF Inv, TypeOK
<1>3. ~SemaphoreInUse(p)
  <2>1. SUFFICES ASSUME NEW q \in Slots \ {p},
                        \/ pc[q] \in {"join", "forked"} /\ target[q] = p
                        \/ pc[q] \in {"dec", "discounting"} /\ pcb[q].parentID = p
                 PROVE FALSE
    BY DEF SemaphoreInUse
  <2>2. CASE pc[q] \in {"join", "forked"} /\ target[q] = p
    <3>1. Owned(q, p)
      BY <2>2 DEF Family, Joins, Joining, Kids, Made, Making
    <3> QED BY <1>1, <3>1 DEF Owned
  <2>3. CASE pc[q] \in {"dec", "discounting"} /\ pcb[q].parentID = p
    <3>1. q \in bm /\ Live(q) /\ q # 0
      BY <1>2, <2>3 DEF Inv, Table, Family, Exiting
    <3>2. pcb[q].exitsem = 0
      BY <2>3, <3>1 DEF Inv, Handshake
    <3>3. q \in children[p] \/ pc[p] \in Making
      BY <2>3, <3>1, <3>2 DEF Family, Parents
    <3> QED BY <1>1, <3>3 DEF Making
  <2> QED BY <2>1, <2>2, <2>3
<1>4. /\ bm' = bm \ {p} /\ UNCHANGED machine /\ pc'[p] = "none"
      /\ \A q \in Slots \ {p} : pc'[q] = pc[q] /\ target'[q] = target[q] /\ pcb'[q] = pcb[q]
      /\ \A q \in Slots : children'[q] = children[q]
  BY <1>1, <1>3, Zenon DEF Remove, Goto, Inv, TypeOK
<1>5. \A q, d : Owned(q, d) => Owned(q, d)' /\ d # p /\ (pc[d] # "none" => pc'[d] # "none")
  BY <1>1, <1>2, <1>4 DEF Owned
<1>6. Kids' /\ Made' /\ Joins' /\ Childless'
  BY <1>1, <1>4, <1>5 DEF Family, Kids, Made, Joins, Childless, Making, Joining, Exiting
<1>7. Parents'
  BY <1>1, <1>2, <1>4 DEF Family, Parents, Making
<1>8. pc'[0] \notin Exiting \cup {"none"}
  BY <1>1, <1>2, <1>4 DEF Family
<1> QED BY <1>4, <1>6, <1>7, <1>8 DEF Family

\* A process other than main exits when it has no children left.
LEMMA CallExitFamily ==
  ASSUME Discipline, Inv, Family, NEW p \in Slots, CallExit(p)
  PROVE Family'
<1>1. /\ pc[p] = "user" /\ children[p] = {} /\ processID(p) = p /\ p # 0
  BY OwnIDs, Zenon DEF CallExit, MayExit, Discipline, Inv
<1>2. p \in bm /\ Live(p) /\ pcb[p].exitsem = 0
  BY <1>1, OwnPCB DEF Inv, Table, Handshake
<1>3. PICK q \in Slots : pcb[p].parentID = q /\ pc[q] # "none"
  BY <1>1, <1>2 DEF Family, Parents, Childless, Making
<1>4. Live(pcb[p].parentID)
  BY <1>3, OwnPCB
<1>5. /\ Goto(p, "user", "dec")
      /\ UNCHANGED <<bm, pcb, target, children, machine>>
  BY <1>1, <1>2, <1>4, Zenon DEF CallExit, Live
<1> QED BY <1>1, <1>5, FamilyMove, Zenon DEF FamilyMoves, Inv

\* One case for each action.
LEMMA NextFamily ==
  ASSUME Discipline, Inv, Family, Next
  PROVE Family'
<1>1. PICK p \in Slots : Continue(p) \/ Call(p)
  BY DEF Next
<1>2. TypeOK /\ bm \subseteq Slots /\ \A s \in bm : pcb[s] \in PCBs
  BY Zenon DEF Inv, TypeOK, Table, Live, Present
<1>3. CASE CallExec(p) \/ Start(p) \/ ExecP(p) \/ ExecFails(p)
  BY <1>2, <1>3, FamilyMove
     DEF CallExec, Start, ExecP, ExecFails, program, FamilyMoves, Moves
<1>4. CASE \E id : MultexP(p, id, "inc", "counting") \/ MultexP(p, id, "dec", "discounting")
  <2>1. PICK id : MultexP(p, id, "inc", "counting") \/ MultexP(p, id, "dec", "discounting")
    BY <1>4
  <2>2. \A s \in bm : pcb'[s].parentID = pcb[s].parentID /\ pcb'[s].exitsem = pcb[s].exitsem
    BY <1>2, <2>1, KinSame, Zenon DEF MultexP
  <2> QED BY <1>2, <2>1, <2>2, FamilyMove DEF MultexP, program, FamilyMoves, Moves
<1>5. CASE \E id, n : \/ SetNumWait(p, id, n, "counting", "joinCall")
                      \/ SetNumWait(p, id, n, "discounting", "release")
  <2>1. PICK id, n : \/ SetNumWait(p, id, n, "counting", "joinCall")
                     \/ SetNumWait(p, id, n, "discounting", "release")
    BY <1>5
  <2>2. \A s \in bm : pcb'[s].parentID = pcb[s].parentID /\ pcb'[s].exitsem = pcb[s].exitsem
    BY <1>2, <2>1, KinSame DEF SetNumWait
  <2> QED BY <1>2, <2>1, <2>2, FamilyMove DEF SetNumWait, program, FamilyMoves, Moves
<1>6. CASE ExecMultexV(p) \/ JoinWait(p) \/ JoinRelease(p)
  <2>1. \A s \in bm : pcb'[s].parentID = pcb[s].parentID /\ pcb'[s].exitsem = pcb[s].exitsem
    <3>1. PICK id, m : \/ pcb' = [pcb EXCEPT ![id].multex = m]
                       \/ pcb' = [pcb EXCEPT ![id].joinsem = m]
      BY <1>6 DEF ExecMultexV, JoinWait, JoinRelease
    <3> QED BY <1>2, <3>1, KinSame, Zenon
  <2> QED BY <1>2, <1>6, <2>1, FamilyMove
          DEF ExecMultexV, JoinWait, JoinRelease, program, FamilyMoves, Moves
<1>7. CASE CallJoinWait(p)
  <2>1. Live(target[p])
    BY <1>2, <1>7, Zenon DEF CallJoinWait, Family, Joins, Joining, Kids, Owned, Inv, Table
  <2> QED BY <1>2, <1>7, <2>1, FamilyMove DEF CallJoinWait, program, FamilyMoves, Moves
<1>8. CASE ExitMain(p)
  <2>1. UNCHANGED <<bm, pcb, pc, target, children>> /\ machine' = "halted"
    BY <1>8 DEF ExitMain, program
  <2>2. Kids' /\ Made' /\ Joins'
    BY <1>2, <2>1 DEF Family, Kids, Made, Joins, Owned
  <2>3. Childless' /\ Parents'
    BY <1>2, <2>1 DEF Family, Childless, Parents
  <2> QED BY <1>2, <2>1, <2>2, <2>3 DEF Family
<1>9. CASE ExitNonZero(p)
  BY <1>9 DEF ExitNonZero, Discipline
<1>10. CASE \E id \in 0..NumSlots : CallJoin(p, id)
  BY <1>10, CallJoinFamily
<1>11. CASE ExecSlot(p) \/ ExecFork(p) \/ ExecReturn(p) \/ ExitRelease(p)
  BY <1>11, ExecSlotFamily, ExecForkFamily, ExecReturnFamily, ExitReleaseFamily
<1>12. CASE CallExit(p) \/ ExitWait(p) \/ Remove(p)
  BY <1>12, CallExitFamily, ExitWaitFamily, RemoveFamily
<1> QED
  <2>1. IncNumWaitP(p) => \E id : MultexP(p, id, "inc", "counting")
    BY Zenon DEF IncNumWaitP
  <2>2. DecNumWaitP(p) => \E id : MultexP(p, id, "dec", "discounting")
    BY Zenon DEF DecNumWaitP
  <2>3. IncNumWait(p) => \E id, n : SetNumWait(p, id, n, "counting", "joinCall")
    BY Zenon DEF IncNumWait
  <2>4. DecNumWait(p) => \E id, n : SetNumWait(p, id, n, "discounting", "release")
    BY Zenon DEF DecNumWait
  <2> QED BY <1>1, <1>3, <1>4, <1>5, <1>6, <1>7, <1>8, <1>9, <1>10, <1>11, <1>12,
             <2>1, <2>2, <2>3, <2>4, Zenon DEF Continue, Call

LEMMA FamilyKept == ASSUME Inv, Family PROVE ChildrenKept
<1> SUFFICES ASSUME NEW c \in bm \ {0}, pcb[c].exitsem # 1, pc[c] # "remove"
             PROVE /\ Live(pcb[c].parentID) /\ pc[pcb[c].parentID] # "none"
                   /\ c \in children[pcb[c].parentID] \/ target[pcb[c].parentID] = c
  BY DEF ChildrenKept, Family
<1>1. PICK p \in Slots : /\ pcb[c].parentID = p
                         /\ c \in children[p] \/ (pc[p] \in Making /\ target[p] = c)
  BY DEF Family, Parents
<1>2. pc[p] # "none"
  BY <1>1 DEF Family, Childless, Making
<1> QED BY <1>1, <1>2, OwnPCB

LEMMA FamilyInvariant ==
  ASSUME Disciplined, MainIDs = {0}
  PROVE Spec => [](Inv /\ Family)
<1>1. Inv /\ Family /\ [Next]_vars => Family'
  <2>1. ASSUME Inv, Family, UNCHANGED vars PROVE Family'
    BY <2>1 DEF vars, Family, Kids, Made, Joins, Childless, Parents, Owned
  <2> QED BY <2>1, NextFamily DEF Discipline
<1> QED BY InvInvariant, InitFamily, <1>1, PTL DEF Spec

\* If programs join each of their children once before they exit, no process outlives its
\* parent: the parent's PCB is there whenever JoinRelease and DecNumWait reach for it
\* through parentID, and no call of the table meets a null or deleted PCB.
THEOREM ChildrenCorrect ==
  ASSUME Disciplined, MainIDs = {0}
  PROVE Spec => []ChildrenKept
<1>1. Inv /\ Family => ChildrenKept
  BY FamilyKept
<1> QED BY <1>1, FamilyInvariant, PTL

\* For the same programs the comment in PTable::JoinUpdate is true: the process that a
\* Join waited for is a child of the caller.
THEOREM DisciplinedJoinCorrect ==
  ASSUME Disciplined, MainIDs = {0}
  PROVE Spec => []JoinOnlyByParent
<1>1. Inv /\ Family => JoinOnlyByParent
  BY OwnIDs DEF Discipline, Inv, Family, Joins, Joining, Kids, Owned, JoinOnlyByParent
<1> QED BY <1>1, FamilyInvariant, PTL
=============================================================================
