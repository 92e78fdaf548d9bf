------------------------------ MODULE AtomicDisk ------------------------------
(***************************************************************************)
(* What SynchDisk promises its callers (filesys/synchdisk.h): a read or a  *)
(* write of a sector takes effect at one moment between its call and its   *)
(* return.                                                                 *)
(***************************************************************************)
EXTENDS Integers

CONSTANTS Procs, Sectors, Data, InitialData, NULL

VARIABLES
  contents,  \* the data in each sector
  todo,      \* the operation a process has called and that has not taken effect
  got        \* what its last operation read, or wrote

vars == <<contents, todo, got>>

Operations == [write : BOOLEAN, sector : Sectors, data : Data]

Init ==
  /\ contents = [s \in Sectors |-> InitialData]
  /\ todo = [p \in Procs |-> NULL]
  /\ got = [p \in Procs |-> NULL]

Call(p, o) ==
  /\ todo[p] = NULL
  /\ todo' = [todo EXCEPT ![p] = o]
  /\ got' = [got EXCEPT ![p] = NULL]
  /\ UNCHANGED contents

Do(p) ==
  /\ todo[p] # NULL
  /\ LET o == todo[p]
         d == IF o.write THEN o.data ELSE contents[o.sector] IN
       /\ contents' = [contents EXCEPT ![o.sector] = d]
       /\ got' = [got EXCEPT ![p] = d]
  /\ todo' = [todo EXCEPT ![p] = NULL]

Next == \E p \in Procs : Do(p) \/ \E o \in Operations : Call(p, o)

Spec == Init /\ [][Next]_vars
=============================================================================
