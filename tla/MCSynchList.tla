----------------------------- MODULE MCSynchList -----------------------------
(***************************************************************************)
(* TLC instance of the monitor and of SynchList.  The initial state        *)
(* chooses the part that runs: four threads that use a lock and its        *)
(* condition in any way the assertions allow, or three that use a          *)
(* SynchList.                                                              *)
(***************************************************************************)
EXTENDS SynchList

CONSTANT ListThreads
VARIABLE part

MCVars == <<part, vars>>

OnlyMonitor == part = "monitor" /\ UNCHANGED <<part, synchlist>>
OnlyList == part = "list" /\ UNCHANGED part

MCInit == part \in {"monitor", "list"} /\ Init

MCNext == \/ OnlyMonitor /\ MonitorNext
          \/ OnlyList /\ \E t \in ListThreads : NewCall(t) \/ Work(t)

\* The fairness of Monitor and of SynchList
MCSpec == /\ MCInit /\ [][MCNext]_MCVars
          /\ \A t \in Threads : WF_MCVars(OnlyMonitor /\ Continue(t))
          /\ \A t \in ListThreads : WF_MCVars(OnlyList /\ Work(t))
=============================================================================
