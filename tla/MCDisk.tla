------------------------------- MODULE MCDisk --------------------------------
(***************************************************************************)
(* TLC instance of the disk.  The initial state chooses the part that      *)
(* runs: three threads calling SynchDisk, or the file system.              *)
(***************************************************************************)
EXTENDS SynchDisk, FileSystem

CONSTANTS a, b
VARIABLE part

MCContents == {<<>>, <<b>>, <<a, b, b, a, a>>}

NoFs == disk = <<>> /\ todo = <<>> /\ command = NoCommand /\ stored = <<>>

MCInit == \/ part = "disk" /\ Init /\ NoFs
          \/ part = "files" /\ Init /\ FsInit

OnlyDisk == part = "disk" /\ UNCHANGED <<part, fsVars>>

MCNext == \/ OnlyDisk /\ Next
          \/ part = "files" /\ FsNext /\ UNCHANGED <<part, vars>>

MCVars == <<part, vars, fsVars>>

\* The fairness of SynchDisk's FairSpec
MCSpec == /\ MCInit /\ [][MCNext]_MCVars
          /\ WF_MCVars(OnlyDisk /\ CallBack)
          /\ \A t \in Threads : WF_MCVars(OnlyDisk /\ Work(t))
-----------------------------------------------------------------------------
\* Wherever the machine stops between two sector writes of Create, Remove or WriteAt,
\* only the file in hand is harmed: OthersIntact of FileSystem.
FilesIntact == part = "files" => FsTypeOK /\ OthersIntact

\* Between two commands the map on the disk marks exactly the sectors in use, after
\* a Create that failed too: MapExact of FileSystem.
FilesMapped == part = "files" => MapExact
=============================================================================
