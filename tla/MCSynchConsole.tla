---------------------------- MODULE MCSynchConsole ----------------------------
(* A small instance of SynchConsole. *)
EXTENDS SynchConsole
=============================================================================
