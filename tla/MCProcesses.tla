----------------------------- MODULE MCProcesses -----------------------------
EXTENDS Processes
=============================================================================
