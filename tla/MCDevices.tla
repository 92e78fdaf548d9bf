------------------------------ MODULE MCDevices ------------------------------
(***************************************************************************)
(* TLC instance of the devices and their drivers.  The initial state       *)
(* chooses the part that runs: two clients of one machine's post office    *)
(* that send and receive what they like, Kernel::NetworkTest on two        *)
(* machines, or two threads at the console.                                *)
(***************************************************************************)
EXTENDS NetworkTest, Terminal

CONSTANT m1

VARIABLE part

MCVars == <<part, testVars, consoleVars>>

MCInit ==
    /\ Console!Init
    /\ \/ part = "mail" /\ Init /\ host = [c \in Clients |-> m1] /\ step = [c \in Clients |-> 0]
       \/ part = "test" /\ TestInit
       \/ part = "console" /\ Init /\ host = [c \in Clients |-> m1] /\ reliable
            /\ step = [c \in Clients |-> 0]

OnlyMail == part = "mail" /\ UNCHANGED <<part, step, consoleVars>>
OnlyTest == part = "test" /\ UNCHANGED <<part, consoleVars>>
OnlyConsole == part = "console" /\ UNCHANGED <<part, testVars>>

MCNext == \/ OnlyMail /\ Next
          \/ OnlyTest /\ TestNext
          \/ OnlyConsole /\ Console!Next

\* The fairness of PostOffice, NetworkTest and SynchConsole
MCSpec ==
    /\ MCInit /\ [][MCNext]_MCVars
    /\ \A m \in Machines :
         /\ WF_MCVars(OnlyMail /\ SendDone(m)) /\ WF_MCVars(OnlyMail /\ Poll(m))
         /\ WF_MCVars(OnlyMail /\ WorkerP(m)) /\ WF_MCVars(OnlyMail /\ Receive(m))
         /\ WF_MCVars(OnlyMail /\ Put(m))
         /\ WF_MCVars(OnlyTest /\ Office(m) /\ UNCHANGED step)
    /\ \A c \in Clients :
         /\ WF_MCVars(OnlyMail /\ Continue(c))
         /\ WF_MCVars(OnlyTest /\ (TestCall(c) \/ (Continue(c) /\ UNCHANGED step)))
    /\ WF_MCVars(OnlyConsole /\ Console!WriteDone)
    /\ \A t \in ConsoleUsers : WF_MCVars(OnlyConsole /\ Console!Work(t))
-----------------------------------------------------------------------------
\* MailArrives of PostOffice: mail comes to its box, and Send returns.
\* TestCompletes of NetworkTest: over a reliable network both machines finish.
PostArrives == /\ part = "mail" => MailArrives
               /\ part = "test" => TestCompletes
=============================================================================
