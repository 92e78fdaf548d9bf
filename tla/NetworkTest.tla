----------------------------- MODULE NetworkTest -----------------------------
(***************************************************************************)
(* Kernel::NetworkTest (threads/kernel.cc), run by the main threads of two *)
(* machines over their post offices: each sends a message to the other,    *)
(* waits for the other's message, acknowledges it, and waits for the       *)
(* acknowledgement of its own.  A client stands for the main thread.       *)
(***************************************************************************)
EXTENDS PostOffice

CONSTANTS Box0, Box1, Hello, Ack

ASSUME NetworkTestAssumption ==
  /\ {Box0, Box1} \subseteq Boxes /\ Box0 # Box1
  /\ {Hello, Ack} \subseteq Messages /\ Hello # Ack
  /\ \E m, n \in Machines : m # n /\ Machines = {m, n}

VARIABLE step  \* step[c]: the number of calls of Send and Receive that c has begun

testVars == <<vars, step>>

TestInit ==
  /\ Init
  /\ \A c, d \in Clients : host[c] = host[d] => c = d
  /\ step = [c \in Clients |-> 0]

farHost(c) == CHOOSE m \in Machines : m # host[c]

Begins(c, n) ==
  /\ step[c] = n - 1
  /\ step' = [step EXCEPT ![c] = n]

SendHello(c) == Begins(c, 1) /\ CallSend(c, farHost(c), Box0, Box1, Hello)

AwaitHello(c) == Begins(c, 2) /\ CallReceive(c, Box0)

\* The acknowledgement goes where the message that was received says.
SendAck(c) == Begins(c, 3) /\ CallSend(c, mail[c].from, mail[c].reply, Box1, Ack)

AwaitAck(c) == Begins(c, 4) /\ CallReceive(c, Box1)

TestCall(c) == SendHello(c) \/ AwaitHello(c) \/ SendAck(c) \/ AwaitAck(c)

TestNext ==
  \/ /\ (\E m \in Machines : Office(m)) \/ (\E c \in Clients : Continue(c))
     /\ UNCHANGED step
  \/ \E c \in Clients : TestCall(c)

TestSpec == TestInit /\ [][TestNext]_testVars

FairTestSpec ==
  /\ TestSpec
  /\ \A m \in Machines : WF_testVars(Office(m) /\ UNCHANGED step)
  /\ \A c \in Clients : WF_testVars(TestCall(c) \/ (Continue(c) /\ UNCHANGED step))

-----------------------------------------------------------------------------
(* Properties *)

Done(c) == step[c] = 4 /\ pc[c] = "idle"

\* The test shows what it claims, even over a network that loses packets: a machine that
\* is done has received the other's acknowledgement, and the other machine has
\* received its message.
AckMeansReceived ==
  \A c \in Clients : Done(c) =>
    /\ mail[c].data = Ack /\ mail[c].from = farHost(c)
    /\ \E i \in 1..Len(got[farHost(c)][Box0]) :
         got[farHost(c)][Box0][i].data = Hello /\ got[farHost(c)][Box0][i].from = host[c]

\* Over a network that loses nothing, both machines complete the test.
TestCompletes == reliable => <>(\A c \in Clients : Done(c))
=============================================================================
