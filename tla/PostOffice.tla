------------------------------ MODULE PostOffice ------------------------------
(***************************************************************************)
(* The mail between NachOS machines: the network device of each machine    *)
(* (machine/network.cc), which takes one packet at a time, sends it to a   *)
(* datagram socket or loses it, and polls its own socket into a buffer for *)
(* one packet; and the post offices (network/post.cc), in which a postal   *)
(* worker thread sorts what arrives into mailboxes.                        *)
(*                                                                         *)
(* Locks and semaphores are atomic, and so are the mailboxes, which are    *)
(* SynchLists (see Fifo).  The socket, code of the host system, keeps the  *)
(* order of what is sent to it and loses nothing.                          *)
(***************************************************************************)
EXTENDS Integers, Sequences

CONSTANTS
  Machines,
  Clients,   \* the threads that send and receive mail
  Boxes,     \* the mailboxes of each post office
  Messages,  \* the contents of the mails
  NULL

ASSUME PostOfficeAssumption == NULL \notin Clients

\* PacketHeader, MailHeader and data; "reply" is MailHeader::from
Mail == [from : Machines, to : Machines, box : Boxes, reply : Boxes, data : Messages]

ASSUME NoMailAssumption == NULL \notin Mail

VARIABLES
  host,              \* the machine a client runs on, which never changes
  reliable,          \* whether the networks never lose a packet (option -n)
  pc, mail,          \* where a client is, and what it sends or has received
  sendLock,          \* the client that holds PostOfficeOutput::sendLock, or NULL
  messageSent,       \* the value of PostOfficeOutput::messageSent
  sendBusy,          \* NetworkOutput::sendBusy
  sendInt,           \* whether the interrupt that ends a send is pending
  wire,              \* the packets in a machine's socket
  inbox,             \* NetworkInput::inHdr and inbox; NULL if inHdr.length is 0
  messageAvailable,  \* the value of PostOfficeInput::messageAvailable
  worker, buffer,    \* where the postal worker is, and what it carries
  boxes,             \* PostOfficeInput::boxes
  posted, got        \* per box: the mails sent and not lost, the mails received

sending == <<sendLock, messageSent, sendBusy, sendInt>>
receiving == <<inbox, messageAvailable, worker, buffer>>
vars == <<host, reliable, pc, mail, sending, wire, receiving, boxes, posted, got>>

(***************************************************************************)
(*   idle                     not using the post office                    *)
(*   acquire, send            Send: in sendLock->Acquire, after it         *)
(*   sent, release            Send: in messageSent->P, after it            *)
(*   receive                  Receive: in RemoveFront                      *)
(*                                                                         *)
(*   wait, take, put          the worker: in messageAvailable->P, after it, *)
(*                            in MailBox::Put                              *)
(***************************************************************************)
Points == {"idle", "acquire", "send", "sent", "release", "receive"}

TypeOK ==
  /\ host \in [Clients -> Machines]
  /\ reliable \in BOOLEAN
  /\ pc \in [Clients -> Points] /\ mail \in [Clients -> Mail \cup [box : Boxes] \cup {NULL}]
  /\ sendLock \in [Machines -> Clients \cup {NULL}]
  /\ messageSent \in [Machines -> Nat] /\ messageAvailable \in [Machines -> Nat]
  /\ sendBusy \in [Machines -> BOOLEAN] /\ sendInt \in [Machines -> BOOLEAN]
  /\ wire \in [Machines -> Seq(Mail)]
  /\ inbox \in [Machines -> Mail \cup {NULL}]
  /\ worker \in [Machines -> {"wait", "take", "put"}]
  /\ buffer \in [Machines -> Mail \cup {NULL}]
  /\ \A f \in {boxes, posted, got} : f \in [Machines -> [Boxes -> Seq(Mail)]]

\* The constructors of the two post offices and the two network devices
Init ==
  /\ host \in [Clients -> Machines]
  /\ reliable \in BOOLEAN
  /\ pc = [c \in Clients |-> "idle"] /\ mail = [c \in Clients |-> NULL]
  /\ sendLock = [m \in Machines |-> NULL]
  /\ messageSent = [m \in Machines |-> 0] /\ messageAvailable = [m \in Machines |-> 0]
  /\ sendBusy = [m \in Machines |-> FALSE] /\ sendInt = [m \in Machines |-> FALSE]
  /\ wire = [m \in Machines |-> <<>>]
  /\ inbox = [m \in Machines |-> NULL]
  /\ worker = [m \in Machines |-> "wait"]
  /\ buffer = [m \in Machines |-> NULL]
  /\ boxes = [m \in Machines |-> [b \in Boxes |-> <<>>]]
  /\ posted = boxes /\ got = boxes

Goto(c, from, to) ==
  /\ pc[c] = from
  /\ pc' = [pc EXCEPT ![c] = to]

-----------------------------------------------------------------------------
(* PostOfficeOutput::Send *)

\* The headers are filled in.
CallSend(c, to, b, reply, d) ==
  /\ Goto(c, "idle", "acquire")
  /\ mail' = [mail EXCEPT ![c] = [from |-> host[c], to |-> to, box |-> b,
                                  reply |-> reply, data |-> d]]
  /\ UNCHANGED <<host, reliable, sending, wire, receiving, boxes, posted, got>>

\* sendLock->Acquire()
Acquire(c) ==
  /\ Goto(c, "acquire", "send")
  /\ sendLock[host[c]] = NULL
  /\ sendLock' = [sendLock EXCEPT ![host[c]] = c]
  /\ UNCHANGED <<host, reliable, mail, messageSent, sendBusy, sendInt, wire, receiving, boxes, posted, got>>

\* NetworkOutput::Send: the interrupt is scheduled, and the packet is sent or lost.
Send(c, lost) ==
  /\ Goto(c, "send", "sent")
  /\ lost => ~reliable
  /\ sendInt' = [sendInt EXCEPT ![host[c]] = TRUE]
  /\ IF lost
     THEN UNCHANGED <<wire, posted>>
     ELSE LET x == mail[c] IN
          /\ wire' = [wire EXCEPT ![x.to] = Append(@, x)]
          /\ posted' = [posted EXCEPT ![x.to][x.box] = Append(@, x)]
  /\ UNCHANGED <<host, reliable, mail, sendLock, messageSent, sendBusy, receiving, boxes, got>>

\* Broken variant of SendDone: schedules itself again and wakes no one.
SendDonePolls(m) ==
  /\ sendInt[m]
  /\ UNCHANGED vars

\* NetworkOutput::CallBack and PostOfficeOutput::CallBack
SendDone(m) ==
  /\ sendInt[m]
  /\ sendInt' = [sendInt EXCEPT ![m] = FALSE]
  /\ sendBusy' = [sendBusy EXCEPT ![m] = FALSE]
  /\ messageSent' = [messageSent EXCEPT ![m] = @ + 1]
  /\ UNCHANGED <<host, reliable, pc, mail, sendLock, wire, receiving, boxes, posted, got>>

\* Broken variant of SentP: does not wait for the interrupt.
SentPNoWait(c) ==
  /\ Goto(c, "sent", "release")
  /\ UNCHANGED <<host, reliable, mail, sendLock, messageSent, sendBusy, sendInt, wire, receiving, boxes, posted, got>>

\* messageSent->P()
SentP(c) ==
  /\ Goto(c, "sent", "release")
  /\ messageSent[host[c]] # 0
  /\ messageSent' = [messageSent EXCEPT ![host[c]] = @ - 1]
  /\ UNCHANGED <<host, reliable, mail, sendLock, sendBusy, sendInt, wire, receiving, boxes, posted, got>>

\* sendLock->Release(), and Send returns.
Release(c) ==
  /\ Goto(c, "release", "idle")
  /\ sendLock' = [sendLock EXCEPT ![host[c]] = NULL]
  /\ mail' = [mail EXCEPT ![c] = NULL]
  /\ UNCHANGED <<host, reliable, messageSent, sendBusy, sendInt, wire, receiving, boxes, posted, got>>

-----------------------------------------------------------------------------
(* The receiving side *)

\* Broken variant of Poll: does not look whether a packet is buffered.
PollOverwrites(m) ==
  /\ wire[m] # <<>>
  /\ inbox' = [inbox EXCEPT ![m] = Head(wire[m])]
  /\ wire' = [wire EXCEPT ![m] = Tail(@)]
  /\ messageAvailable' = [messageAvailable EXCEPT ![m] = @ + 1]
  /\ UNCHANGED <<host, reliable, pc, mail, sending, worker, buffer, boxes, posted, got>>

\* NetworkInput::CallBack, when it finds a packet and room for it, and
\* PostOfficeInput::CallBack.  Every other poll only schedules the next one.
Poll(m) ==
  /\ inbox[m] = NULL
  /\ wire[m] # <<>>
  /\ inbox' = [inbox EXCEPT ![m] = Head(wire[m])]
  /\ wire' = [wire EXCEPT ![m] = Tail(@)]
  /\ messageAvailable' = [messageAvailable EXCEPT ![m] = @ + 1]
  /\ UNCHANGED <<host, reliable, pc, mail, sending, worker, buffer, boxes, posted, got>>

\* PostalDelivery: messageAvailable->P()
WorkerP(m) ==
  /\ worker[m] = "wait"
  /\ messageAvailable[m] # 0
  /\ messageAvailable' = [messageAvailable EXCEPT ![m] = @ - 1]
  /\ worker' = [worker EXCEPT ![m] = "take"]
  /\ UNCHANGED <<host, reliable, pc, mail, sending, wire, inbox, buffer, boxes, posted, got>>

\* NetworkInput::Receive; if nothing is buffered, the worker's buffer keeps what it held.
Receive(m) ==
  /\ worker[m] = "take"
  /\ buffer' = [buffer EXCEPT ![m] = IF inbox[m] = NULL THEN @ ELSE inbox[m]]
  /\ inbox' = [inbox EXCEPT ![m] = NULL]
  /\ worker' = [worker EXCEPT ![m] = "put"]
  /\ UNCHANGED <<host, reliable, pc, mail, sending, wire, messageAvailable, boxes, posted, got>>

\* MailBox::Put
Put(m) ==
  /\ worker[m] = "put"
  /\ boxes' = [boxes EXCEPT ![m][buffer[m].box] = Append(@, buffer[m])]
  /\ worker' = [worker EXCEPT ![m] = "wait"]
  /\ UNCHANGED <<host, reliable, pc, mail, sending, wire, inbox, messageAvailable, buffer, posted, got>>

\* PostOfficeInput::Receive and MailBox::Get, up to the wait in RemoveFront
CallReceive(c, b) ==
  /\ Goto(c, "idle", "receive")
  /\ mail' = [mail EXCEPT ![c] = [box |-> b]]
  /\ UNCHANGED <<host, reliable, sending, wire, receiving, boxes, posted, got>>

\* Broken variant of Get: takes mail from any box.
GetAnyBox(c) ==
  LET m == host[c]
      b == CHOOSE b \in Boxes : (\E x \in Boxes : boxes[m][x] # <<>>) => boxes[m][b] # <<>>
  IN /\ Goto(c, "receive", "idle")
     /\ boxes[m][b] # <<>>
     /\ mail' = [mail EXCEPT ![c] = Head(boxes[m][b])]
     /\ boxes' = [boxes EXCEPT ![m][b] = Tail(@)]
     /\ got' = [got EXCEPT ![m][b] = Append(@, Head(boxes[m][b]))]
     /\ UNCHANGED <<host, reliable, sending, wire, receiving, posted>>

\* MailBox::Get takes the first mail of the box.
Get(c) ==
  LET m == host[c]
      b == mail[c].box
  IN /\ Goto(c, "receive", "idle")
     /\ boxes[m][b] # <<>>
     /\ mail' = [mail EXCEPT ![c] = Head(boxes[m][b])]
     /\ boxes' = [boxes EXCEPT ![m][b] = Tail(@)]
     /\ got' = [got EXCEPT ![m][b] = Append(@, Head(boxes[m][b]))]
     /\ UNCHANGED <<host, reliable, sending, wire, receiving, posted>>

-----------------------------------------------------------------------------
\* A call that has begun goes on.
Continue(c) == Acquire(c) \/ (\E lost \in BOOLEAN : Send(c, lost)) \/ SentP(c) \/ Release(c) \/ Get(c)

\* The devices of machine m and its postal worker
Office(m) == SendDone(m) \/ Poll(m) \/ WorkerP(m) \/ Receive(m) \/ Put(m)

\* No mail with these contents has been sent or is being sent.
Unused(d) ==
  /\ \A c \in Clients : pc[c] \in {"acquire", "send", "sent", "release"} => mail[c].data # d
  /\ \A m \in Machines, b \in Boxes : \A i \in 1..Len(posted[m][b]) : posted[m][b][i].data # d

\* Clients send and receive what they like; different mails have different
\* contents.  A client that calls forgets what it received before.
NewCall(c) ==
  \/ \E to \in Machines, b \in Boxes, d \in Messages : Unused(d) /\ CallSend(c, to, b, b, d)
  \/ \E b \in Boxes : CallReceive(c, b)

Next ==
  \/ \E m \in Machines : Office(m)
  \/ \E c \in Clients : Continue(c) \/ NewCall(c)

Spec == Init /\ [][Next]_vars

\* Interrupts occur and threads run: each device, the worker and each client that
\* is in a call go on if they can.
Fairness ==
  /\ \A m \in Machines : /\ WF_vars(SendDone(m)) /\ WF_vars(Poll(m))
                         /\ WF_vars(WorkerP(m)) /\ WF_vars(Receive(m)) /\ WF_vars(Put(m))
  /\ \A c \in Clients : WF_vars(Continue(c))

FairSpec == Spec /\ Fairness

-----------------------------------------------------------------------------
(* Properties *)

\* The mails of s that are for box b, in their order
ForBox(s, b) ==
  LET kept[i \in 0..Len(s)] ==
        IF i = 0 THEN <<>>
        ELSE kept[i - 1] \o (IF s[i].box = b THEN <<s[i]>> ELSE <<>>)
  IN kept[Len(s)]

Has(s, d) == \E i \in 1..Len(s) : s[i].data = d
One(x) == IF x = NULL THEN <<>> ELSE <<x>>

\* One packet at a time: no send is in progress when the holder of sendLock calls
\* NetworkOutput::Send, and the interrupt of a send wakes the client that made it.
SendExclusive ==
  \A c \in Clients :
    LET m == host[c] IN
    /\ pc[c] \in {"send", "sent", "release"} => sendLock[m] = c
    /\ pc[c] = "send" => ~sendInt[m] /\ messageSent[m] = 0
    /\ pc[c] = "sent" => (sendInt[m] <=> messageSent[m] = 0)

\* Every mail that the network does not lose is delivered once, to the box it was
\* sent to, in the order of the sends: what was sent to a box is what was received
\* from it, what is in it, what the worker carries, what the device has buffered, and
\* what is in the socket.  The buffer holds one packet; a poll while it is full
\* must leave it alone, and the worker must take exactly one packet per interrupt:
\* messageAvailable has one unit, or the worker has taken it, exactly while a packet
\* is buffered.  The types of the variables are part of it.
MailInOrder ==
  /\ TypeOK
  /\ \A m \in Machines, b \in Boxes :
       posted[m][b] = got[m][b] \o boxes[m][b]
         \o ForBox((IF worker[m] = "put" THEN One(buffer[m]) ELSE <<>>)
                     \o One(inbox[m]) \o wire[m], b)
  /\ \A m \in Machines :
       messageAvailable[m] + (IF worker[m] = "take" THEN 1 ELSE 0)
         = IF inbox[m] = NULL THEN 0 ELSE 1

\* A mail that was sent and not lost comes to its mailbox, even if nobody receives;
\* and a Send returns, whether or not the packet is lost, if no more calls are made.
MailArrives ==
  /\ \A d \in Messages :
       (\E m \in Machines : Has(wire[m], d))
         ~> \E m \in Machines, b \in Boxes : Has(got[m][b] \o boxes[m][b], d)
  /\ <>[][\A c \in Clients : ~NewCall(c)]_vars
       => <>[](\A c \in Clients : pc[c] \in {"idle", "receive"})
=============================================================================
