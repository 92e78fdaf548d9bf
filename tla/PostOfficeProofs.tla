-------------------------- MODULE PostOfficeProofs --------------------------
(***************************************************************************)
(* Proofs about PostOffice, for any machines, boxes, messages and clients: *)
(* one packet at a time is sent, and mail that is not lost is delivered    *)
(* once, in order; and about NetworkTest, which uses it: the               *)
(* acknowledgement that ends the network test means what it says, and the  *)
(* test keeps the promises of the post offices.                            *)
(*                                                                         *)
(* The two inductive invariants and the steps that only move mail come     *)
(* first; then what is needed for the steps that sort mail into boxes,     *)
(* facts about the mails for a box, which are proved by induction; then    *)
(* those steps and the theorems.                                           *)
(***************************************************************************)
EXTENDS NetworkTest, TLAPS

-----------------------------------------------------------------------------
(* The inductive invariant of the post offices *)

\* Concatenation is associative.
LEMMA Assoc ==
  ASSUME NEW s \in Seq(Mail), NEW t \in Seq(Mail), NEW u \in Seq(Mail)
  PROVE (s \o t) \o u = s \o (t \o u)
  OBVIOUS

LEMMA AppendIsConcat ==
  ASSUME NEW s \in Seq(Mail), NEW x \in Mail PROVE Append(s, x) = s \o <<x>>
  OBVIOUS

LEMMA ConcatEmpty ==
  ASSUME NEW s \in Seq(Mail) PROVE s \o <<>> = s /\ <<>> \o s = s
  OBVIOUS

Sending == {"send", "sent", "release"}

\* What a client sends, and the box from which it receives
Letters ==
  \A c \in Clients :
    /\ pc[c] \in Sending \cup {"acquire"} => mail[c] \in Mail
    /\ pc[c] = "receive" => mail[c].box \in Boxes

\* The sender that holds the lock, its interrupt and its semaphore
SendTurn ==
  /\ \A c \in Clients : pc[c] \in Sending => sendLock[host[c]] = c
  /\ \A m \in Machines :
       LET h == sendLock[m] IN
       /\ h # NULL => host[h] = m /\ pc[h] \in Sending
       /\ IF h # NULL /\ pc[h] = "sent"
          THEN messageSent[m] = IF sendInt[m] THEN 0 ELSE 1
          ELSE ~sendInt[m] /\ messageSent[m] = 0

\* The packet buffered by the device, its interrupt and the worker
Buffered ==
  \A m \in Machines :
    /\ inbox[m] = NULL => messageAvailable[m] = 0 /\ worker[m] # "take"
    /\ inbox[m] # NULL => messageAvailable[m] = IF worker[m] = "take" THEN 0 ELSE 1
    /\ worker[m] = "put" => buffer[m] # NULL

\* What the worker carries, and all mail that is on its way to the boxes of m
InHand(m) == IF worker[m] = "put" THEN One(buffer[m]) ELSE <<>>
Coming(m) == InHand(m) \o One(inbox[m]) \o wire[m]

\* The second part of MailInOrder
InOrder ==
  \A m \in Machines, b \in Boxes :
    posted[m][b] = got[m][b] \o boxes[m][b] \o ForBox(Coming(m), b)

PostInv == TypeOK /\ Letters /\ SendTurn /\ Buffered /\ InOrder

LEMMA OneType == ASSUME NEW x \in Mail \cup {NULL} PROVE One(x) \in Seq(Mail)
  BY DEF One

LEMMA AppendConcat ==
  ASSUME NEW s \in Seq(Mail), NEW t \in Seq(Mail), NEW x \in Mail
  PROVE s \o Append(t, x) = Append(s \o t, x)
<1>1. Append(t, x) = t \o <<x>> /\ Append(s \o t, x) = (s \o t) \o <<x>> /\ <<x>> \in Seq(Mail)
  BY AppendIsConcat
<1> QED BY <1>1, Assoc

\* The types of the places a mail can be in
LEMMA PlaceTypes ==
  ASSUME TypeOK, NEW m \in Machines
  PROVE /\ wire[m] \in Seq(Mail) /\ One(inbox[m]) \in Seq(Mail) /\ InHand(m) \in Seq(Mail)
        /\ Coming(m) \in Seq(Mail)
        /\ \A b \in Boxes : /\ boxes[m][b] \in Seq(Mail) /\ posted[m][b] \in Seq(Mail)
                            /\ got[m][b] \in Seq(Mail)
<1>1. wire[m] \in Seq(Mail) /\ inbox[m] \in Mail \cup {NULL} /\ buffer[m] \in Mail \cup {NULL}
  BY DEF TypeOK
<1>2. One(inbox[m]) \in Seq(Mail) /\ One(buffer[m]) \in Seq(Mail)
  BY <1>1, OneType
<1>3. InHand(m) \in Seq(Mail)
  BY <1>2 DEF InHand
<1>4. Coming(m) \in Seq(Mail)
  BY <1>1, <1>2, <1>3 DEF Coming
<1>5. /\ boxes \in [Machines -> [Boxes -> Seq(Mail)]]
      /\ posted \in [Machines -> [Boxes -> Seq(Mail)]]
      /\ got \in [Machines -> [Boxes -> Seq(Mail)]]
  BY DEF TypeOK
<1> QED BY <1>1, <1>2, <1>3, <1>4, <1>5

\* One box of one machine changes.
LEMMA BoxChange ==
  ASSUME NEW f \in [Machines -> [Boxes -> Seq(Mail)]], NEW m \in Machines, NEW b \in Boxes,
         NEW s \in Seq(Mail), NEW g, g = [f EXCEPT ![m][b] = s]
  PROVE /\ g \in [Machines -> [Boxes -> Seq(Mail)]]
        /\ g[m][b] = s
        /\ \A n \in Machines, c \in Boxes : n # m \/ c # b => g[n][c] = f[n][c]
<1>1. [f[m] EXCEPT ![b] = s] \in [Boxes -> Seq(Mail)]
  OBVIOUS
<1>2. g = [f EXCEPT ![m] = [f[m] EXCEPT ![b] = s]]
  OBVIOUS
<1>3. g \in [Machines -> [Boxes -> Seq(Mail)]]
  BY <1>1, <1>2
<1>4. g[m] = [f[m] EXCEPT ![b] = s] /\ \A n \in Machines : n # m => g[n] = f[n]
  BY <1>2
<1>5. f[m] \in [Boxes -> Seq(Mail)]
  OBVIOUS
<1> QED BY <1>3, <1>4, <1>5

\* A step that leaves the mail on its way where it is
LEMMA SameOrder ==
  ASSUME InOrder, UNCHANGED <<wire, receiving, boxes, posted, got>>
  PROVE InOrder'
  BY Zenon DEF InOrder, Coming, InHand, receiving

LEMMA SameBuffered ==
  ASSUME Buffered, UNCHANGED receiving
  PROVE Buffered'
  BY DEF Buffered, receiving

\* A client that is not sending, before and after, leaves the send side alone.
LEMMA SameTurn ==
  ASSUME TypeOK, SendTurn, NEW c \in Clients, pc[c] \notin Sending, pc'[c] \notin Sending,
         \A u \in Clients \ {c} : pc'[u] = pc[u], UNCHANGED <<host, sending>>
  PROVE SendTurn'
<1>1. \A u \in Clients : pc'[u] \in Sending => pc[u] \in Sending /\ u # c
  OBVIOUS
<1>2. \A m \in Machines : sendLock[m] # NULL =>
        sendLock[m] \in Clients /\ sendLock[m] # c /\ pc'[sendLock[m]] = pc[sendLock[m]]
  BY DEF TypeOK, SendTurn
<1>3. UNCHANGED <<host, sendLock, messageSent, sendInt>>
  BY DEF sending
<1> QED BY <1>1, <1>2, <1>3 DEF SendTurn

\* PostOfficeOutput::Send fills in the headers.
LEMMA CallSendStep ==
  ASSUME PostInv, NEW c \in Clients, NEW to \in Machines, NEW b \in Boxes,
         NEW r \in Boxes, NEW d \in Messages, CallSend(c, to, b, r, d)
  PROVE PostInv'
<1>1. /\ pc[c] = "idle" /\ pc'[c] = "acquire" /\ pc' = [pc EXCEPT ![c] = "acquire"]
      /\ \A u \in Clients \ {c} : pc'[u] = pc[u] /\ mail'[u] = mail[u]
      /\ UNCHANGED <<host, reliable, sending, wire, receiving, boxes, posted, got>>
  BY DEF CallSend, Goto, PostInv, TypeOK
<1>2. PICK x \in Mail : mail' = [mail EXCEPT ![c] = x] /\ mail'[c] = x
  <2>1. [from |-> host[c], to |-> to, box |-> b, reply |-> r, data |-> d] \in Mail
    BY DEF PostInv, TypeOK, Mail
  <2> QED BY <2>1, Zenon DEF CallSend, PostInv, TypeOK
<1>3. TypeOK'
  <2>1. pc' \in [Clients -> Points] /\ mail' \in [Clients -> Mail \cup [box : Boxes] \cup {NULL}]
    BY <1>1, <1>2, Zenon DEF PostInv, TypeOK, Points
  <2> QED BY <1>1, <2>1, Zenon DEF PostInv, TypeOK, sending, receiving
<1>4. Letters'
  BY <1>1, <1>2 DEF PostInv, Letters, Sending
<1>5. SendTurn'
  BY <1>1, SameTurn DEF PostInv, Sending
<1> QED BY <1>1, <1>3, <1>4, <1>5, SameOrder, SameBuffered DEF PostInv

\* PostOfficeInput::Receive begins.
LEMMA CallReceiveStep ==
  ASSUME PostInv, NEW c \in Clients, NEW b \in Boxes, CallReceive(c, b)
  PROVE PostInv'
<1>1. /\ pc[c] = "idle" /\ pc'[c] = "receive" /\ pc' = [pc EXCEPT ![c] = "receive"]
      /\ \A u \in Clients \ {c} : pc'[u] = pc[u] /\ mail'[u] = mail[u]
      /\ mail'[c] = [box |-> b] /\ mail' = [mail EXCEPT ![c] = [box |-> b]]
      /\ UNCHANGED <<host, reliable, sending, wire, receiving, boxes, posted, got>>
  BY DEF CallReceive, Goto, PostInv, TypeOK
<1>3. TypeOK'
  <2>1. pc' \in [Clients -> Points] /\ mail' \in [Clients -> Mail \cup [box : Boxes] \cup {NULL}]
    BY <1>1, Zenon DEF PostInv, TypeOK, Points
  <2> QED BY <1>1, <2>1 DEF PostInv, TypeOK, sending, receiving
<1>4. Letters'
  BY <1>1 DEF PostInv, Letters, Sending
<1>5. SendTurn'
  BY <1>1, SameTurn DEF PostInv, Sending
<1> QED BY <1>1, <1>3, <1>4, <1>5, SameOrder, SameBuffered DEF PostInv

\* Send: sendLock->Acquire()
LEMMA AcquireStep ==
  ASSUME PostInv, NEW c \in Clients, Acquire(c)
  PROVE PostInv'
<1>0. host[c] \in Machines
  BY DEF PostInv, TypeOK
<1>1. /\ pc[c] = "acquire" /\ pc'[c] = "send" /\ pc' = [pc EXCEPT ![c] = "send"]
      /\ \A u \in Clients \ {c} : pc'[u] = pc[u]
      /\ sendLock[host[c]] = NULL /\ sendLock' = [sendLock EXCEPT ![host[c]] = c]
      /\ UNCHANGED <<host, reliable, mail, messageSent, sendBusy, sendInt, wire, receiving,
                     boxes, posted, got>>
  BY DEF Acquire, Goto, PostInv, TypeOK
<1>2. /\ sendLock'[host[c]] = c
      /\ \A m \in Machines \ {host[c]} : sendLock'[m] = sendLock[m]
  BY <1>0, <1>1 DEF PostInv, TypeOK
<1>3. TypeOK'
  <2>1. pc' \in [Clients -> Points] /\ sendLock' \in [Machines -> Clients \cup {NULL}]
    BY <1>0, <1>1, Zenon DEF PostInv, TypeOK, Points
  <2> QED BY <1>1, <2>1 DEF PostInv, TypeOK, receiving
<1>4. Letters'
  BY <1>1 DEF PostInv, Letters, Sending
<1>5. SendTurn'
  BY <1>0, <1>1, <1>2, PostOfficeAssumption DEF PostInv, SendTurn, Sending, TypeOK
<1> QED BY <1>1, <1>3, <1>4, <1>5, SameOrder, SameBuffered DEF PostInv

\* The holder of the lock of its machine is the only client there in a send.
LEMMA TurnIsMine ==
  ASSUME TypeOK, SendTurn, NEW c \in Clients, pc[c] \in Sending
  PROVE /\ sendLock[host[c]] = c /\ c # NULL
        /\ \A u \in Clients : pc[u] \in Sending /\ u # c => host[u] # host[c]
        /\ \A m \in Machines : m # host[c] => sendLock[m] # c
  BY PostOfficeAssumption DEF TypeOK, SendTurn

\* The interrupt that ends a send gives the sender its unit of messageSent.
LEMMA SendDoneStep ==
  ASSUME PostInv, NEW m \in Machines, SendDone(m)
  PROVE PostInv'
<1>1. /\ sendInt[m] /\ sendInt' = [sendInt EXCEPT ![m] = FALSE]
      /\ sendBusy' = [sendBusy EXCEPT ![m] = FALSE]
      /\ messageSent' = [messageSent EXCEPT ![m] = @ + 1]
      /\ UNCHANGED <<host, reliable, pc, mail, sendLock, wire, receiving, boxes, posted, got>>
  BY DEF SendDone
<1>2. TypeOK'
  <2>1. /\ sendInt' \in [Machines -> BOOLEAN] /\ sendBusy' \in [Machines -> BOOLEAN]
        /\ messageSent' \in [Machines -> Nat]
    BY <1>1 DEF PostInv, TypeOK
  <2> QED BY <1>1, <2>1 DEF PostInv, TypeOK, receiving
<1>3. Letters'
  BY <1>1 DEF PostInv, Letters
<1>4. SendTurn'
  <2>1. sendLock[m] # NULL /\ pc[sendLock[m]] = "sent" /\ messageSent[m] = 0
    BY <1>1 DEF PostInv, SendTurn
  <2>2. /\ ~sendInt'[m] /\ messageSent'[m] = 1
        /\ \A n \in Machines \ {m} : sendInt'[n] = sendInt[n] /\ messageSent'[n] = messageSent[n]
    BY <1>1, <2>1 DEF PostInv, TypeOK
  <2> QED BY <1>1, <2>1, <2>2 DEF PostInv, SendTurn
<1> QED BY <1>1, <1>2, <1>3, <1>4, SameOrder, SameBuffered DEF PostInv

\* Send: messageSent->P()
LEMMA SentPStep ==
  ASSUME PostInv, NEW c \in Clients, SentP(c)
  PROVE PostInv'
<1>0. PICK h \in Machines : h = host[c]
  BY DEF PostInv, TypeOK
<1>1. /\ pc[c] = "sent" /\ pc'[c] = "release" /\ pc' = [pc EXCEPT ![c] = "release"]
      /\ \A u \in Clients \ {c} : pc'[u] = pc[u]
      /\ messageSent[h] # 0 /\ messageSent' = [messageSent EXCEPT ![h] = @ - 1]
      /\ UNCHANGED <<host, reliable, mail, sendLock, sendBusy, sendInt, wire, receiving,
                     boxes, posted, got>>
  BY <1>0, Zenon DEF SentP, Goto, PostInv, TypeOK
<1>2. TypeOK'
  <2>1. pc' \in [Clients -> Points] /\ messageSent' \in [Machines -> Nat]
    BY <1>1 DEF PostInv, TypeOK, Points
  <2> QED BY <1>1, <2>1 DEF PostInv, TypeOK, receiving
<1>3. Letters'
  BY <1>1 DEF PostInv, Letters, Sending
<1>4. SendTurn'
  <2>1. /\ sendLock[h] = c /\ c # NULL
        /\ \A m \in Machines : m # h => sendLock[m] # c
    BY <1>0, <1>1, TurnIsMine DEF PostInv, Sending
  <2>2. \A u \in Clients : pc'[u] \in Sending => sendLock'[host'[u]] = u
    BY <1>1 DEF PostInv, SendTurn, Sending
  <2>3. \A m \in Machines \ {h} : sendLock[m] # NULL => pc'[sendLock[m]] = pc[sendLock[m]]
    BY <1>1, <2>1 DEF PostInv, TypeOK
  <2>4. ~sendInt[h] /\ messageSent[h] = 1
    BY <1>1, <2>1 DEF PostInv, SendTurn
  <2>5. messageSent'[h] = 0 /\ \A m \in Machines \ {h} : messageSent'[m] = messageSent[m]
    BY <1>1, <2>4 DEF PostInv, TypeOK
  <2> QED BY <1>0, <1>1, <2>1, <2>2, <2>3, <2>4, <2>5 DEF PostInv, SendTurn, Sending
<1> QED BY <1>1, <1>2, <1>3, <1>4, SameOrder, SameBuffered DEF PostInv

\* Send: sendLock->Release()
LEMMA ReleaseStep ==
  ASSUME PostInv, NEW c \in Clients, Release(c)
  PROVE PostInv'
<1>0. PICK h \in Machines : h = host[c]
  BY DEF PostInv, TypeOK
<1>1. /\ pc[c] = "release" /\ pc'[c] = "idle" /\ pc' = [pc EXCEPT ![c] = "idle"]
      /\ \A u \in Clients \ {c} : pc'[u] = pc[u] /\ mail'[u] = mail[u]
      /\ mail' = [mail EXCEPT ![c] = NULL] /\ sendLock' = [sendLock EXCEPT ![h] = NULL]
      /\ UNCHANGED <<host, reliable, messageSent, sendBusy, sendInt, wire, receiving,
                     boxes, posted, got>>
  BY <1>0 DEF Release, Goto, PostInv, TypeOK
<1>2. TypeOK'
  <2>1. /\ pc' \in [Clients -> Points] /\ sendLock' \in [Machines -> Clients \cup {NULL}]
        /\ mail' \in [Clients -> Mail \cup [box : Boxes] \cup {NULL}]
    BY <1>1 DEF PostInv, TypeOK, Points
  <2> QED BY <1>1, <2>1 DEF PostInv, TypeOK, receiving
<1>3. Letters'
  BY <1>1 DEF PostInv, Letters, Sending
<1>4. SendTurn'
  <2>1. /\ sendLock[h] = c /\ c # NULL
        /\ \A u \in Clients : pc[u] \in Sending /\ u # c => host[u] # h
        /\ \A m \in Machines : m # h => sendLock[m] # c
    BY <1>0, <1>1, TurnIsMine DEF PostInv, Sending
  <2>2. sendLock'[h] = NULL /\ \A m \in Machines \ {h} : sendLock'[m] = sendLock[m]
    BY <1>1 DEF PostInv, TypeOK
  <2>3. \A u \in Clients : pc'[u] \in Sending => sendLock'[host'[u]] = u
    BY <1>1, <2>1, <2>2 DEF PostInv, SendTurn, Sending, TypeOK
  <2>4. \A m \in Machines \ {h} : sendLock[m] # NULL => pc'[sendLock[m]] = pc[sendLock[m]]
    BY <1>1, <2>1 DEF PostInv, TypeOK
  <2>5. ~sendInt[h] /\ messageSent[h] = 0
    BY <1>1, <2>1 DEF PostInv, SendTurn
  <2> QED BY <1>0, <1>1, <2>2, <2>3, <2>4, <2>5 DEF PostInv, SendTurn
<1> QED BY <1>1, <1>2, <1>3, <1>4, SameOrder, SameBuffered DEF PostInv

\* A step of the receiving side leaves the sending side alone.
LEMMA OfficeSends ==
  ASSUME PostInv, UNCHANGED <<host, reliable, pc, mail, sending, posted>>
  PROVE Letters' /\ SendTurn'
<1>1. UNCHANGED <<host, pc, mail, sendLock, messageSent, sendInt>>
  BY DEF sending
<1>2. Letters'
  BY <1>1 DEF PostInv, Letters
<1>3. SendTurn'
  BY <1>1 DEF PostInv, SendTurn
<1> QED BY <1>2, <1>3

\* The mail of a machine that is on its way stays the same.
LEMMA ComingSame ==
  ASSUME PostInv, UNCHANGED <<boxes, posted, got>>,
         \A m \in Machines : Coming(m)' = Coming(m)
  PROVE InOrder'
  BY Zenon DEF PostInv, InOrder

\* A poll moves the first packet of the socket into the empty buffer.
LEMMA PollStep ==
  ASSUME PostInv, NEW m \in Machines, Poll(m)
  PROVE PostInv'
<1>1. /\ inbox[m] = NULL /\ wire[m] # <<>>
      /\ inbox' = [inbox EXCEPT ![m] = Head(wire[m])]
      /\ wire' = [wire EXCEPT ![m] = Tail(@)]
      /\ messageAvailable' = [messageAvailable EXCEPT ![m] = @ + 1]
      /\ UNCHANGED <<host, reliable, pc, mail, sending, worker, buffer, boxes, posted, got>>
  BY Zenon DEF Poll
<1>2. wire[m] \in Seq(Mail)
  BY PlaceTypes DEF PostInv
<1>3. PICK x \in Mail, s \in Seq(Mail) :
        x = Head(wire[m]) /\ s = Tail(wire[m]) /\ wire[m] = <<x>> \o s
  <2>1. Head(wire[m]) \in Mail /\ Tail(wire[m]) \in Seq(Mail)
    BY <1>1, <1>2
  <2>2. wire[m] = <<Head(wire[m])>> \o Tail(wire[m])
    BY <1>1, <1>2
  <2> QED BY <2>1, <2>2, Zenon
<1>4. /\ inbox'[m] = x /\ wire'[m] = s /\ x # NULL
      /\ \A n \in Machines \ {m} : inbox'[n] = inbox[n] /\ wire'[n] = wire[n]
  BY <1>1, <1>3, NoMailAssumption, Zenon DEF PostInv, TypeOK
<1>5. TypeOK'
  <2>1. inbox' \in [Machines -> Mail \cup {NULL}] /\ wire' \in [Machines -> Seq(Mail)]
    BY <1>1, <1>3 DEF PostInv, TypeOK
  <2>2. messageAvailable' \in [Machines -> Nat]
    BY <1>1 DEF PostInv, TypeOK
  <2> QED BY <1>1, <2>1, <2>2 DEF PostInv, TypeOK, sending
<1>6. Buffered'
  <2>1. messageAvailable[m] = 0 /\ worker[m] # "take"
    BY <1>1 DEF PostInv, Buffered
  <2>2. /\ messageAvailable'[m] = 1
        /\ \A n \in Machines \ {m} : messageAvailable'[n] = messageAvailable[n]
    BY <1>1, <2>1 DEF PostInv, TypeOK
  <2> QED BY <1>1, <1>4, <2>1, <2>2 DEF PostInv, Buffered
<1>7. InOrder'
  <2> SUFFICES ASSUME NEW n \in Machines PROVE Coming(n)' = Coming(n)
    BY <1>1, ComingSame
  <2>0. InHand(n)' = InHand(n) /\ InHand(n) \in Seq(Mail)
    BY <1>1, PlaceTypes DEF InHand, PostInv
  <2>1. CASE n # m
    BY <2>0, <2>1, <1>4, Zenon DEF Coming
  <2>2. CASE n = m
    <3>1. Coming(m)' = (InHand(m) \o <<x>>) \o s
      BY <1>4, <2>0, <2>2 DEF Coming, One
    <3>2. Coming(m) = (InHand(m) \o <<>>) \o (<<x>> \o s)
      BY <1>1, <1>3 DEF Coming, One
    <3>3. InHand(m) \o <<>> = InHand(m)
      BY <2>0, <2>2, ConcatEmpty
    <3>4. (InHand(m) \o <<x>>) \o s = InHand(m) \o (<<x>> \o s)
      <4>1. <<x>> \in Seq(Mail)
        OBVIOUS
      <4> QED BY <2>0, <2>2, <4>1, Assoc
    <3> QED BY <2>2, <3>1, <3>2, <3>3, <3>4
  <2> QED BY <2>1, <2>2
<1> QED BY <1>1, <1>5, <1>6, <1>7, OfficeSends DEF PostInv

\* The worker has its unit of messageAvailable.
LEMMA WorkerPStep ==
  ASSUME PostInv, NEW m \in Machines, WorkerP(m)
  PROVE PostInv'
<1>1. /\ worker[m] = "wait" /\ messageAvailable[m] # 0
      /\ messageAvailable' = [messageAvailable EXCEPT ![m] = @ - 1]
      /\ worker' = [worker EXCEPT ![m] = "take"]
      /\ UNCHANGED <<host, reliable, pc, mail, sending, wire, inbox, buffer, boxes, posted, got>>
  BY DEF WorkerP
<1>2. TypeOK'
  <2>1. /\ messageAvailable' \in [Machines -> Nat]
        /\ worker' \in [Machines -> {"wait", "take", "put"}]
    BY <1>1 DEF PostInv, TypeOK
  <2> QED BY <1>1, <2>1 DEF PostInv, TypeOK, sending
<1>3. worker'[m] = "take" /\ \A n \in Machines \ {m} : worker'[n] = worker[n]
  BY <1>1 DEF PostInv, TypeOK
<1>4. Buffered'
  <2>1. inbox[m] # NULL /\ messageAvailable[m] = 1
    BY <1>1 DEF PostInv, Buffered
  <2>2. /\ messageAvailable'[m] = 0
        /\ \A n \in Machines \ {m} : messageAvailable'[n] = messageAvailable[n]
    BY <1>1, <2>1 DEF PostInv, TypeOK
  <2> QED BY <1>1, <1>3, <2>1, <2>2 DEF PostInv, Buffered
<1>5. InOrder'
  <2>1. \A n \in Machines : InHand(n)' = InHand(n)
    BY <1>1, <1>3 DEF InHand
  <2> QED BY <1>1, <2>1, ComingSame, Zenon DEF Coming
<1> QED BY <1>1, <1>2, <1>4, <1>5, OfficeSends DEF PostInv

\* The worker takes the packet, which is there, and empties the buffer.
LEMMA ReceiveStep ==
  ASSUME PostInv, NEW m \in Machines, Receive(m)
  PROVE PostInv'
<1>1. /\ worker[m] = "take"
      /\ buffer' = [buffer EXCEPT ![m] = IF inbox[m] = NULL THEN @ ELSE inbox[m]]
      /\ inbox' = [inbox EXCEPT ![m] = NULL]
      /\ worker' = [worker EXCEPT ![m] = "put"]
      /\ UNCHANGED <<host, reliable, pc, mail, sending, wire, messageAvailable, boxes, posted, got>>
  BY DEF Receive
<1>2. inbox[m] # NULL /\ messageAvailable[m] = 0
  BY <1>1 DEF PostInv, Buffered
<1>3. /\ buffer'[m] = inbox[m] /\ inbox'[m] = NULL /\ worker'[m] = "put"
      /\ \A n \in Machines \ {m} : /\ buffer'[n] = buffer[n] /\ inbox'[n] = inbox[n]
                                   /\ worker'[n] = worker[n]
  BY <1>1, <1>2 DEF PostInv, TypeOK
<1>4. TypeOK'
  <2>1. /\ inbox' \in [Machines -> Mail \cup {NULL}] /\ buffer' \in [Machines -> Mail \cup {NULL}]
        /\ worker' \in [Machines -> {"wait", "take", "put"}]
    BY <1>1 DEF PostInv, TypeOK
  <2> QED BY <1>1, <2>1 DEF PostInv, TypeOK, sending
<1>5. Buffered'
  BY <1>1, <1>2, <1>3 DEF PostInv, Buffered
<1>6. InOrder'
  <2> SUFFICES ASSUME NEW n \in Machines PROVE Coming(n)' = Coming(n)
    BY <1>1, ComingSame
  <2>1. CASE n # m
    <3>1. InHand(n)' = InHand(n)
      BY <2>1, <1>3 DEF InHand
    <3>2. inbox'[n] = inbox[n] /\ wire'[n] = wire[n]
      BY <2>1, <1>1, <1>3
    <3> QED BY <3>1, <3>2 DEF Coming
  <2>2. CASE n = m
    <3>0. One(inbox[m]) \in Seq(Mail)
      BY PlaceTypes DEF PostInv
    <3>1. Coming(m)' = (One(inbox[m]) \o <<>>) \o wire[m]
      <4>1. InHand(m)' = One(inbox[m])
        BY <1>3 DEF InHand
      <4>2. One(inbox[m])' = <<>> /\ wire'[m] = wire[m]
        BY <1>1, <1>3 DEF One
      <4> QED BY <4>1, <4>2 DEF Coming
    <3>2. Coming(m) = (<<>> \o One(inbox[m])) \o wire[m]
      BY <1>1 DEF Coming, InHand
    <3>3. One(inbox[m]) \o <<>> = One(inbox[m]) /\ <<>> \o One(inbox[m]) = One(inbox[m])
      BY <3>0, ConcatEmpty
    <3> QED BY <2>2, <3>1, <3>2, <3>3
  <2> QED BY <2>1, <2>2
<1> QED BY <1>1, <1>4, <1>5, <1>6, OfficeSends DEF PostInv

LEMMA HeadAndTail ==
  ASSUME NEW s \in Seq(Mail), s # <<>>
  PROVE Head(s) \in Mail /\ Tail(s) \in Seq(Mail)
  OBVIOUS

\* MailBox::Get moves the first mail of the box to the end of what was received.
LEMMA GetStep ==
  ASSUME PostInv, NEW c \in Clients, Get(c)
  PROVE PostInv'
<1>0. PICK m \in Machines : m = host[c]
  BY DEF PostInv, TypeOK
<1>1. pc[c] = "receive"
  BY DEF Get, Goto
<1>2. PICK d \in Boxes : d = mail[c].box
  BY <1>1, Zenon DEF PostInv, Letters
<1>3. /\ pc' = [pc EXCEPT ![c] = "idle"] /\ pc'[c] = "idle" /\ boxes[m][d] # <<>>
      /\ \A u \in Clients \ {c} : pc'[u] = pc[u]
      /\ mail' = [mail EXCEPT ![c] = Head(boxes[m][d])]
      /\ boxes' = [boxes EXCEPT ![m][d] = Tail(@)]
      /\ got' = [got EXCEPT ![m][d] = Append(@, Head(boxes[m][d]))]
      /\ UNCHANGED <<host, reliable, sending, wire, receiving, posted>>
  BY <1>0, <1>2 DEF Get, Goto, PostInv, TypeOK
<1>4. boxes[m][d] \in Seq(Mail) /\ got[m][d] \in Seq(Mail)
  BY PlaceTypes DEF PostInv
<1>5. PICK x \in Mail, s \in Seq(Mail) :
        x = Head(boxes[m][d]) /\ s = Tail(boxes[m][d]) /\ boxes[m][d] = <<x>> \o s
  <2>1. Head(boxes[m][d]) \in Mail /\ Tail(boxes[m][d]) \in Seq(Mail)
    BY <1>3, <1>4, HeadAndTail, Zenon
  <2>2. boxes[m][d] = <<Head(boxes[m][d])>> \o Tail(boxes[m][d])
    BY <1>3, <1>4
  <2> QED BY <2>1, <2>2, Zenon
<1>6. /\ boxes' \in [Machines -> [Boxes -> Seq(Mail)]]
      /\ boxes'[m][d] = s
      /\ \A n \in Machines, b \in Boxes : n # m \/ b # d => boxes'[n][b] = boxes[n][b]
  <2>1. boxes \in [Machines -> [Boxes -> Seq(Mail)]]
    BY DEF PostInv, TypeOK
  <2> QED BY <1>3, <1>5, <2>1, BoxChange
<1>7. /\ got' \in [Machines -> [Boxes -> Seq(Mail)]]
      /\ got'[m][d] = Append(got[m][d], x)
      /\ \A n \in Machines, b \in Boxes : n # m \/ b # d => got'[n][b] = got[n][b]
  <2>1. got \in [Machines -> [Boxes -> Seq(Mail)]] /\ Append(got[m][d], x) \in Seq(Mail)
    BY <1>4 DEF PostInv, TypeOK
  <2> QED BY <1>3, <1>5, <2>1, BoxChange
<1>8. TypeOK'
  <2>1. pc' \in [Clients -> Points] /\ mail' \in [Clients -> Mail \cup [box : Boxes] \cup {NULL}]
    BY <1>3, <1>5, Zenon DEF PostInv, TypeOK, Points
  <2>2. \A f \in {boxes', posted', got'} : f \in [Machines -> [Boxes -> Seq(Mail)]]
    BY <1>3, <1>6, <1>7, Zenon DEF PostInv, TypeOK
  <2>3. UNCHANGED <<host, reliable, sendLock, messageSent, sendBusy, sendInt, wire,
                    inbox, messageAvailable, worker, buffer>>
    BY <1>3 DEF sending, receiving
  <2> QED BY <2>1, <2>2, <2>3, Zenon DEF PostInv, TypeOK
<1>9. Letters'
  <2>1. \A u \in Clients \ {c} : mail'[u] = mail[u]
    BY <1>3 DEF PostInv, TypeOK
  <2> QED BY <1>3, <2>1 DEF PostInv, Letters, Sending
<1>10. SendTurn'
  BY <1>1, <1>3, SameTurn, Zenon DEF PostInv, Sending
<1>11. InOrder'
  <2> SUFFICES ASSUME NEW n \in Machines, NEW b \in Boxes
               PROVE posted'[n][b] = got'[n][b] \o boxes'[n][b] \o ForBox(Coming(n)', b)
    BY Zenon DEF InOrder
  <2>0. /\ posted[n][b] = got[n][b] \o boxes[n][b] \o ForBox(Coming(n), b)
        /\ posted'[n][b] = posted[n][b]
    BY <1>3, Zenon DEF PostInv, InOrder
  <2>1. Coming(n)' = Coming(n)
    BY <1>3 DEF Coming, InHand, receiving
  <2>2. got'[n][b] \o boxes'[n][b] = got[n][b] \o boxes[n][b]
    <3>1. CASE n = m /\ b = d
      <4>1. Append(got[m][d], x) = got[m][d] \o <<x>> /\ <<x>> \in Seq(Mail)
        <5>1. x \in Mail /\ got[m][d] \in Seq(Mail)
          BY <1>4
        <5>2. Append(got[m][d], x) = got[m][d] \o <<x>>
          BY <5>1, AppendIsConcat, Zenon
        <5> QED BY <5>1, <5>2
      <4>2. (got[m][d] \o <<x>>) \o s = got[m][d] \o (<<x>> \o s)
        BY <1>4, <4>1, Assoc, Zenon
      <4> QED BY <3>1, <4>1, <4>2, <1>5, <1>6, <1>7, Zenon
    <3>2. CASE n # m \/ b # d
      BY <3>2, <1>6, <1>7, Zenon
    <3> QED BY <3>1, <3>2, Zenon
  <2> QED BY <2>0, <2>1, <2>2
<1> QED BY <1>3, <1>8, <1>9, <1>10, <1>11, SameBuffered DEF PostInv

LEMMA StutterPost == ASSUME PostInv, UNCHANGED vars PROVE PostInv'
<1>1. /\ UNCHANGED <<host, reliable, pc, mail, sending, wire, receiving, boxes, posted, got>>
      /\ UNCHANGED <<sendLock, messageSent, sendBusy, sendInt, inbox, messageAvailable, worker,
                     buffer>>
  BY DEF vars, sending, receiving
<1>2. TypeOK'
  BY <1>1 DEF PostInv, TypeOK
<1> QED BY <1>1, <1>2, SameOrder, SameBuffered, OfficeSends DEF PostInv

\* The invariants of the runs follow.
LEMMA PostInvSends == ASSUME PostInv PROVE SendExclusive
<1> SUFFICES ASSUME NEW c \in Clients
             PROVE /\ pc[c] \in Sending => sendLock[host[c]] = c
                   /\ pc[c] = "send" => ~sendInt[host[c]] /\ messageSent[host[c]] = 0
                   /\ pc[c] = "sent" => (sendInt[host[c]] <=> messageSent[host[c]] = 0)
  BY DEF SendExclusive, Sending
<1>1. host[c] \in Machines /\ c # NULL
  BY PostOfficeAssumption DEF PostInv, TypeOK
<1> QED BY <1>1 DEF PostInv, SendTurn, Sending

LEMMA PostInvOrders == ASSUME PostInv PROVE MailInOrder
<1>1. \A m \in Machines, b \in Boxes :
       posted[m][b] = got[m][b] \o boxes[m][b]
         \o ForBox((IF worker[m] = "put" THEN One(buffer[m]) ELSE <<>>)
                     \o One(inbox[m]) \o wire[m], b)
  BY Zenon DEF PostInv, InOrder, Coming, InHand
<1>2. ASSUME NEW m \in Machines
      PROVE messageAvailable[m] + (IF worker[m] = "take" THEN 1 ELSE 0)
              = IF inbox[m] = NULL THEN 0 ELSE 1
  <2>1. CASE inbox[m] = NULL
    BY <2>1 DEF PostInv, Buffered
  <2>2. CASE inbox[m] # NULL
    BY <2>2 DEF PostInv, Buffered
  <2> QED BY <2>1, <2>2
<1> QED BY <1>1, <1>2, Zenon DEF MailInOrder, PostInv

-----------------------------------------------------------------------------
(* The inductive invariant of the network test *)

\* Machine m has received a message of machine f.
HasHello(m, f) ==
  \E i \in 1..Len(got[m][Box0]) : got[m][Box0][i].data = Hello /\ got[m][Box0][i].from = f

\* A mail is a message, or the acknowledgement of one that was received.
Genuine(x) ==
  /\ x.from # x.to
  /\ \/ x.data = Hello /\ x.box = Box0 /\ x.reply = Box1
     \/ x.data = Ack /\ x.box = Box1 /\ HasHello(x.from, x.to)

Elements(s) == {s[i] : i \in 1..Len(s)}

\* What is under way to machine m, and what is in its boxes
Arriving(m) == Elements(wire[m]) \cup ({inbox[m], buffer[m]} \ {NULL})

MailGenuine ==
  /\ \A c \in Clients : pc[c] \in Sending \cup {"acquire"} => Genuine(mail[c])
  /\ \A m \in Machines :
       /\ \A x \in Arriving(m) : Genuine(x) /\ x.to = m
       /\ \A b \in Boxes : \A x \in Elements(boxes[m][b]) : Genuine(x) /\ x.to = m /\ x.box = b

\* What a client has received at its n-th call
Received(c, b) ==
  /\ mail[c] \in Mail /\ Genuine(mail[c]) /\ mail[c].to = host[c] /\ mail[c].box = b
  /\ b = Box0 => HasHello(host[c], mail[c].from)

\* Client c is where its script says.
InScript(c) ==
  /\ step[c] = 0 => pc[c] = "idle"
  /\ step[c] \in {1, 3} => pc[c] # "receive"
  /\ step[c] = 2 => \/ pc[c] = "receive" /\ mail[c].box = Box0
                    \/ pc[c] = "idle" /\ Received(c, Box0)
  /\ step[c] = 4 => \/ pc[c] = "receive" /\ mail[c].box = Box1
                    \/ pc[c] = "idle" /\ Received(c, Box1)

Script == step \in [Clients -> 0..4] /\ \A c \in Clients : InScript(c)

TestInv == PostInv /\ MailGenuine /\ Script

LEMMA ElementsAppend ==
  ASSUME NEW s \in Seq(Mail), NEW x \in Mail
  PROVE Elements(Append(s, x)) = Elements(s) \cup {x}
<1>1. Len(Append(s, x)) = Len(s) + 1 /\ Len(s) \in Nat
  OBVIOUS
<1>2. \A i \in 1..Len(s) : Append(s, x)[i] = s[i]
  OBVIOUS
<1>3. Append(s, x)[Len(s) + 1] = x
  OBVIOUS
<1>4. 1..(Len(s) + 1) = (1..Len(s)) \cup {Len(s) + 1}
  BY <1>1
<1> QED BY <1>1, <1>2, <1>3, <1>4 DEF Elements

LEMMA ElementsIn ==
  ASSUME NEW s \in Seq(Mail) PROVE Elements(s) \subseteq Mail
<1>1. \A i \in 1..Len(s) : s[i] \in Mail
  OBVIOUS
<1> QED BY <1>1, Zenon DEF Elements

LEMMA ElementsTail ==
  ASSUME NEW s \in Seq(Mail), s # <<>>
  PROVE Elements(Tail(s)) \subseteq Elements(s) /\ Head(s) \in Elements(s)
<1>1. \A i \in 1..Len(Tail(s)) : i + 1 \in 1..Len(s) /\ Tail(s)[i] = s[i + 1]
  OBVIOUS
<1>2. 1 \in 1..Len(s) /\ Head(s) = s[1]
  OBVIOUS
<1> QED BY <1>1, <1>2 DEF Elements

\* What is received stays received.
GotGrows ==
  \A m \in Machines : \A i \in 1..Len(got[m][Box0]) :
    i \in 1..Len(got'[m][Box0]) /\ got'[m][Box0][i] = got[m][Box0][i]

\* So a genuine mail stays genuine.
LEMMA GenuineKept ==
  ASSUME GotGrows, NEW x
  PROVE /\ \A m \in Machines, f \in Machines : HasHello(m, f) => HasHello(m, f)'
        /\ x.from \in Machines /\ x.to \in Machines /\ Genuine(x) => Genuine(x)'
<1>1. \A m \in Machines, f \in Machines : HasHello(m, f) => HasHello(m, f)'
  BY Zenon DEF GotGrows, HasHello
<1> QED BY <1>1 DEF Genuine

\* The mail that a step moves was there before, or is new and genuine.
LEMMA GenuineMoves ==
  ASSUME TypeOK, Letters, MailGenuine, GotGrows,
         \A u \in Clients : pc'[u] \in Sending \cup {"acquire"} =>
           \/ pc[u] \in Sending \cup {"acquire"} /\ mail'[u] = mail[u]
           \/ Genuine(mail[u])',
         \A m \in Machines : \A x \in Arriving(m)' :
           x \in Arriving(m) \/ \E u \in Clients : pc[u] = "send" /\ x = mail[u] /\ x.to = m,
         \A m \in Machines, b \in Boxes : \A x \in Elements(boxes'[m][b]) :
           x \in Elements(boxes[m][b]) \/ (x \in Arriving(m) /\ x.box = b)
  PROVE MailGenuine'
<1>1. \A x \in Mail : Genuine(x) => Genuine(x)'
  <2> SUFFICES ASSUME NEW x \in Mail, Genuine(x) PROVE Genuine(x)' OBVIOUS
  <2>1. x.from \in Machines /\ x.to \in Machines
    BY DEF Mail
  <2> QED BY <2>1, GenuineKept
<1>2. \A m \in Machines : Arriving(m) \subseteq Mail
  <2> SUFFICES ASSUME NEW m \in Machines PROVE Arriving(m) \subseteq Mail
    BY Zenon
  <2>1. /\ wire[m] \in Seq(Mail)
        /\ inbox[m] \in Mail \cup {NULL} /\ buffer[m] \in Mail \cup {NULL}
    BY Zenon DEF TypeOK
  <2> QED BY <2>1, ElementsIn, Zenon DEF Arriving
<1>3. \A m \in Machines, b \in Boxes : Elements(boxes[m][b]) \subseteq Mail
  <2> SUFFICES ASSUME NEW m \in Machines, NEW b \in Boxes PROVE Elements(boxes[m][b]) \subseteq Mail
    BY Zenon
  <2>1. boxes[m][b] \in Seq(Mail)
    BY PlaceTypes, Zenon
  <2> QED BY <2>1, ElementsIn, Zenon
<1>4. \A u \in Clients : pc'[u] \in Sending \cup {"acquire"} => Genuine(mail[u])'
  <2> SUFFICES ASSUME NEW u \in Clients, pc[u] \in Sending \cup {"acquire"}, mail'[u] = mail[u]
               PROVE Genuine(mail[u])'
    OBVIOUS
  <2>1. PICK x \in Mail : x = mail[u] /\ Genuine(x)
    BY DEF Letters, MailGenuine
  <2>2. Genuine(x)'
    BY <2>1, <1>1
  <2>3. mail'[u] = x
    BY <2>1
  <2> QED BY <2>2, <2>3, Zenon DEF Genuine, HasHello
<1>5. \A m \in Machines : \A x \in Arriving(m)' : Genuine(x)' /\ x.to = m
  <2> SUFFICES ASSUME NEW m \in Machines, NEW x \in Arriving(m)' PROVE Genuine(x)' /\ x.to = m
    OBVIOUS
  <2>1. CASE x \in Arriving(m)
    BY <2>1, <1>1, <1>2, Zenon DEF MailGenuine
  <2>2. CASE \E u \in Clients : pc[u] = "send" /\ x = mail[u] /\ x.to = m
    BY <2>2, <1>1 DEF MailGenuine, Letters, Sending
  <2> QED BY <2>1, <2>2
<1>6. \A m \in Machines, b \in Boxes : \A x \in Elements(boxes'[m][b]) :
        Genuine(x)' /\ x.to = m /\ x.box = b
  <2> SUFFICES ASSUME NEW m \in Machines, NEW b \in Boxes, NEW x \in Elements(boxes'[m][b])
               PROVE Genuine(x)' /\ x.to = m /\ x.box = b
    OBVIOUS
  <2>1. CASE x \in Elements(boxes[m][b])
    BY <2>1, <1>1, <1>3 DEF MailGenuine
  <2>2. CASE x \in Arriving(m) /\ x.box = b
    BY <2>2, <1>1, <1>2 DEF MailGenuine
  <2> QED BY <2>1, <2>2
<1> QED BY <1>4, <1>5, <1>6 DEF MailGenuine

LEMMA ReceivedKept ==
  ASSUME GotGrows, TypeOK, NEW c \in Clients, NEW b \in Boxes, Received(c, b),
         mail'[c] = mail[c], host'[c] = host[c]
  PROVE Received(c, b)'
<1>1. PICK x \in Mail, h \in Machines : x = mail[c] /\ h = host[c]
  BY Zenon DEF Received, TypeOK
<1>2. x.from \in Machines /\ x.to \in Machines
  BY DEF Mail
<1>3. Genuine(x) /\ x.to = h /\ x.box = b /\ (b = Box0 => HasHello(h, x.from))
  BY <1>1 DEF Received
<1>4. Genuine(x)' /\ (b = Box0 => HasHello(h, x.from)')
  BY <1>2, <1>3, GenuineKept
<1>5. mail'[c] = x /\ host'[c] = h
  BY <1>1
<1>6. Genuine(mail[c])' /\ (b = Box0 => HasHello(host[c], mail[c].from)')
  BY <1>4, <1>5, Zenon DEF Genuine, HasHello
<1> QED BY <1>3, <1>5, <1>6 DEF Received

\* A client that does not move stays where its script says.
LEMMA InScriptKept ==
  ASSUME TypeOK, GotGrows, NEW u \in Clients, InScript(u), host'[u] = host[u],
         step'[u] = step[u], pc'[u] = pc[u], mail'[u] = mail[u]
  PROVE InScript(u)'
<1>1. \A b \in Boxes : Received(u, b) => Received(u, b)'
  BY ReceivedKept, Zenon
<1> QED BY <1>1, NetworkTestAssumption, Zenon DEF InScript

\* One client moves.
LEMMA OneMoves ==
  ASSUME TypeOK, GotGrows, Script, UNCHANGED host, NEW c \in Clients, InScript(c)',
         step' \in [Clients -> 0..4],
         \A u \in Clients \ {c} : step'[u] = step[u] /\ pc'[u] = pc[u] /\ mail'[u] = mail[u]
  PROVE Script'
<1>1. ASSUME NEW u \in Clients PROVE InScript(u)'
  <2>1. CASE u = c
    BY <2>1
  <2>2. CASE u # c
    <3>1. InScript(u) /\ step'[u] = step[u] /\ pc'[u] = pc[u] /\ mail'[u] = mail[u]
      BY <2>2 DEF Script
    <3> QED BY <3>1, InScriptKept
  <2> QED BY <2>1, <2>2
<1> QED BY <1>1 DEF Script

\* A step of client c between two calls of its script
LEMMA ScriptMoves ==
  ASSUME TypeOK, Script, GotGrows, UNCHANGED <<host, step>>, NEW c \in Clients,
         step[c] \in {1, 3}, pc'[c] # "receive",
         \A u \in Clients \ {c} : pc'[u] = pc[u] /\ mail'[u] = mail[u]
  PROVE Script'
<1>1. InScript(c)'
  BY DEF InScript
<1> QED BY <1>1, OneMoves DEF Script

LEMMA GotSame == ASSUME UNCHANGED got PROVE GotGrows
  BY DEF GotGrows

\* A step of machine m's devices or its worker
LEMMA OfficeTest ==
  ASSUME TestInv, NEW m \in Machines, Office(m), UNCHANGED step
  PROVE MailGenuine' /\ Script'
<1>0. TypeOK /\ Letters /\ MailGenuine /\ Script
  BY DEF TestInv, PostInv
<1>1. UNCHANGED <<host, pc, mail, got>>
  BY DEF Office, SendDone, Poll, WorkerP, Receive, Put
<1>2. GotGrows
  BY <1>1, GotSame
<1>3. \A n \in Machines : Arriving(n)' \subseteq Arriving(n)
  <2> SUFFICES ASSUME NEW n \in Machines PROVE Arriving(n)' \subseteq Arriving(n) OBVIOUS
  <2>1. CASE SendDone(m) \/ WorkerP(m) \/ Put(m)
    <3>1. UNCHANGED <<wire, inbox, buffer>>
      BY <2>1 DEF SendDone, WorkerP, Put, receiving
    <3> QED BY <3>1 DEF Arriving
  <2>2. CASE Poll(m)
    <3>0. wire[m] \in Seq(Mail) /\ wire[m] # <<>>
      BY <2>2, <1>0, PlaceTypes, Zenon DEF Poll
    <3>1. /\ UNCHANGED buffer
          /\ n = m => inbox'[n] = Head(wire[n]) /\ wire'[n] = Tail(wire[n])
          /\ n # m => inbox'[n] = inbox[n] /\ wire'[n] = wire[n]
      BY <2>2, <1>0 DEF Poll, TypeOK
    <3>2. Elements(Tail(wire[m])) \subseteq Elements(wire[m]) /\ Head(wire[m]) \in Elements(wire[m])
      BY <3>0, ElementsTail
    <3> QED BY <3>1, <3>2 DEF Arriving
  <2>3. CASE Receive(m)
    <3>1. /\ UNCHANGED wire
          /\ inbox'[n] \in {inbox[n], NULL} /\ buffer'[n] \in {buffer[n], inbox[n]}
      BY <2>3, <1>0 DEF Receive, TypeOK
    <3> QED BY <3>1 DEF Arriving
  <2> QED BY <2>1, <2>2, <2>3 DEF Office
<1>4. \A n \in Machines, b \in Boxes : \A x \in Elements(boxes'[n][b]) :
        x \in Elements(boxes[n][b]) \/ (x \in Arriving(n) /\ x.box = b)
  <2>1. CASE UNCHANGED boxes
    BY <2>1
  <2>2. CASE Put(m)
    <3>1. PICK y \in Mail : y = buffer[m] /\ y # NULL /\ y.box \in Boxes
      BY <2>2, NoMailAssumption, Zenon DEF Put, TestInv, PostInv, TypeOK, Buffered, Mail
    <3>2. boxes \in [Machines -> [Boxes -> Seq(Mail)]] /\ boxes[m][y.box] \in Seq(Mail)
      BY <1>0, <3>1, PlaceTypes DEF TypeOK
    <3>3. Append(boxes[m][y.box], y) \in Seq(Mail)
      BY <3>2
    <3>4. boxes' = [boxes EXCEPT ![m][y.box] = Append(boxes[m][y.box], y)]
      BY <2>2, <3>1, Zenon DEF Put
    <3>5. /\ boxes'[m][y.box] = Append(boxes[m][y.box], y)
          /\ \A n \in Machines, b \in Boxes : n # m \/ b # y.box => boxes'[n][b] = boxes[n][b]
      BY <3>1, <3>2, <3>3, <3>4, BoxChange
    <3>6. Elements(boxes'[m][y.box]) = Elements(boxes[m][y.box]) \cup {y} /\ y \in Arriving(m)
      BY <3>1, <3>2, <3>5, ElementsAppend, Zenon DEF Arriving
    <3>7. ASSUME NEW n \in Machines, NEW b \in Boxes, NEW x \in Elements(boxes'[n][b])
          PROVE x \in Elements(boxes[n][b]) \/ (x \in Arriving(n) /\ x.box = b)
      <4>1. CASE n = m /\ b = y.box
        BY <4>1, <3>6, <3>7
      <4>2. CASE n # m \/ b # y.box
        BY <4>2, <3>5, <3>7, Zenon
      <4> QED BY <4>1, <4>2
    <3> QED BY <3>7
  <2> QED BY <2>1, <2>2 DEF Office, SendDone, Poll, WorkerP, Receive
<1>5. MailGenuine'
  BY <1>0, <1>1, <1>2, <1>3, <1>4, GenuineMoves
<1>6. \A u \in Clients : InScript(u)'
  BY <1>0, <1>1, <1>2, InScriptKept DEF Script
<1>7. Script'
  BY <1>0, <1>6 DEF Script
<1> QED BY <1>5, <1>7

\* A client that sends goes on.
LEMMA SendTest ==
  ASSUME TestInv, NEW c \in Clients, UNCHANGED step,
         Acquire(c) \/ (\E lost \in BOOLEAN : Send(c, lost)) \/ SentP(c) \/ Release(c)
  PROVE MailGenuine' /\ Script'
<1>0. TypeOK /\ Letters /\ MailGenuine /\ Script
  BY Zenon DEF TestInv, PostInv
<1>1. /\ pc[c] \in Sending \cup {"acquire"} /\ pc'[c] \in Sending \cup {"idle"}
      /\ pc'[c] # "idle" => mail'[c] = mail[c]
      /\ \A u \in Clients \ {c} : pc'[u] = pc[u] /\ mail'[u] = mail[u]
      /\ UNCHANGED <<host, receiving, boxes, got>>
  <2>1. CASE Acquire(c)
    BY <2>1, <1>0 DEF Acquire, Goto, Sending, TypeOK
  <2>2. CASE \E lost \in BOOLEAN : Send(c, lost)
    BY <2>2, <1>0, Zenon DEF Send, Goto, Sending, TypeOK
  <2>3. CASE SentP(c)
    BY <2>3, <1>0 DEF SentP, Goto, Sending, TypeOK
  <2>4. CASE Release(c)
    BY <2>4, <1>0 DEF Release, Goto, Sending, TypeOK
  <2> QED BY <2>1, <2>2, <2>3, <2>4, Zenon
<1>2. step[c] \in {1, 3} /\ pc'[c] # "receive"
  <2>1. InScript(c) /\ step[c] \in 0..4
    BY <1>0, Zenon DEF Script
  <2>2. pc[c] # "idle" /\ pc[c] # "receive" /\ pc'[c] # "receive"
    BY <1>1 DEF Sending
  <2>3. step[c] # 0
    BY <2>1, <2>2, Zenon DEF InScript
  <2>4. step[c] # 2 /\ step[c] # 4
    BY <2>1, <2>2, Zenon DEF InScript
  <2> QED BY <2>1, <2>2, <2>3, <2>4
<1>3. GotGrows
  BY <1>1, GotSame, Zenon
<1>4. Script'
  BY <1>0, <1>1, <1>2, <1>3, ScriptMoves, Zenon
<1>5. \A u \in Clients : pc'[u] \in Sending \cup {"acquire"} =>
        pc[u] \in Sending \cup {"acquire"} /\ mail'[u] = mail[u]
  BY <1>1, Zenon DEF Sending
<1>6. \A m \in Machines : \A x \in Arriving(m)' :
        x \in Arriving(m) \/ \E u \in Clients : pc[u] = "send" /\ x = mail[u] /\ x.to = m
  <2>0. UNCHANGED <<inbox, buffer>>
    BY <1>1, Zenon DEF receiving
  <2>1. CASE UNCHANGED wire
    BY <2>0, <2>1, Zenon DEF Arriving
  <2>2. CASE \E lost \in BOOLEAN : Send(c, lost) /\ ~lost
    <3>1. PICK y \in Mail : y = mail[c] /\ y.to \in Machines /\ pc[c] = "send"
      BY <2>2, <1>0, Zenon DEF Send, Goto, Letters, Sending, Mail
    <3>2. wire' = [wire EXCEPT ![y.to] = Append(wire[y.to], y)]
      BY <2>2, <3>1, Zenon DEF Send
    <3>3. wire[y.to] \in Seq(Mail)
      BY <1>0, <3>1, PlaceTypes
    <3>4. /\ wire'[y.to] = Append(wire[y.to], y)
          /\ \A m \in Machines : m # y.to => wire'[m] = wire[m]
      BY <3>1, <3>2, <1>0, Zenon DEF TypeOK
    <3>5. Elements(wire'[y.to]) = Elements(wire[y.to]) \cup {y}
      BY <3>3, <3>4, ElementsAppend
    <3> QED BY <2>0, <3>1, <3>4, <3>5, Zenon DEF Arriving
  <2> QED BY <2>1, <2>2, Zenon DEF Acquire, Send, SentP, Release
<1>7. MailGenuine'
  BY <1>0, <1>1, <1>3, <1>5, <1>6, GenuineMoves, Zenon
<1> QED BY <1>4, <1>7

\* A client receives a mail: the message it waits for, or the acknowledgement.
LEMMA GetTest ==
  ASSUME TestInv, NEW c \in Clients, Get(c), UNCHANGED step
  PROVE MailGenuine' /\ Script'
<1>0. TypeOK /\ Letters /\ MailGenuine /\ Script
  BY DEF TestInv, PostInv
<1>1. pc[c] = "receive"
  BY DEF Get, Goto
<1>2. PICK m \in Machines, d \in Boxes : m = host[c] /\ d = mail[c].box
  BY <1>0, <1>1 DEF Letters, TypeOK
<1>3. /\ pc'[c] = "idle" /\ boxes[m][d] # <<>> /\ mail'[c] = Head(boxes[m][d])
      /\ \A u \in Clients \ {c} : pc'[u] = pc[u] /\ mail'[u] = mail[u]
      /\ boxes' = [boxes EXCEPT ![m][d] = Tail(boxes[m][d])]
      /\ got' = [got EXCEPT ![m][d] = Append(got[m][d], Head(boxes[m][d]))]
      /\ UNCHANGED <<host, wire, receiving>>
  BY <1>0, <1>2 DEF Get, Goto, TypeOK
<1>4. /\ boxes \in [Machines -> [Boxes -> Seq(Mail)]] /\ boxes[m][d] \in Seq(Mail)
      /\ got \in [Machines -> [Boxes -> Seq(Mail)]] /\ got[m][d] \in Seq(Mail)
  BY <1>0, PlaceTypes, Zenon DEF TypeOK
<1>5. PICK x \in Mail : /\ x = Head(boxes[m][d]) /\ x \in Elements(boxes[m][d])
                        /\ Tail(boxes[m][d]) \in Seq(Mail)
                        /\ Elements(Tail(boxes[m][d])) \subseteq Elements(boxes[m][d])
  <2>1. Head(boxes[m][d]) \in Mail /\ Tail(boxes[m][d]) \in Seq(Mail)
    BY <1>3, <1>4, HeadAndTail, Zenon
  <2>2. /\ Elements(Tail(boxes[m][d])) \subseteq Elements(boxes[m][d])
        /\ Head(boxes[m][d]) \in Elements(boxes[m][d])
    BY <1>3, <1>4, ElementsTail, Zenon
  <2> QED BY <2>1, <2>2
<1>6. /\ boxes'[m][d] = Tail(boxes[m][d])
      /\ \A n \in Machines, b \in Boxes : n # m \/ b # d => boxes'[n][b] = boxes[n][b]
  BY <1>3, <1>4, <1>5, BoxChange
<1>7. Append(got[m][d], x) \in Seq(Mail)
  BY <1>4
<1>8. /\ got'[m][d] = Append(got[m][d], x)
      /\ \A n \in Machines, b \in Boxes : n # m \/ b # d => got'[n][b] = got[n][b]
  BY <1>3, <1>4, <1>5, <1>7, BoxChange
<1>9. GotGrows
  <2> SUFFICES ASSUME NEW n \in Machines, NEW i \in 1..Len(got[n][Box0])
               PROVE i \in 1..Len(got'[n][Box0]) /\ got'[n][Box0][i] = got[n][Box0][i]
    BY DEF GotGrows
  <2>1. CASE n = m /\ Box0 = d
    <3>1. i \in 1..Len(got[m][d])
      BY <2>1
    <3>2. i \in 1..Len(Append(got[m][d], x)) /\ Append(got[m][d], x)[i] = got[m][d][i]
      BY <1>4, <3>1
    <3> QED BY <2>1, <3>2, <1>8
  <2>2. CASE n # m \/ Box0 # d
    BY <2>2, <1>8, NetworkTestAssumption, Zenon
  <2> QED BY <2>1, <2>2
<1>10. MailGenuine'
  <2>1. \A u \in Clients : pc'[u] \in Sending \cup {"acquire"} =>
          pc[u] \in Sending \cup {"acquire"} /\ mail'[u] = mail[u]
    BY <1>3 DEF Sending
  <2>2. \A n \in Machines : Arriving(n)' = Arriving(n)
    BY <1>3, Zenon DEF Arriving, receiving
  <2>3. \A n \in Machines, b \in Boxes : Elements(boxes'[n][b]) \subseteq Elements(boxes[n][b])
    BY <1>5, <1>6
  <2> QED BY <1>0, <1>9, <2>1, <2>2, <2>3, GenuineMoves
<1>11. Received(c, d)'
  <2>0. x.from \in Machines /\ x.to \in Machines
    BY DEF Mail
  <2>1. Genuine(x) /\ x.to = m /\ x.box = d
    BY <1>0, <1>5 DEF MailGenuine
  <2>2. Genuine(x)'
    BY <1>9, <2>0, <2>1, GenuineKept
  <2>3. mail'[c] = x /\ host'[c] = m
    BY <1>2, <1>3, <1>5, Zenon
  <2>4. ASSUME d = Box0 PROVE HasHello(m, x.from)'
    <3>1. x.data = Hello
      BY <2>1, <2>4, NetworkTestAssumption DEF Genuine
    <3>2. got'[m][Box0] = Append(got[m][d], x)
      BY <1>8, <2>4
    <3>3. /\ Len(got[m][d]) + 1 \in 1..Len(Append(got[m][d], x))
          /\ Append(got[m][d], x)[Len(got[m][d]) + 1] = x
      BY <1>4
    <3> QED BY <3>1, <3>2, <3>3, Zenon DEF HasHello
  <2>5. Genuine(mail[c])' /\ (d = Box0 => HasHello(host[c], mail[c].from)')
    BY <2>2, <2>3, <2>4, Zenon DEF Genuine, HasHello
  <2> QED BY <2>1, <2>3, <2>5 DEF Received
<1>12. Script'
  <2>1. (step[c] = 2 /\ d = Box0) \/ (step[c] = 4 /\ d = Box1)
    BY <1>0, <1>1, <1>2 DEF Script, InScript
  <2>2. InScript(c)'
    BY <1>3, <1>11, <2>1 DEF InScript
  <2> QED BY <1>0, <1>3, <1>9, <2>2, OneMoves DEF Script
<1> QED BY <1>10, <1>12

\* With two machines, the far host is the other one.
LEMMA FarHost ==
  ASSUME TypeOK, NEW c \in Clients
  PROVE /\ farHost(c) \in Machines /\ farHost(c) # host[c]
        /\ \A m \in Machines : m # host[c] => m = farHost(c)
<1>1. \E m \in Machines : m # host[c]
  BY NetworkTestAssumption
<1>2. farHost(c) \in Machines /\ farHost(c) # host[c]
  BY <1>1, Zenon DEF farHost
<1>3. host[c] \in Machines
  BY DEF TypeOK
<1> QED BY <1>2, <1>3, NetworkTestAssumption

\* A call of Send or Receive moves no mail.
LEMMA CallMoves ==
  ASSUME TestInv, NEW c \in Clients, UNCHANGED <<host, wire, receiving, boxes, got>>,
         pc'[c] = "acquire" => Genuine(mail[c])', pc'[c] \in {"acquire", "receive"},
         \A u \in Clients \ {c} : pc'[u] = pc[u] /\ mail'[u] = mail[u]
  PROVE MailGenuine'
<1>0. TypeOK /\ Letters /\ MailGenuine
  BY DEF TestInv, PostInv
<1>1. GotGrows
  BY GotSame
<1>2. \A n \in Machines : Arriving(n)' = Arriving(n)
  BY DEF Arriving, receiving
<1>3. \A u \in Clients : pc'[u] \in Sending \cup {"acquire"} =>
        \/ pc[u] \in Sending \cup {"acquire"} /\ mail'[u] = mail[u]
        \/ Genuine(mail[u])'
  <2> SUFFICES ASSUME NEW u \in Clients, pc'[u] \in Sending \cup {"acquire"}
               PROVE \/ pc[u] \in Sending \cup {"acquire"} /\ mail'[u] = mail[u]
                     \/ Genuine(mail[u])'
    OBVIOUS
  <2>1. CASE u = c
    <3>1. pc'[c] = "acquire"
      BY <2>1 DEF Sending
    <3> QED BY <2>1, <3>1
  <2>2. CASE u # c
    BY <2>2
  <2> QED BY <2>1, <2>2
<1> QED BY <1>0, <1>1, <1>2, <1>3, GenuineMoves

\* The message
LEMMA SendHelloTest ==
  ASSUME TestInv, NEW c \in Clients, SendHello(c)
  PROVE TestInv'
<1>0. TypeOK /\ MailGenuine /\ Script /\ PostInv
  BY DEF TestInv, PostInv
<1>1. PICK h \in Machines, f \in Machines : h = host[c] /\ f = farHost(c) /\ f # h
  BY <1>0, FarHost DEF TypeOK
<1>2. CallSend(c, f, Box0, Box1, Hello)
  BY <1>1 DEF SendHello
<1>3. PostInv'
  BY <1>0, <1>2, CallSendStep, NetworkTestAssumption
<1>4. /\ pc[c] = "idle" /\ pc'[c] = "acquire"
      /\ mail'[c] = [from |-> h, to |-> f, box |-> Box0, reply |-> Box1, data |-> Hello]
      /\ \A u \in Clients \ {c} : pc'[u] = pc[u] /\ mail'[u] = mail[u]
      /\ UNCHANGED <<host, wire, receiving, boxes, got>>
  BY <1>0, <1>1, <1>2, Zenon DEF CallSend, Goto, TypeOK
<1>5. step[c] = 0 /\ step' = [step EXCEPT ![c] = 1]
  BY <1>0 DEF SendHello, Begins, Script
<1>6. Genuine(mail[c])'
  BY <1>1, <1>4 DEF Genuine
<1>7. MailGenuine'
  BY <1>4, <1>6, CallMoves
<1>8. Script'
  <2>1. /\ step' \in [Clients -> 0..4] /\ step'[c] = 1
        /\ \A u \in Clients \ {c} : step'[u] = step[u]
    BY <1>0, <1>5 DEF Script
  <2>2. InScript(c)' /\ GotGrows
    BY <1>4, <2>1, GotSame DEF InScript
  <2> QED BY <1>0, <1>4, <2>1, <2>2, OneMoves
<1> QED BY <1>3, <1>7, <1>8 DEF TestInv

\* The two calls of Receive
LEMMA AwaitTest ==
  ASSUME TestInv, NEW c \in Clients, NEW b \in Boxes, NEW n \in {2, 4}, Begins(c, n),
         CallReceive(c, b), b = IF n = 2 THEN Box0 ELSE Box1
  PROVE TestInv'
<1>0. TypeOK /\ MailGenuine /\ Script /\ PostInv
  BY DEF TestInv, PostInv
<1>1. PostInv'
  BY <1>0, CallReceiveStep
<1>2. /\ pc[c] = "idle" /\ pc'[c] = "receive" /\ mail'[c] = [box |-> b] /\ mail'[c].box = b
      /\ \A u \in Clients \ {c} : pc'[u] = pc[u] /\ mail'[u] = mail[u]
      /\ UNCHANGED <<host, wire, receiving, boxes, got>>
  BY <1>0 DEF CallReceive, Goto, TypeOK
<1>3. MailGenuine'
  BY <1>2, CallMoves
<1>4. Script'
  <2>1. /\ step' \in [Clients -> 0..4] /\ step'[c] = n
        /\ \A u \in Clients \ {c} : step'[u] = step[u]
    BY <1>0 DEF Script, Begins
  <2>2. InScript(c)' /\ GotGrows
    BY <1>2, <2>1, GotSame DEF InScript
  <2> QED BY <1>0, <1>2, <2>1, <2>2, OneMoves
<1> QED BY <1>1, <1>3, <1>4 DEF TestInv

\* The acknowledgement is sent after the message it acknowledges was received.
LEMMA SendAckTest ==
  ASSUME TestInv, NEW c \in Clients, SendAck(c)
  PROVE TestInv'
<1>0. TypeOK /\ MailGenuine /\ Script /\ PostInv
  BY DEF TestInv, PostInv
<1>1. step[c] = 2 /\ step' = [step EXCEPT ![c] = 3] /\ pc[c] = "idle"
  BY <1>0 DEF SendAck, Begins, CallSend, Goto, Script
<1>2. Received(c, Box0)
  BY <1>0, <1>1 DEF Script, InScript
<1>3. PICK x \in Mail, h \in Machines, f \in Machines : x = mail[c] /\ h = host[c] /\ f = x.from
  BY <1>0, <1>2, Zenon DEF Received, TypeOK, Mail
<1>4. h # f /\ x.reply = Box1 /\ HasHello(h, f)
  BY <1>2, <1>3, NetworkTestAssumption DEF Received, Genuine
<1>5. CallSend(c, f, Box1, Box1, Ack)
  BY <1>3, <1>4 DEF SendAck
<1>6. PostInv'
  BY <1>0, <1>5, CallSendStep, NetworkTestAssumption
<1>7. /\ pc'[c] = "acquire"
      /\ mail'[c] = [from |-> h, to |-> f, box |-> Box1, reply |-> Box1, data |-> Ack]
      /\ \A u \in Clients \ {c} : pc'[u] = pc[u] /\ mail'[u] = mail[u]
      /\ UNCHANGED <<host, wire, receiving, boxes, got>>
  BY <1>0, <1>3, <1>5, Zenon DEF CallSend, Goto, TypeOK
<1>8. Genuine(mail[c])'
  <2>1. HasHello(h, f)'
    BY <1>4, <1>7, Zenon DEF HasHello
  <2>2. /\ mail'[c].from = h /\ mail'[c].to = f /\ mail'[c].box = Box1 /\ mail'[c].data = Ack
    BY <1>7
  <2>3. HasHello(mail[c].from, mail[c].to)'
    BY <2>1, <2>2, Zenon DEF HasHello
  <2> QED BY <1>4, <2>2, <2>3 DEF Genuine
<1>9. MailGenuine'
  BY <1>7, <1>8, CallMoves, Zenon
<1>10. Script'
  <2>1. /\ step' \in [Clients -> 0..4] /\ step'[c] = 3
        /\ \A u \in Clients \ {c} : step'[u] = step[u]
    BY <1>0, <1>1 DEF Script
  <2>2. GotGrows
    BY <1>7, GotSame, Zenon
  <2>3. pc'[c] # "receive" /\ step'[c] # 0 /\ step'[c] # 2 /\ step'[c] # 4
    BY <1>7, <2>1
  <2>4. InScript(c)'
    BY <2>3, Zenon DEF InScript
  <2> QED BY <1>0, <1>7, <2>1, <2>2, <2>4, OneMoves
<1> QED BY <1>6, <1>9, <1>10 DEF TestInv

LEMMA StutterTest == ASSUME TestInv, UNCHANGED testVars PROVE TestInv'
<1>1. UNCHANGED vars /\ UNCHANGED step
  BY DEF testVars
<1>2. PostInv'
  BY <1>1, StutterPost DEF TestInv
<1>3. UNCHANGED <<host, pc, mail, wire, inbox, buffer, boxes, got>> /\ GotGrows
  BY <1>1, GotSame DEF vars, receiving
<1>4. MailGenuine'
  <2>1. \A m \in Machines : Arriving(m)' = Arriving(m)
    BY <1>3, Zenon DEF Arriving
  <2> QED BY <1>3, <2>1, GenuineMoves, Zenon DEF TestInv, PostInv
<1>5. Script'
  <2>1. \A u \in Clients : InScript(u)'
    BY <1>1, <1>3, InScriptKept DEF TestInv, PostInv, Script
  <2> QED BY <1>1, <2>1 DEF TestInv, Script
<1> QED BY <1>2, <1>4, <1>5 DEF TestInv

LEMMA TestInvAcks == ASSUME TestInv PROVE AckMeansReceived
<1> SUFFICES ASSUME NEW c \in Clients, Done(c)
             PROVE /\ mail[c].data = Ack /\ mail[c].from = farHost(c)
                   /\ HasHello(farHost(c), host[c])
  BY Zenon DEF AckMeansReceived, HasHello
<1>1. Received(c, Box1) /\ TypeOK
  BY DEF Done, TestInv, PostInv, Script, InScript
<1>2. mail[c].data = Ack /\ HasHello(mail[c].from, mail[c].to)
  BY <1>1, NetworkTestAssumption DEF Received, Genuine
<1>3. mail[c].from \in Machines /\ mail[c].from # host[c] /\ mail[c].to = host[c]
  BY <1>1 DEF Received, Genuine, Mail
<1>4. mail[c].from = farHost(c)
  BY <1>1, <1>3, FarHost
<1> QED BY <1>2, <1>3, <1>4

-----------------------------------------------------------------------------
(* The mails for a box, as a sequence grows at either end *)

\* The library's theorems about well-founded relations
Induction == INSTANCE WellFoundedInduction

\* Induction on the natural numbers, for a set in the place of a predicate: a least
\* element outside S would contradict the step.
LEMMA SetInduction ==
  ASSUME NEW S, 0 \in S, \A n \in Nat : n \in S => n + 1 \in S
  PROVE Nat \subseteq S
<1> DEFINE T == Nat \ S
<1> SUFFICES ASSUME T # {} PROVE FALSE OBVIOUS
<1>1. PICK x \in T : \A y \in T : ~ (<<y, x>> \in Induction!OpToRel(<, Nat))
  BY Induction!WFMin, Induction!NatLessThanWellFounded, Zenon
<1>2. \A y \in T : ~(y < x)
  BY <1>1, Zenon DEF Induction!OpToRel
<1> QED BY <1>2

\* What mail x adds to the mails for box b
Part(x, b) == IF x.box = b THEN <<x>> ELSE <<>>

LEMMA PartType == ASSUME NEW x \in Mail, NEW b PROVE Part(x, b) \in Seq(Mail)
  BY DEF Part

\* k[i] holds the mails for box b among the first i of s.
Keeps(k, s, b) ==
  /\ DOMAIN k = 0..Len(s)
  /\ k[0] = <<>>
  /\ \A i \in 1..Len(s) : k[i] = k[i - 1] \o Part(s[i], b)

\* There is such a function for every sequence.
LEMMA KeepsExists ==
  ASSUME NEW b
  PROVE \A s \in Seq(Mail) : \E k \in [0..Len(s) -> Seq(Mail)] : Keeps(k, s, b)
<1> DEFINE S == {n \in Nat : \A s \in Seq(Mail) : Len(s) = n =>
                      \E k \in [0..Len(s) -> Seq(Mail)] : Keeps(k, s, b)}
<1>1. 0 \in S
  <2> SUFFICES ASSUME NEW s \in Seq(Mail), Len(s) = 0
               PROVE \E k \in [0..Len(s) -> Seq(Mail)] : Keeps(k, s, b)
    OBVIOUS
  <2>1. [i \in 0..Len(s) |-> <<>>] \in [0..Len(s) -> Seq(Mail)]
    OBVIOUS
  <2>2. Keeps([i \in 0..Len(s) |-> <<>>], s, b)
    BY DEF Keeps
  <2> QED BY <2>1, <2>2
<1>2. ASSUME NEW n \in Nat, n \in S PROVE n + 1 \in S
  <2> SUFFICES ASSUME NEW s \in Seq(Mail), Len(s) = n + 1
               PROVE \E k \in [0..Len(s) -> Seq(Mail)] : Keeps(k, s, b)
    OBVIOUS
  <2> DEFINE f == SubSeq(s, 1, n)
  <2>1. f \in Seq(Mail) /\ Len(f) = n /\ \A i \in 1..n : f[i] = s[i]
    OBVIOUS
  <2>2. PICK k \in [0..n -> Seq(Mail)] : Keeps(k, f, b)
    BY <1>2, <2>1, Zenon
  <2> HIDE DEF f
  <2> DEFINE g == [i \in 0..(n + 1) |-> IF i = n + 1 THEN k[n] \o Part(s[n + 1], b) ELSE k[i]]
  <2>3. s[n + 1] \in Mail /\ Part(s[n + 1], b) \in Seq(Mail)
    BY PartType
  <2>4. g \in [0..(n + 1) -> Seq(Mail)]
    BY <2>3
  <2>5. g[n + 1] = k[n] \o Part(s[n + 1], b) /\ \A i \in 0..n : g[i] = k[i]
    OBVIOUS
  <2> HIDE DEF g
  <2>6. \A i \in 1..(n + 1) : g[i] = g[i - 1] \o Part(s[i], b)
    <3> SUFFICES ASSUME NEW i \in 1..(n + 1) PROVE g[i] = g[i - 1] \o Part(s[i], b)
      OBVIOUS
    <3>1. i - 1 \in 0..n /\ g[i - 1] = k[i - 1]
      BY <2>5
    <3>2. CASE i = n + 1
      <4>1. i - 1 = n
        BY <3>2
      <4> QED BY <2>5, <3>1, <3>2, <4>1
    <3>3. CASE i \in 1..n
      <4>1. g[i] = k[i] /\ f[i] = s[i]
        BY <2>1, <2>5, <3>3
      <4>2. k[i] = k[i - 1] \o Part(f[i], b)
        BY <2>1, <2>2, <3>3, Zenon DEF Keeps
      <4> QED BY <3>1, <4>1, <4>2
    <3> QED BY <3>2, <3>3
  <2>7. g[0] = <<>>
    BY <2>2, <2>5 DEF Keeps
  <2> QED BY <2>4, <2>6, <2>7, Zenon DEF Keeps
<1> HIDE DEF S
<1>3. Nat \subseteq S
  BY <1>1, <1>2, SetInduction
<1> QED BY <1>3 DEF S

\* There is only one.
LEMMA KeepsUnique ==
  ASSUME NEW b, NEW s \in Seq(Mail), NEW k, NEW l, Keeps(k, s, b), Keeps(l, s, b)
  PROVE \A i \in 0..Len(s) : k[i] = l[i]
<1> DEFINE S == {n \in Nat : n <= Len(s) => k[n] = l[n]}
<1>1. 0 \in S
  BY DEF Keeps
<1>2. ASSUME NEW n \in Nat, n \in S PROVE n + 1 \in S
  BY <1>2 DEF Keeps
<1> HIDE DEF S
<1>3. Nat \subseteq S
  BY <1>1, <1>2, SetInduction
<1> QED BY <1>3 DEF S

\* So ForBox, which is defined by recursion, is its last value.
LEMMA ForBoxDef ==
  ASSUME NEW b, NEW s \in Seq(Mail), NEW k \in [0..Len(s) -> Seq(Mail)], Keeps(k, s, b)
  PROVE ForBox(s, b) = k[Len(s)]
<1> DEFINE E(f) == [i \in 0..Len(s) |-> IF i = 0 THEN <<>>
                       ELSE f[i - 1] \o (IF s[i].box = b THEN <<s[i]>> ELSE <<>>)]
<1> DEFINE c == CHOOSE f : f = E(f)
<1>1. k = E(k)
  <2>1. DOMAIN k = DOMAIN E(k)
    OBVIOUS
  <2>2. ASSUME NEW i \in 0..Len(s) PROVE k[i] = E(k)[i]
    <3>1. CASE i = 0
      BY <3>1 DEF Keeps
    <3>2. CASE i # 0
      <4>1. i \in 1..Len(s)
        BY <3>2
      <4>2. k[i] = k[i - 1] \o Part(s[i], b)
        BY <4>1, Zenon DEF Keeps
      <4> QED BY <3>2, <4>2, Zenon DEF Part
    <3> QED BY <3>1, <3>2, Zenon
  <2> QED BY <2>1, <2>2
<1>2. c = E(c)
  BY <1>1, Zenon
<1> HIDE DEF c
<1>3. Keeps(c, s, b)
  <2>1. DOMAIN c = 0..Len(s)
    BY <1>2, Zenon
  <2>2. \A i \in 0..Len(s) : c[i] = E(c)[i]
    BY <1>2, Zenon
  <2>3. c[0] = <<>>
    <3>1. 0 \in 0..Len(s)
      OBVIOUS
    <3>2. E(c)[0] = <<>>
      BY <3>1
    <3> QED BY <2>2, <3>1, <3>2, Zenon
  <2>4. ASSUME NEW i \in 1..Len(s) PROVE c[i] = c[i - 1] \o Part(s[i], b)
    <3>1. i \in 0..Len(s) /\ i # 0
      OBVIOUS
    <3> QED BY <2>2, <3>1, Zenon DEF Part
  <2> QED BY <2>1, <2>3, <2>4 DEF Keeps
<1>4. c[Len(s)] = k[Len(s)]
  BY <1>3, KeepsUnique
<1>5. ForBox(s, b) = c[Len(s)]
  BY Zenon DEF ForBox, c
<1> QED BY <1>4, <1>5

LEMMA ForBoxType == ASSUME NEW b, NEW s \in Seq(Mail) PROVE ForBox(s, b) \in Seq(Mail)
<1>1. PICK k \in [0..Len(s) -> Seq(Mail)] : Keeps(k, s, b)
  BY KeepsExists, Zenon
<1> QED BY <1>1, ForBoxDef

LEMMA ForBoxEmpty == ASSUME NEW b PROVE ForBox(<<>>, b) = <<>>
<1>1. <<>> \in Seq(Mail) /\ Len(<<>>) = 0
  OBVIOUS
<1>2. PICK k \in [0..Len(<<>>) -> Seq(Mail)] : Keeps(k, <<>>, b)
  BY <1>1, KeepsExists, Zenon
<1>3. ForBox(<<>>, b) = k[Len(<<>>)]
  BY <1>1, <1>2, ForBoxDef, Zenon
<1> QED BY <1>1, <1>2, <1>3 DEF Keeps

\* A mail that is sent comes last.
LEMMA ForBoxAppend ==
  ASSUME NEW b, NEW s \in Seq(Mail), NEW x \in Mail
  PROVE ForBox(Append(s, x), b) = ForBox(s, b) \o Part(x, b)
<1> DEFINE n == Len(s)
           sx == Append(s, x)
<1>1. sx \in Seq(Mail) /\ Len(sx) = n + 1 /\ sx[n + 1] = x /\ \A i \in 1..n : sx[i] = s[i]
  OBVIOUS
<1>2. n \in Nat
  OBVIOUS
<1> HIDE DEF sx, n
<1>3. PICK k \in [0..(n + 1) -> Seq(Mail)] : Keeps(k, sx, b)
  BY <1>1, KeepsExists, Zenon
<1>4. ForBox(sx, b) = k[n + 1] /\ k[n + 1] = k[n] \o Part(x, b)
  <2>1. ForBox(sx, b) = k[Len(sx)]
    BY <1>1, <1>3, ForBoxDef
  <2>2. n + 1 \in 1..Len(sx) /\ (n + 1) - 1 = n
    BY <1>1, <1>2
  <2> QED BY <1>1, <1>3, <2>1, <2>2, Zenon DEF Keeps
<1> DEFINE l == [i \in 0..n |-> k[i]]
<1>5. l \in [0..n -> Seq(Mail)] /\ Keeps(l, s, b)
  <2>1. l \in [0..n -> Seq(Mail)] /\ l[0] = <<>>
    BY <1>2, <1>3 DEF Keeps
  <2>2. ASSUME NEW i \in 1..n PROVE l[i] = l[i - 1] \o Part(s[i], b)
    <3>1. i \in 1..(n + 1) /\ i \in 0..n /\ i - 1 \in 0..n
      BY <1>2
    <3>2. k[i] = k[i - 1] \o Part(sx[i], b)
      BY <1>1, <1>3, <3>1 DEF Keeps
    <3> QED BY <1>1, <3>1, <3>2, Zenon
  <2> HIDE DEF l
  <2> QED BY <2>1, <2>2 DEF Keeps, n
<1>6. ForBox(s, b) = k[n]
  <2>1. ForBox(s, b) = l[n]
    <3> HIDE DEF l
    <3> QED BY <1>5, ForBoxDef DEF n
  <2> QED BY <1>2, <2>1
<1> QED BY <1>4, <1>6 DEF sx

\* A mail that is taken was first.
LEMMA ForBoxCons ==
  ASSUME NEW b, NEW x \in Mail
  PROVE \A s \in Seq(Mail) : ForBox(<<x>> \o s, b) = Part(x, b) \o ForBox(s, b)
<1> DEFINE S == {n \in Nat : \A s \in Seq(Mail) : Len(s) = n =>
                      ForBox(<<x>> \o s, b) = Part(x, b) \o ForBox(s, b)}
<1>1. 0 \in S
  <2> SUFFICES ASSUME NEW s \in Seq(Mail), Len(s) = 0
               PROVE ForBox(<<x>> \o s, b) = Part(x, b) \o ForBox(s, b)
    OBVIOUS
  <2>1. s = <<>> /\ <<x>> \o s = Append(s, x)
    OBVIOUS
  <2>2. ForBox(Append(s, x), b) = ForBox(s, b) \o Part(x, b)
    BY ForBoxAppend, Zenon
  <2>3. ForBox(s, b) = <<>> /\ Part(x, b) \in Seq(Mail)
    BY <2>1, ForBoxEmpty, PartType
  <2> QED BY <2>1, <2>2, <2>3, ConcatEmpty
<1>2. ASSUME NEW n \in Nat, n \in S PROVE n + 1 \in S
  <2> SUFFICES ASSUME NEW s \in Seq(Mail), Len(s) = n + 1
               PROVE ForBox(<<x>> \o s, b) = Part(x, b) \o ForBox(s, b)
    OBVIOUS
  <2>1. PICK f \in Seq(Mail), y \in Mail : s = Append(f, y) /\ Len(f) = n
    <3>1. PICK f \in Seq(Mail), y \in Mail : s = Append(f, y)
      <4>1. /\ SubSeq(s, 1, n) \in Seq(Mail) /\ s[n + 1] \in Mail
            /\ s = Append(SubSeq(s, 1, n), s[n + 1])
        OBVIOUS
      <4> QED BY <4>1, Zenon
    <3> QED BY <3>1
  <2>2. ForBox(<<x>> \o f, b) = Part(x, b) \o ForBox(f, b)
    BY <1>2, <2>1, Zenon
  <2>3. <<x>> \o f \in Seq(Mail) /\ <<x>> \o s = Append(<<x>> \o f, y)
    BY <2>1
  <2>4. ForBox(<<x>> \o s, b) = (Part(x, b) \o ForBox(f, b)) \o Part(y, b)
    BY <2>2, <2>3, ForBoxAppend, Zenon
  <2>5. ForBox(s, b) = ForBox(f, b) \o Part(y, b)
    BY <2>1, ForBoxAppend
  <2>6. Part(x, b) \in Seq(Mail) /\ ForBox(f, b) \in Seq(Mail) /\ Part(y, b) \in Seq(Mail)
    BY PartType, ForBoxType
  <2>7. (Part(x, b) \o ForBox(f, b)) \o Part(y, b) = Part(x, b) \o (ForBox(f, b) \o Part(y, b))
    BY <2>6, Assoc, Zenon
  <2> QED BY <2>4, <2>5, <2>7, Zenon
<1> HIDE DEF S
<1>3. Nat \subseteq S
  BY <1>1, <1>2, SetInduction
<1> QED BY <1>3 DEF S

-----------------------------------------------------------------------------
(* The steps that sort mail into boxes *)

\* The constructors
LEMMA InitPost == ASSUME Init PROVE PostInv
<1>1. TypeOK
  BY DEF Init, TypeOK, Points
<1>2. Letters /\ SendTurn /\ Buffered
  BY DEF Init, Letters, SendTurn, Buffered, Sending
<1>3. InOrder
  <2> SUFFICES ASSUME NEW m \in Machines, NEW b \in Boxes
               PROVE posted[m][b] = got[m][b] \o boxes[m][b] \o ForBox(Coming(m), b)
    BY Zenon DEF InOrder
  <2>1. posted[m][b] = <<>> /\ got[m][b] = <<>> /\ boxes[m][b] = <<>>
    BY DEF Init
  <2>2. Coming(m) = <<>>
    BY DEF Init, Coming, InHand, One
  <2> QED BY <2>1, <2>2, ForBoxEmpty
<1> QED BY <1>1, <1>2, <1>3 DEF PostInv

\* NetworkOutput::Send: a mail that is not lost comes last, behind all that is on its way.
LEMMA SendStep ==
  ASSUME PostInv, NEW c \in Clients, NEW lost \in BOOLEAN, Send(c, lost)
  PROVE PostInv'
<1>0. PICK h \in Machines : h = host[c]
  BY DEF PostInv, TypeOK
<1>1. /\ pc[c] = "send" /\ pc'[c] = "sent" /\ pc' = [pc EXCEPT ![c] = "sent"]
      /\ \A u \in Clients \ {c} : pc'[u] = pc[u]
      /\ sendInt' = [sendInt EXCEPT ![h] = TRUE] /\ sendInt'[h] = TRUE
      /\ \A m \in Machines \ {h} : sendInt'[m] = sendInt[m]
      /\ UNCHANGED <<host, reliable, mail, sendLock, messageSent, sendBusy, receiving, boxes, got>>
  BY <1>0 DEF Send, Goto, PostInv, TypeOK
<1>2. PICK x \in Mail : x = mail[c]
  BY <1>1 DEF PostInv, Letters, Sending
<1>3. x.to \in Machines /\ x.box \in Boxes
  BY DEF Mail
<1>4. \/ UNCHANGED <<wire, posted>>
      \/ /\ wire' = [wire EXCEPT ![x.to] = Append(@, x)]
         /\ posted' = [posted EXCEPT ![x.to][x.box] = Append(@, x)]
  BY <1>2 DEF Send
<1>40. posted' = [posted EXCEPT ![x.to][x.box] = Append(@, x)] =>
         /\ posted' \in [Machines -> [Boxes -> Seq(Mail)]]
         /\ posted'[x.to][x.box] = Append(posted[x.to][x.box], x)
         /\ \A m \in Machines, b \in Boxes :
              m # x.to \/ b # x.box => posted'[m][b] = posted[m][b]
  <2>1. /\ posted \in [Machines -> [Boxes -> Seq(Mail)]]
        /\ Append(posted[x.to][x.box], x) \in Seq(Mail)
    <3>1. posted[x.to][x.box] \in Seq(Mail)
      BY <1>3, PlaceTypes, Zenon DEF PostInv
    <3> QED BY <3>1 DEF PostInv, TypeOK
  <2> QED BY <1>3, <2>1, BoxChange
<1>5. TypeOK'
  <2>1. /\ pc' \in [Clients -> Points] /\ sendInt' \in [Machines -> BOOLEAN]
        /\ UNCHANGED <<host, reliable, mail, sendLock, messageSent, sendBusy,
                       inbox, messageAvailable, worker, buffer, boxes, got>>
    BY <1>1 DEF PostInv, TypeOK, Points, receiving
  <2>2. wire' \in [Machines -> Seq(Mail)]
    <3>1. wire \in [Machines -> Seq(Mail)] /\ Append(wire[x.to], x) \in Seq(Mail)
      BY <1>3 DEF PostInv, TypeOK
    <3> QED BY <1>3, <1>4, <3>1, Zenon
  <2>3. posted' \in [Machines -> [Boxes -> Seq(Mail)]]
    BY <1>3, <1>4, <1>40 DEF PostInv, TypeOK
  <2> QED BY <2>1, <2>2, <2>3, Zenon DEF PostInv, TypeOK
<1>6. Letters'
  BY <1>1 DEF PostInv, Letters, Sending
<1>7. SendTurn'
  <2>1. /\ sendLock[h] = c /\ c # NULL
        /\ \A m \in Machines : m # h => sendLock[m] # c
    BY <1>0, <1>1, TurnIsMine DEF PostInv, Sending
  <2>2. \A u \in Clients : pc'[u] \in Sending => sendLock'[host'[u]] = u
    BY <1>1 DEF PostInv, SendTurn, Sending
  <2>3. \A m \in Machines \ {h} : sendLock[m] # NULL => pc'[sendLock[m]] = pc[sendLock[m]]
    BY <1>1, <2>1 DEF PostInv, TypeOK
  <2>4. ~sendInt[h] /\ messageSent[h] = 0
    BY <1>1, <2>1 DEF PostInv, SendTurn
  <2> QED BY <1>0, <1>1, <2>1, <2>2, <2>3, <2>4 DEF PostInv, SendTurn, Sending
<1>8. InOrder'
  <2>1. CASE UNCHANGED <<wire, posted>>
    BY <1>1, <2>1, SameOrder DEF PostInv
  <2>2. CASE /\ wire' = [wire EXCEPT ![x.to] = Append(@, x)]
             /\ posted' = [posted EXCEPT ![x.to][x.box] = Append(@, x)]
    <3> SUFFICES ASSUME NEW m \in Machines, NEW b \in Boxes
                 PROVE posted'[m][b] = got'[m][b] \o boxes'[m][b] \o ForBox(Coming(m)', b)
      BY Zenon DEF InOrder
    <3>0. /\ posted[m][b] = got[m][b] \o boxes[m][b] \o ForBox(Coming(m), b)
          /\ got'[m][b] = got[m][b] /\ boxes'[m][b] = boxes[m][b]
          /\ got[m][b] \in Seq(Mail) /\ boxes[m][b] \in Seq(Mail)
      BY <1>1, PlaceTypes, Zenon DEF PostInv, InOrder
    <3>1. InHand(m)' = InHand(m) /\ One(inbox[m])' = One(inbox[m])
      BY <1>1 DEF InHand, receiving
    <3>2. InHand(m) \in Seq(Mail) /\ One(inbox[m]) \in Seq(Mail) /\ wire[m] \in Seq(Mail)
      BY PlaceTypes DEF PostInv
    <3>3. CASE m # x.to
      <4>1. wire'[m] = wire[m]
        BY <2>2, <3>3, <1>3, Zenon DEF PostInv, TypeOK
      <4>2. posted'[m][b] = posted[m][b]
        BY <2>2, <3>3, <1>40
      <4> QED BY <3>0, <3>1, <4>1, <4>2 DEF Coming
    <3>4. CASE m = x.to
      <4>1. wire'[m] = Append(wire[m], x)
        BY <2>2, <3>4, Zenon DEF PostInv, TypeOK
      <4>2. Coming(m)' = Append(Coming(m), x) /\ Coming(m) \in Seq(Mail)
        <5>1. InHand(m) \o One(inbox[m]) \in Seq(Mail)
          BY <3>2
        <5>2. (InHand(m) \o One(inbox[m])) \o Append(wire[m], x)
                = Append((InHand(m) \o One(inbox[m])) \o wire[m], x)
          BY <5>1, <3>2, AppendConcat, Zenon
        <5>3. Coming(m) \in Seq(Mail)
          BY PlaceTypes DEF PostInv
        <5> QED BY <5>2, <5>3, <3>1, <4>1, Zenon DEF Coming
      <4>3. ForBox(Coming(m)', b) = ForBox(Coming(m), b) \o Part(x, b)
        BY <4>2, ForBoxAppend
      <4>4. posted'[m][b] = posted[m][b] \o Part(x, b)
        <5>1. posted[m][b] \in Seq(Mail)
          BY PlaceTypes DEF PostInv
        <5>2. CASE b = x.box
          <6>1. posted'[m][b] = Append(posted[m][b], x)
            BY <5>2, <2>2, <3>4, <1>40
          <6>2. Part(x, b) = <<x>>
            BY <5>2 DEF Part
          <6> QED BY <5>1, <6>1, <6>2, AppendIsConcat, Zenon
        <5>3. CASE b # x.box
          <6>1. posted'[m][b] = posted[m][b]
            BY <5>3, <2>2, <1>40
          <6>2. Part(x, b) = <<>>
            BY <5>3 DEF Part
          <6>3. posted[m][b] \o <<>> = posted[m][b]
            BY <5>1, ConcatEmpty
          <6> QED BY <6>1, <6>2, <6>3
        <5> QED BY <5>2, <5>3
      <4>5. /\ ForBox(Coming(m), b) \in Seq(Mail) /\ Part(x, b) \in Seq(Mail)
            /\ got[m][b] \o boxes[m][b] \in Seq(Mail)
        BY <4>2, <3>0, ForBoxType, PartType
      <4>6. (got[m][b] \o boxes[m][b] \o ForBox(Coming(m), b)) \o Part(x, b)
              = got[m][b] \o boxes[m][b] \o (ForBox(Coming(m), b) \o Part(x, b))
        BY <4>5, Assoc, Zenon
      <4> QED BY <3>0, <4>3, <4>4, <4>6, Zenon
    <3> QED BY <3>3, <3>4, Zenon
  <2> QED BY <1>4, <2>1, <2>2
<1> QED BY <1>1, <1>5, <1>6, <1>7, <1>8, SameBuffered DEF PostInv

\* MailBox::Put moves the first mail on its way to the end of its box.
LEMMA PutStep ==
  ASSUME PostInv, NEW m \in Machines, Put(m)
  PROVE PostInv'
<1>1. /\ worker[m] = "put"
      /\ boxes' = [boxes EXCEPT ![m][buffer[m].box] = Append(@, buffer[m])]
      /\ worker' = [worker EXCEPT ![m] = "wait"]
      /\ UNCHANGED <<host, reliable, pc, mail, sending, wire, inbox, messageAvailable, buffer,
                     posted, got>>
  BY Zenon DEF Put
<1>2. PICK x \in Mail : x = buffer[m]
  BY <1>1 DEF PostInv, TypeOK, Buffered
<1>3. x.box \in Boxes /\ x # NULL
  BY NoMailAssumption DEF Mail
<1>4. /\ boxes' \in [Machines -> [Boxes -> Seq(Mail)]]
      /\ boxes'[m][x.box] = Append(boxes[m][x.box], x)
      /\ \A n \in Machines, b \in Boxes : n # m \/ b # x.box => boxes'[n][b] = boxes[n][b]
  <2>1. boxes[m][x.box] \in Seq(Mail)
    BY <1>3, PlaceTypes DEF PostInv
  <2>2. boxes \in [Machines -> [Boxes -> Seq(Mail)]] /\ Append(boxes[m][x.box], x) \in Seq(Mail)
    BY <2>1 DEF PostInv, TypeOK
  <2> QED BY <1>1, <1>2, <1>3, <2>2, BoxChange
<1>5. worker'[m] = "wait" /\ \A n \in Machines \ {m} : worker'[n] = worker[n]
  BY <1>1, Zenon DEF PostInv, TypeOK
<1>6. TypeOK'
  <2>1. worker' \in [Machines -> {"wait", "take", "put"}]
    BY <1>1 DEF PostInv, TypeOK
  <2>2. \A f \in {boxes', posted', got'} : f \in [Machines -> [Boxes -> Seq(Mail)]]
    BY <1>1, <1>4, Zenon DEF PostInv, TypeOK
  <2>3. UNCHANGED <<host, reliable, pc, mail, sendLock, messageSent, sendBusy, sendInt, wire,
                    inbox, messageAvailable, buffer>>
    BY <1>1 DEF sending
  <2> QED BY <2>1, <2>2, <2>3, Zenon DEF PostInv, TypeOK
<1>7. Buffered'
  BY <1>1, <1>5 DEF PostInv, Buffered
<1>8. InOrder'
  <2> SUFFICES ASSUME NEW n \in Machines, NEW b \in Boxes
               PROVE posted'[n][b] = got'[n][b] \o boxes'[n][b] \o ForBox(Coming(n)', b)
    BY Zenon DEF InOrder
  <2>0. /\ posted[n][b] = got[n][b] \o boxes[n][b] \o ForBox(Coming(n), b)
        /\ posted'[n][b] = posted[n][b] /\ got'[n][b] = got[n][b]
    BY <1>1, Zenon DEF PostInv, InOrder
  <2>1. CASE n # m
    <3>1. Coming(n)' = Coming(n)
      BY <1>1, <1>5, <2>1, Zenon DEF Coming, InHand
    <3> QED BY <2>0, <2>1, <3>1, <1>4, Zenon
  <2>2. CASE n = m
    <3> DEFINE rest == One(inbox[m]) \o wire[m]
    <3>1. /\ One(inbox[m]) \in Seq(Mail) /\ wire[m] \in Seq(Mail) /\ <<x>> \in Seq(Mail)
          /\ got[m][b] \in Seq(Mail) /\ boxes[m][b] \in Seq(Mail) /\ rest \in Seq(Mail)
      <4>1. /\ One(inbox[m]) \in Seq(Mail) /\ wire[m] \in Seq(Mail)
            /\ got[m][b] \in Seq(Mail) /\ boxes[m][b] \in Seq(Mail)
        BY PlaceTypes, Zenon DEF PostInv
      <4>2. <<x>> \in Seq(Mail)
        OBVIOUS
      <4>3. rest \in Seq(Mail)
        BY <4>1
      <4> QED BY <4>1, <4>2, <4>3, Zenon
    <3>2. Coming(m) = <<x>> \o rest
      <4>1. Coming(m) = (<<x>> \o One(inbox[m])) \o wire[m]
        BY <1>1, <1>2, <1>3, Zenon DEF Coming, InHand, One
      <4> QED BY <4>1, <3>1, Assoc, Zenon
    <3>3. Coming(m)' = rest
      <4>1. InHand(m)' = <<>>
        BY <1>5 DEF InHand
      <4>2. One(inbox[m])' = One(inbox[m]) /\ wire'[m] = wire[m]
        BY <1>1
      <4>3. <<>> \o One(inbox[m]) = One(inbox[m])
        BY <3>1, ConcatEmpty
      <4> QED BY <4>1, <4>2, <4>3 DEF Coming
    <3>4. ForBox(Coming(m), b) = Part(x, b) \o ForBox(rest, b)
      BY <3>1, <3>2, ForBoxCons, Zenon
    <3>5. boxes'[m][b] = boxes[m][b] \o Part(x, b)
      <4>1. CASE b = x.box
        BY <4>1, <3>1, <1>4, AppendIsConcat, Zenon DEF Part
      <4>2. CASE b # x.box
        <5>1. boxes'[m][b] = boxes[m][b]
          BY <4>2, <1>4
        <5>2. Part(x, b) = <<>>
          BY <4>2 DEF Part
        <5>3. boxes[m][b] \o <<>> = boxes[m][b]
          BY <3>1, ConcatEmpty
        <5> QED BY <5>1, <5>2, <5>3
      <4> QED BY <4>1, <4>2
    <3>6. Part(x, b) \in Seq(Mail) /\ ForBox(rest, b) \in Seq(Mail)
      BY <3>1, PartType, ForBoxType, Zenon
    <3>7. got[m][b] \o boxes[m][b] \in Seq(Mail)
      BY <3>1
    <3> HIDE DEF rest
    <3>8. (got[m][b] \o boxes[m][b]) \o (Part(x, b) \o ForBox(rest, b))
            = ((got[m][b] \o boxes[m][b]) \o Part(x, b)) \o ForBox(rest, b)
      BY <3>6, <3>7, Assoc, Zenon
    <3>9. (got[m][b] \o boxes[m][b]) \o Part(x, b) = got[m][b] \o (boxes[m][b] \o Part(x, b))
      <4>1. got[m][b] \in Seq(Mail) /\ boxes[m][b] \in Seq(Mail)
        BY <3>1
      <4> QED BY <4>1, <3>6, Assoc, Zenon
    <3> QED BY <2>0, <2>2, <3>3, <3>4, <3>5, <3>8, <3>9, Zenon
  <2> QED BY <2>1, <2>2, Zenon
<1> QED BY <1>1, <1>6, <1>7, <1>8, OfficeSends DEF PostInv

LEMMA OfficeStep ==
  ASSUME PostInv, NEW m \in Machines, Office(m)
  PROVE PostInv'
  BY SendDoneStep, PollStep, WorkerPStep, ReceiveStep, PutStep DEF Office

LEMMA ContinueStep ==
  ASSUME PostInv, NEW c \in Clients, Continue(c)
  PROVE PostInv'
  BY AcquireStep, SendStep, SentPStep, ReleaseStep, GetStep DEF Continue

\* One case for each action.
LEMMA PostStep == ASSUME PostInv, [Next]_vars PROVE PostInv'
<1>1. ASSUME NEW c \in Clients, NewCall(c) PROVE PostInv'
  BY <1>1, CallSendStep, CallReceiveStep DEF NewCall
<1> QED BY <1>1, OfficeStep, ContinueStep, StutterPost DEF Next

LEMMA PostInvariant == Spec => []PostInv
<1>1. Init => PostInv
  BY InitPost
<1>2. PostInv /\ [Next]_vars => PostInv'
  BY PostStep
<1> QED BY <1>1, <1>2, PTL DEF Spec

\* PostOfficeOutput::Send uses the network device one packet at a time, on every machine and
\* for any number of clients: ASSERT(sendBusy == FALSE) in NetworkOutput::Send would hold if
\* sendBusy were set, and each CallBack wakes the client whose packet was sent.
THEOREM SendCorrect == Spec => []SendExclusive
  BY PostInvariant, PostInvSends, PTL

\* Whatever clients send and receive, mail that the network does not lose is delivered once, to
\* the box it was sent to and in the order of the sends, through the one-packet buffer of the
\* device and the postal worker.
THEOREM OrderCorrect == Spec => []MailInOrder
  BY PostInvariant, PostInvOrders, PTL

-----------------------------------------------------------------------------
(* The network test *)

\* One case for each action.
LEMMA TestStep == ASSUME TestInv, [TestNext]_testVars PROVE TestInv'
<1>1. ASSUME NEW m \in Machines, Office(m), UNCHANGED step PROVE TestInv'
  BY <1>1, OfficeStep, OfficeTest DEF TestInv
<1>2. ASSUME NEW c \in Clients, Continue(c), UNCHANGED step PROVE TestInv'
  BY <1>2, ContinueStep, SendTest, GetTest DEF TestInv, Continue
<1>3. ASSUME NEW c \in Clients, TestCall(c) PROVE TestInv'
  <2>1. CASE AwaitHello(c)
    BY <2>1, AwaitTest, NetworkTestAssumption DEF AwaitHello
  <2>2. CASE AwaitAck(c)
    BY <2>2, AwaitTest, NetworkTestAssumption DEF AwaitAck
  <2> QED BY <1>3, <2>1, <2>2, SendHelloTest, SendAckTest DEF TestCall
<1> QED BY <1>1, <1>2, <1>3, StutterTest DEF TestNext

LEMMA InitTest == ASSUME TestInit PROVE TestInv
<1>1. PostInv
  BY InitPost DEF TestInit
<1>2. /\ pc = [c \in Clients |-> "idle"] /\ step = [c \in Clients |-> 0]
      /\ \A m \in Machines : wire[m] = <<>> /\ inbox[m] = NULL /\ buffer[m] = NULL
      /\ \A m \in Machines, b \in Boxes : boxes[m][b] = <<>>
  BY DEF TestInit, Init
<1>3. Elements(<<>>) = {}
  BY DEF Elements
<1>4. MailGenuine
  BY <1>2, <1>3 DEF MailGenuine, Arriving, Sending
<1>5. Script
  BY <1>2 DEF Script, InScript
<1> QED BY <1>1, <1>4, <1>5 DEF TestInv

LEMMA TestInvariant == TestSpec => []TestInv
<1>1. TestInit => TestInv
  BY InitTest
<1>2. TestInv /\ [TestNext]_testVars => TestInv'
  BY TestStep
<1> QED BY <1>1, <1>2, PTL DEF TestSpec

\* Kernel::NetworkTest proves what it claims, over a network that may lose packets: a machine
\* that is done has the acknowledgement of the other, which has received its message.
THEOREM AckCorrect == TestSpec => []AckMeansReceived
  BY TestInvariant, TestInvAcks, PTL

\* The guarantees of the post offices hold while the test runs.
THEOREM TestPostCorrect == TestSpec => [](SendExclusive /\ MailInOrder)
<1>1. TestInv => SendExclusive /\ MailInOrder
  BY PostInvSends, PostInvOrders DEF TestInv
<1> QED BY <1>1, TestInvariant, PTL
=============================================================================
