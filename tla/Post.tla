-------------------------------- MODULE Post --------------------------------
(***************************************************************************)
(* Machines that send mail: PostOffice and MailBox (network/post.cc) over  *)
(* Network (machine/network.cc), sockets of the host, and the program      *)
(* MailTest (network/nettest.cc) on each machine.  A mailbox is a          *)
(* SynchList (threads/synchlist.cc).  Its Lock does nothing, and its       *)
(* Condition::Wait is an ASSERT that fails: Get does not wait for mail.    *)
(*                                                                         *)
(* A machine has two threads, "main" and the "postal" worker.  They lose   *)
(* the CPU, and handlers run, only where P() ends.                         *)
(***************************************************************************)
EXTENDS Lists

CONSTANTS Machines,
          Far,       \* the machine that each one's MailTest is given
          MaxLost    \* how many packets may be lost: 0 when the reliability
                     \* (flag -l) is 1

ASSUME PostAssumption == Far \in [Machines -> Machines] /\ MaxLost \in Nat

Boxes == 0 .. 1
NoThread == "none"
NoMail == [from |-> 0, to |-> 0, box |-> 0, reply |-> 0, text |-> "none"]

VARIABLES status,    \* "run", "halted" or "assert"
          current, ready,
          inP,       \* the threads that are inside P()
          messageAvailable, messageSent,
          sending,   \* the number of NetworkSendInt pending
          socket,    \* what the host holds for each machine
          inbox,     \* Network::inbox, NoMail when inHdr.length is 0
          buffer,    \* the buffer of PostalDelivery
          boxes,
          stage,     \* where MailTest is
          in,        \* what MailTest has received, by box
          lost       \* history: the mails the network has lost

netVars == <<sending, socket, inbox>>
semVars == <<messageAvailable, messageSent>>
vars == <<status, current, ready, inP, semVars, netVars, buffer, boxes, stage, in,
          lost>>

-----------------------------------------------------------------------------
(* Threads.                                                                *)

Sched(m) == INSTANCE Scheduler WITH current <- current[m], ready <- ready[m],
                                    RandomYield <- TRUE

Running(m, t) == status[m] = "run" /\ current[m] = t /\ t \notin inP[m]
InterruptsOn(m) == status[m] = "run" /\ current[m] \notin inP[m]

Sleeps(m) ==
  IF ready[m] = <<>>
  THEN current' = [current EXCEPT ![m] = NoThread] /\ UNCHANGED ready
  ELSE /\ current' = [current EXCEPT ![m] = Head(ready[m])]
       /\ ready' = [ready EXCEPT ![m] = Tail(@)]

\* A turn of P() by the postal worker, and by main in Send, which goes on to
\* the next stage.
AwaitMessage(m) ==
  /\ IF messageAvailable[m].value > 0
     THEN /\ messageAvailable' = [messageAvailable EXCEPT ![m] = Sched(m)!PTake(@)]
          /\ inP' = [inP EXCEPT ![m] = @ \ {"postal"}]
          /\ UNCHANGED <<current, ready>>
     ELSE /\ messageAvailable' = [messageAvailable EXCEPT ![m] = Sched(m)!PQueue(@, "postal")]
          /\ inP' = [inP EXCEPT ![m] = @ \cup {"postal"}]
          /\ Sleeps(m)
  /\ UNCHANGED <<messageSent, stage>>

AwaitSent(m) ==
  /\ IF messageSent[m].value > 0
     THEN /\ messageSent' = [messageSent EXCEPT ![m] = Sched(m)!PTake(@)]
          /\ inP' = [inP EXCEPT ![m] = @ \ {"main"}]
          /\ stage' = [stage EXCEPT ![m] = @ + 1]
          /\ UNCHANGED <<current, ready>>
     ELSE /\ messageSent' = [messageSent EXCEPT ![m] = Sched(m)!PQueue(@, "main")]
          /\ inP' = [inP EXCEPT ![m] = @ \cup {"main"}]
          /\ Sleeps(m)
          /\ UNCHANGED stage
  /\ UNCHANGED messageAvailable

\* A thread inside P() has the CPU again.
Retry(m) ==
  /\ status[m] = "run" /\ current[m] \in inP[m]
  /\ IF current[m] = "main" THEN AwaitSent(m) ELSE AwaitMessage(m)
  /\ UNCHANGED <<status, netVars, buffer, boxes, in, lost>>

Dispatch(m) ==
  /\ status[m] = "run" /\ current[m] = NoThread /\ ready[m] # <<>>
  /\ Sleeps(m)
  /\ UNCHANGED <<status, inP, semVars, netVars, buffer, boxes, stage, in, lost>>

\* The timer, under -rs.
Preempt(m) ==
  /\ InterruptsOn(m) /\ current[m] # NoThread /\ ready[m] # <<>>
  /\ current' = [current EXCEPT ![m] = Head(ready[m])]
  /\ ready' = [ready EXCEPT ![m] = Append(Tail(@), current[m])]
  /\ UNCHANGED <<status, inP, semVars, netVars, buffer, boxes, stage, in, lost>>

-----------------------------------------------------------------------------
(* PostOffice::Send, on Network::Send.                                     *)

\* The host has the socket only while its machine runs; else sendto fails,
\* and the sender's assertion with it.
SendToSocket(m, mail) ==
  \/ /\ status[mail.to] = "run"
     /\ socket' = [socket EXCEPT ![mail.to] = Append(@, mail)]
     /\ UNCHANGED status
  \/ /\ status[mail.to] # "run"
     /\ status' = [status EXCEPT ![m] = "assert"]
     /\ UNCHANGED socket

NetworkSend(m, mail) ==
  /\ sending' = [sending EXCEPT ![m] = @ + 1]
  /\ \/ /\ Cardinality(lost) < MaxLost
        /\ lost' = lost \cup {mail}
        /\ UNCHANGED <<status, socket>>
     \/ SendToSocket(m, mail) /\ UNCHANGED lost

Send(m, mail) ==
  /\ NetworkSend(m, mail)
  /\ IF status'[m] = "run" THEN AwaitSent(m)
     ELSE UNCHANGED <<current, ready, inP, semVars, stage>>
  /\ UNCHANGED <<inbox, buffer, boxes, in>>

PacketSent(m) ==
  /\ messageSent' = [messageSent EXCEPT ![m] = Sched(m)!VSignal(@)]
  /\ ready' = [ready EXCEPT ![m] = @ \o Sched(m)!VWoken(messageSent[m])]

\* Network::SendDone and its handler.
SendDone(m) ==
  /\ InterruptsOn(m) /\ sending[m] > 0
  /\ sending' = [sending EXCEPT ![m] = @ - 1]
  /\ PacketSent(m)
  /\ UNCHANGED <<status, current, inP, messageAvailable, socket, inbox, buffer,
                 boxes, stage, in, lost>>

-----------------------------------------------------------------------------
(* Arrival.                                                                *)

PollSocket(m) == socket[m] # <<>>

\* Fault: a packet that is already buffered is written over.
MayRead_Always(m) == PollSocket(m)

MayRead(m) == inbox[m] = NoMail /\ PollSocket(m)

\* Fault: the postal worker is not told.
IncomingPacket_Silent(m) == UNCHANGED <<messageAvailable, ready>>

IncomingPacket(m) ==
  /\ messageAvailable' = [messageAvailable EXCEPT ![m] = Sched(m)!VSignal(@)]
  /\ ready' = [ready EXCEPT ![m] = @ \o Sched(m)!VWoken(messageAvailable[m])]

ReadFromSocket(m) ==
  /\ inbox' = [inbox EXCEPT ![m] = Head(socket[m])]
  /\ socket' = [socket EXCEPT ![m] = Tail(@)]

\* Network::CheckPktAvail, when it finds a packet.
CheckPktAvail(m) ==
  /\ InterruptsOn(m) /\ MayRead(m)
  /\ ReadFromSocket(m)
  /\ IncomingPacket(m)
  /\ UNCHANGED <<status, current, inP, messageSent, sending, buffer, boxes, stage, in, lost>>

\* Network::Receive leaves the buffer as it was when it has no packet.
NetworkReceive(m) ==
  /\ inbox' = [inbox EXCEPT ![m] = NoMail]
  /\ buffer' = [buffer EXCEPT ![m] = IF inbox[m] = NoMail THEN @ ELSE inbox[m]]

\* SynchList::Append: its signal does nothing.
SynchAppend(list, mail) == ListAppend(list, mail)

Put(m, mail) ==
  boxes' = [boxes EXCEPT ![m][mail.box] = SynchAppend(@, mail)]

\* A turn of PostalDelivery, to the next P().
PostalDelivery(m) ==
  /\ Running(m, "postal")
  /\ NetworkReceive(m)
  /\ Put(m, buffer'[m])
  /\ AwaitMessage(m)
  /\ UNCHANGED <<status, sending, socket, in, lost>>

\* SynchList::Remove: on an empty list it calls Condition::Wait.
ConditionWait(m) == status' = [status EXCEPT ![m] = "assert"]

SynchRemove(m, box) ==
  IF IsEmpty(boxes[m][box])
  THEN ConditionWait(m) /\ UNCHANGED boxes
  ELSE boxes' = [boxes EXCEPT ![m][box] = SortedRemove(@)] /\ UNCHANGED status

Get(m, box) ==
  /\ SynchRemove(m, box)
  /\ in' = IF status'[m] # "run" THEN in
           ELSE [in EXCEPT ![m][box] = First(boxes[m][box]).item]

Receive(m, box) ==
  /\ Get(m, box)
  /\ stage' = IF status'[m] # "run" THEN stage ELSE [stage EXCEPT ![m] = @ + 1]
  /\ UNCHANGED <<current, ready, inP, semVars, netVars, buffer, lost>>

-----------------------------------------------------------------------------
(* MailTest.                                                               *)

\* Fault: the acknowledgement goes to mailbox 0.
ReplyBox_Zero(mail) == 0

ReplyBox(mail) == mail.reply

Data(m) == [from |-> m, to |-> Far[m], box |-> 0, reply |-> 1, text |-> "data"]
Ack(m) ==
  [from |-> m, to |-> in[m][0].from, box |-> ReplyBox(in[m][0]), reply |-> 1,
   text |-> "ack"]

MailTest(m) ==
  /\ Running(m, "main")
  /\ \/ stage[m] = 1 /\ Send(m, Data(m))
     \/ stage[m] = 2 /\ Receive(m, 0)
     \/ stage[m] = 3 /\ Send(m, Ack(m))
     \/ stage[m] = 4 /\ Receive(m, 1)
     \/ /\ stage[m] = 5
        /\ status' = [status EXCEPT ![m] = "halted"]
        /\ UNCHANGED <<current, ready, inP, semVars, netVars, buffer, boxes, stage, in, lost>>

-----------------------------------------------------------------------------
\* Network::Network: nothing buffered or on the way, and a socket of its own.
NetInit ==
  /\ sending = [m \in Machines |-> 0]
  /\ socket = [m \in Machines |-> <<>>]
  /\ inbox = [m \in Machines |-> NoMail]

\* Every machine is up; its postal worker is new and about to call P().
Init ==
  /\ status = [m \in Machines |-> "run"]
  /\ current = [m \in Machines |-> "main"]
  /\ ready = [m \in Machines |-> <<"postal">>]
  /\ inP = [m \in Machines |-> {"postal"}]
  /\ messageAvailable = [m \in Machines |-> Sched(m)!Semaphore(0)]
  /\ messageSent = [m \in Machines |-> Sched(m)!Semaphore(0)]
  /\ NetInit
  /\ buffer = [m \in Machines |-> NoMail]
  /\ boxes = [m \in Machines |-> [b \in Boxes |-> NewList]]
  /\ stage = [m \in Machines |-> 1]
  /\ in = [m \in Machines |-> [b \in Boxes |-> NoMail]]
  /\ lost = {}

\* All that is left are polls that find nothing.
Quiet ==
  /\ \A m \in Machines : status[m] # "run"
  /\ UNCHANGED vars

Next ==
  \/ \E m \in Machines :
       \/ MailTest(m) \/ PostalDelivery(m) \/ Retry(m)
       \/ SendDone(m) \/ CheckPktAvail(m)
       \/ Dispatch(m) \/ Preempt(m)
  \/ Quiet

Spec == Init /\ [][Next]_vars

-----------------------------------------------------------------------------
(* Properties.                                                             *)

InBox(m, b, mail) ==
  {a \in DOMAIN boxes[m][b].cell : boxes[m][b].cell[a].item = mail}

\* In how many places a mail is.
Places(mail) ==
  LET m == mail.to
  IN  Cardinality({k \in DOMAIN socket[m] : socket[m][k] = mail})
      + (IF inbox[m] = mail THEN 1 ELSE 0)
      + Cardinality(InBox(m, 0, mail)) + Cardinality(InBox(m, 1, mail))
      + Cardinality({b \in Boxes : in[m][b] = mail})

\* Machine m has sent the mail of a stage.
Did(m, at) == stage[m] > at \/ (stage[m] = at /\ "main" \in inP[m])
Sent == {Data(m) : m \in {n \in Machines : Did(n, 1)}}
        \cup {Ack(m) : m \in {n \in Machines : Did(n, 3)}}

\* A mail is delivered once: it is in one place at a time, the socket, the
\* buffer, the box it is for or the program's hands; no packet is read over
\* another, put into two boxes, or kept back.  Only the network loses it.
MailOnce ==
  \A mail \in Sent :
    /\ Places(mail) = IF mail \in lost THEN 0 ELSE 1
    /\ \A b \in Boxes : InBox(mail.to, b, mail) # {} => b = mail.box

\* MailTest gets what it says: in box 0 the data that was meant for it, in
\* box 1 the acknowledgement of the machine it sent its data to, which has
\* got it; and a machine that halts leaves no mail behind, on the way or in
\* a box, and will not be sent any.
AckMeansReceived ==
  \A m \in Machines :
    /\ stage[m] > 2 => in[m][0].text = "data" /\ Far[in[m][0].from] = m
    /\ stage[m] > 4 => /\ in[m][1].text = "ack" /\ in[m][1].from = Far[m]
                       /\ in[Far[m]][0] = Data(m)
    /\ status[m] = "halted" =>
         /\ socket[m] = <<>> /\ inbox[m] = NoMail
         /\ \A b \in Boxes : IsEmpty(boxes[m][b])

\* The worker and the sender are told of what happened, once: there is a
\* permit for the packet that is buffered, or the worker has just taken it,
\* so that no packet waits unseen and PostalDelivery never puts an old buffer
\* into a box; and a thread in Send has its permit, or it is on its way.
PermitPerPacket ==
  LET Num(b) == IF b THEN 1 ELSE 0
  IN  \A m \in Machines :
        /\ messageAvailable[m].value + Num("postal" \notin inP[m]) = Num(inbox[m] # NoMail)
        /\ status[m] # "assert" =>
             messageSent[m].value + sending[m] = Num("main" \in inP[m])
        /\ messageAvailable[m].value > 0 => messageAvailable[m].queue = <<>>
        /\ messageSent[m].value > 0 => messageSent[m].queue = <<>>
=============================================================================
