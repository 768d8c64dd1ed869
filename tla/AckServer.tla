-------------------------------- MODULE AckServer ------------------------------
(***************************************************************************)
(* socket_server/main.cpp with its clients, socket_client/main.cpp.  The   *)
(* main thread of the server takes one connection after the other and      *)
(* receives messages from it; each time it sets the status to 1, and the   *)
(* SendThread of the connection, which polls the status, sends an          *)
(* acknowledgement.  The same status tells the SendThread that the         *)
(* connection is closed.                                                   *)
(*                                                                         *)
(* Both threads use one descriptor number.  It is the lowest free one, so  *)
(* the next connection gets it again: fd is the connection it stands for.  *)
(* Line numbers are those of socket_server/main.cpp; lines of              *)
(* socket_client/main.cpp are marked c.                                    *)
(***************************************************************************)
EXTENDS SocketStream

CONSTANT Lengths    \* BOUND: the lengths of the messages

ASSUME AckAssumption == Conn \subseteq Nat \ {0} /\ Lengths \subseteq Nat

VARIABLES
    client, \* client[c]: where the client of connection c is
    main,   \* where the main thread of the server is
    fd,     \* the connection of the descriptor the server uses, 0 when it is closed
    flag,   \* ThreadStatus::m_status
    sender, \* sender[c]: where the SendThread of connection c is
    last,   \* the connection accepted last, 0 before the first
    crowded \* history: the connections accepted before an older SendThread had ended

acceptVars == <<last, crowded>>
vars == <<streamVars, client, main, fd, flag, sender, acceptVars>>

Client(c) == <<"client", c>>
Main == <<"main", 0>>
Sender(c) == <<"sender", c>>
Thread == {Main} \union ({"client", "sender"} \X Conn)

\* What is sent: "33768287" and the length (c:23-30), the text, "recved message".
Item(kind, n) == [i \in 1 .. n |-> <<kind, i>>]
Header(n) == << <<"33768287", 0>>, <<"length", n>> >>
Message(n) == Header(n) \o Item("text", n)
Ack == Item("recved", 2)

Init ==
    /\ StreamInit(Thread)
    /\ client = [c \in Conn |-> "off"]
    /\ main = "accept" /\ fd = 0 /\ flag = 0
    /\ sender = [c \in Conn |-> "none"]
    /\ last = 0 /\ crowded = {}

-------------------------------------------------------------------------------
(* The client. *)

\* c:53-75.  One message is sent over and over; that its length may vary here saves
\* a variable.
Connect(c) ==
    /\ client[c] = "off" /\ main # "dead"
    /\ Establish(c)
    /\ \E n \in Lengths : BeginSend(Client(c), Message(n))
    /\ client' = [client EXCEPT ![c] = "send"]
    /\ UNCHANGED <<main, fd, flag, sender, acceptVars>>

\* c:66-70.
Refused(c) ==
    /\ client[c] = "off" /\ main = "dead"
    /\ client' = [client EXCEPT ![c] = "gone"]
    /\ UNCHANGED <<streamVars, main, fd, flag, sender, acceptVars>>

\* c:82-83.
AwaitAck(c) ==
    /\ client[c] = "send" /\ Succeeded(Client(c))
    /\ BeginRecv(Client(c), Len(Ack))
    /\ client' = [client EXCEPT ![c] = "recv"]
    /\ UNCHANGED <<wire, open, reset, main, fd, flag, sender, acceptVars>>

\* c:90-93 and 75.
TakeAck(c) ==
    /\ client[c] = "recv" /\ Succeeded(Client(c))
    /\ \E n \in Lengths : BeginSend(Client(c), Message(n))
    /\ client' = [client EXCEPT ![c] = "send"]
    /\ UNCHANGED <<wire, open, reset, main, fd, flag, sender, acceptVars>>

Leave(c) ==
    /\ Close(c, "client")
    /\ io' = [io EXCEPT ![Client(c)] = NoCall]
    /\ client' = [client EXCEPT ![c] = "gone"]
    /\ UNCHANGED <<main, fd, flag, sender, acceptVars>>

\* c:76-80 and 84-88.
GiveUp(c) == Failed(Client(c)) /\ Leave(c)

\* The client is ended from outside; it never ends by itself.
Kill(c) == client[c] \in {"send", "recv"} /\ Leave(c)

ClientStep(c) ==
    \/ Connect(c) \/ Refused(c) \/ AwaitAck(c) \/ TakeAck(c) \/ GiveUp(c)
    \/ /\ Transfer(Client(c), c, "client")
       /\ UNCHANGED <<client, main, fd, flag, sender, acceptVars>>

-------------------------------------------------------------------------------
(* The main thread of the server. *)

\* A call of p on the server's descriptor; on a closed one it returns -1.
ServerTransfer(p) ==
    /\ IF fd = 0 THEN Fail(p) ELSE Transfer(p, fd, "server")
    /\ UNCHANGED <<client, main, fd, flag, sender, acceptVars>>

\* The SendThread of connection c has not ended.
Running(c) == sender[c] \notin {"none", "gone"}

\* Line 126.  Nothing waits for the SendThread before: it looks at the status every
\* 100 ms (line 90), and Sleep(50) of line 183 is shorter.
Accept(c) ==
    /\ main = "accept" /\ open[c]["server"] /\ sender[c] = "none"
    /\ fd' = c /\ last' = c /\ main' = "clear"
    /\ crowded' = IF \E d \in Conn : Running(d) THEN crowded \union {c} ELSE crowded
    /\ UNCHANGED <<streamVars, client, flag, sender>>

\* Variant of ClearFlag: line 133 is missing.
KeepFlag ==
    /\ main = "clear" /\ main' = "spawn"
    /\ UNCHANGED <<streamVars, client, fd, flag, sender, acceptVars>>

\* Line 133.
ClearFlag ==
    /\ main = "clear" /\ main' = "spawn"
    /\ flag' = 0
    /\ UNCHANGED <<streamVars, client, fd, sender, acceptVars>>

\* Lines 135-138 and 146.  The thread is started for the connection accepted last even
\* if an older one has closed the descriptor meanwhile.
Spawn ==
    /\ main = "spawn" /\ main' = "head"
    /\ sender' = [sender EXCEPT ![last] = "get"]
    /\ BeginRecv(Main, 2)
    /\ UNCHANGED <<wire, open, reset, client, fd, flag, acceptVars>>

\* Lines 152-168.
HeadReceived ==
    /\ main = "head" /\ Succeeded(Main)
    /\ IF io[Main].got[1] = Header(0)[1]
       THEN main' = "body" /\ BeginRecv(Main, io[Main].got[2][2])
       ELSE main' = "close" /\ UNCHANGED io
    /\ UNCHANGED <<wire, open, reset, client, fd, flag, sender, acceptVars>>

BodyReceived ==
    /\ main = "body" /\ Succeeded(Main)
    /\ main' = "flag"
    /\ UNCHANGED <<streamVars, client, fd, flag, sender, acceptVars>>

\* Lines 177 and 146.
RequestAck ==
    /\ main = "flag" /\ main' = "head"
    /\ flag' = 1
    /\ BeginRecv(Main, 2)
    /\ UNCHANGED <<wire, open, reset, client, fd, sender, acceptVars>>

\* Lines 147-150 and 170-173.
RecvFailed ==
    /\ main \in {"head", "body"} /\ Failed(Main)
    /\ main' = "close"
    /\ UNCHANGED <<streamVars, client, fd, flag, sender, acceptVars>>

\* close() on the descriptor, by one thread or the other.
CloseDescriptor ==
    /\ IF fd = 0 THEN UNCHANGED <<wire, open, reset>> ELSE Close(fd, "server")
    /\ fd' = 0

\* Variant of EndConnection: lines 180 and 181 change places.
EndBeforeClose ==
    /\ main = "close" /\ main' = "end"
    /\ flag' = 1
    /\ UNCHANGED <<streamVars, client, fd, sender, acceptVars>>

CloseAfterEnd ==
    /\ main = "end" /\ main' = "accept"
    /\ CloseDescriptor
    /\ UNCHANGED <<io, client, flag, sender, acceptVars>>

EndConnectionSwapped == EndBeforeClose \/ CloseAfterEnd

\* Line 180.
CloseConnection ==
    /\ main = "close" /\ main' = "end"
    /\ CloseDescriptor
    /\ UNCHANGED <<io, client, flag, sender, acceptVars>>

\* Lines 181-183.
RequestEnd ==
    /\ main = "end" /\ main' = "accept"
    /\ flag' = 1
    /\ UNCHANGED <<streamVars, client, fd, sender, acceptVars>>

EndConnection == CloseConnection \/ RequestEnd

MainStep ==
    \/ \E c \in Conn : Accept(c)
    \/ ClearFlag \/ Spawn \/ HeadReceived \/ BodyReceived \/ RequestAck
    \/ RecvFailed \/ EndConnection \/ ServerTransfer(Main)

-------------------------------------------------------------------------------
(* SendThread::run(), lines 70-95. *)

\* Lines 76-77.
SeeFlag(c) ==
    /\ sender[c] = "get" /\ flag = 1
    /\ sender' = [sender EXCEPT ![c] = "clear"]
    /\ UNCHANGED <<streamVars, client, main, fd, flag, acceptVars>>

\* Variant of TakeFlag: line 79 is missing.
LeaveFlag(c) ==
    /\ sender[c] = "clear"
    /\ BeginSend(Sender(c), Ack)
    /\ sender' = [sender EXCEPT ![c] = "send"]
    /\ UNCHANGED <<wire, open, reset, client, main, fd, flag, acceptVars>>

\* Lines 79-81.
TakeFlag(c) ==
    /\ sender[c] = "clear"
    /\ flag' = 0
    /\ BeginSend(Sender(c), Ack)
    /\ sender' = [sender EXCEPT ![c] = "send"]
    /\ UNCHANGED <<wire, open, reset, client, main, fd, acceptVars>>

\* Variant of Sent: the status is cleared after the send, not before it.
SentThenClear(c) ==
    /\ sender[c] = "send" /\ Succeeded(Sender(c))
    /\ flag' = 0
    /\ sender' = [sender EXCEPT ![c] = "get"]
    /\ UNCHANGED <<streamVars, client, main, fd, acceptVars>>

Sent(c) ==
    /\ sender[c] = "send" /\ Succeeded(Sender(c))
    /\ sender' = [sender EXCEPT ![c] = "get"]
    /\ UNCHANGED <<streamVars, client, main, fd, flag, acceptVars>>

\* Lines 82-86 and 94.
SendFailed(c) ==
    /\ sender[c] = "send" /\ Failed(Sender(c))
    /\ CloseDescriptor
    /\ sender' = [sender EXCEPT ![c] = "gone"]
    /\ UNCHANGED <<io, client, main, flag, acceptVars>>

SenderStep(c) ==
    \/ SeeFlag(c) \/ TakeFlag(c) \/ Sent(c) \/ SendFailed(c)
    \/ ServerTransfer(Sender(c))

-------------------------------------------------------------------------------
\* The server ends, and the kernel closes its connections, accepted or not.
Crash ==
    /\ main # "dead" /\ main' = "dead"
    /\ sender' = [c \in Conn |-> "gone"] /\ fd' = 0
    /\ open' = [c \in Conn |-> [open[c] EXCEPT !["server"] = FALSE]]
    /\ reset' = reset \union {c \in Conn : open[c]["server"] /\ wire[c]["client"] # <<>>}
    /\ wire' = [c \in Conn |-> [wire[c] EXCEPT !["client"] = <<>>]]
    /\ io' = [p \in Thread |-> IF p[1] = "client" THEN io[p] ELSE NoCall]
    /\ UNCHANGED <<client, flag, acceptVars>>

Next ==
    \/ \E c \in Conn : ClientStep(c) \/ SenderStep(c) \/ Kill(c)
    \/ MainStep \/ Crash

Spec == Init /\ [][Next]_vars

\* Every thread is scheduled.  Clients may be killed, and the server may crash.
FairSpec ==
    Spec /\ WF_vars(MainStep)
         /\ \A c \in Conn : WF_vars(ClientStep(c)) /\ WF_vars(SenderStep(c))

-------------------------------------------------------------------------------
Unit == ({"33768287", "length", "text", "recved"} \X Nat)

\* The type invariant.
TypeOK ==
    /\ StreamTypeOK(Thread, Unit)
    /\ client \in [Conn -> {"off", "send", "recv", "gone"}]
    /\ main \in {"accept", "clear", "spawn", "head", "body", "flag", "close", "end",
                 "dead"}
    /\ fd \in Conn \union {0} /\ flag \in {0, 1}
    /\ sender \in [Conn -> {"none", "get", "clear", "send", "gone"}]
    /\ last \in Conn \union {0} /\ crowded \subseteq Conn

\* However the kernel splits the stream, every call that succeeds returns exactly the
\* header, the text or the acknowledgement that it is meant to receive
\* (lines 146, 168, c:83; socket_class.cpp:243-298), unless the connection was accepted
\* while an older SendThread could still write to it.
InFrame ==
    /\ main = "head" /\ Succeeded(Main) /\ last \notin crowded =>
         io[Main].got \in {Header(n) : n \in Lengths}
    /\ main = "body" /\ Succeeded(Main) /\ last \notin crowded =>
         io[Main].got \in {Item("text", n) : n \in Lengths}
    /\ \A c \in Conn \ crowded : client[c] = "recv" /\ Succeeded(Client(c)) =>
         io[Client(c)].got = Ack

\* The client has sent all of a message and has not seen all of its acknowledgement.
Waiting(c) == client[c] = "recv" \/ (client[c] = "send" /\ Succeeded(Client(c)))

\* An acknowledgement is requested or under way.
AckDue(c) ==
    \/ sender[c] # "none" /\ flag = 1
    \/ sender[c] = "clear" \/ (sender[c] = "send" /\ ~Returned(Sender(c)))
    \/ wire[c]["server"] # <<>>
    \/ client[c] = "recv" /\ io[Client(c)].got # <<>>

Turn(c) ==
    IF client[c] = "gone" \/ main = "dead" \/ c \in crowded THEN "closed"
    ELSE IF ~Waiting(c) THEN "ask"
    ELSE IF AckDue(c) THEN "answer" ELSE "serve"

RR == INSTANCE RequestReply WITH turn <- [c \in Conn |-> Turn(c)]

\* Questions and acknowledgements alternate, and there is one acknowledgement for each
\* message received, although the request for it is a flag that is read and cleared in
\* two steps (lines 76-79) and left over from the connection before (line 181).  Nothing
\* is promised to a client from the moment it is accepted while an older SendThread runs.
IsRequestReply == RR!Spec

\* The client of the connection being served gets its acknowledgement, or learns that
\* the server is gone: no request for one is lost between lines 76, 79 and 177.
AckArrives == \A c \in Conn : client[c] = "recv" /\ fd = c ~> client[c] # "recv"

\* When a connection is closed its SendThread ends: the request of line 181 is not
\* consumed by a send that still succeeds.  It may be missed in two ways only: an older
\* SendThread was running when the connection was accepted, and may see the request
\* first; or the next client is accepted first, and line 133 takes the request back.
SenderEnds ==
    \A c \in Conn : c \notin crowded /\ sender[c] # "none" /\ ~open[c]["server"] ~>
                     sender[c] = "gone" \/ last # c
===============================================================================
