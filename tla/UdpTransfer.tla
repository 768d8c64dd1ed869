------------------------------- MODULE UdpTransfer -----------------------------
(***************************************************************************)
(* test_socket_udp_client/ sends a header with the length of a file and    *)
(* then the file over class UdpSocket, and test_socket_udp/ receives both. *)
(* A datagram may be lost, duplicated or overtaken by others; what does    *)
(* not fit the buffer of recvfrom() is cut off.                            *)
(*                                                                         *)
(* The header has two units, and a unit stands for some bytes of the file. *)
(* Line numbers are those of class_lib/socket_class.cpp; lines of          *)
(* test_socket_udp.cpp are marked r, of test_socket_udp_client.cpp s.      *)
(***************************************************************************)
EXTENDS Integers, Sequences, FiniteSetsExt

CONSTANTS
    BUFF_SIZE,      \* the most units in a datagram
    SEND_SIZE,      \* the most units handed to one SendBytes()
    Sizes           \* BOUND: the sizes of the file

ASSUME UdpAssumption ==
    /\ {BUFF_SIZE, SEND_SIZE} \subseteq Nat \ {0} /\ Sizes \subseteq Nat

VARIABLES
    file,       \* buff, the file that is sent
    left,       \* what is left of the call of SendBytes, and of the file after it
    datagrams,  \* the datagrams sent so far
    receiver,   \* where it is: "header", "data", "done" or "failed"
    buf,        \* what its call of RecvBytes() has received
    nBytes,     \* what it still has to receive
    arrived,    \* history: the last datagram received while `intact'
    intact      \* history: all were received, in their order

udpVars == <<file, left, datagrams, receiver, buf, nBytes, arrived, intact>>

HeaderSize == 2

\* s117-129: the format, DataFormat_XML, and the length.
Header(n) == <<1, n>>

UdpInit ==
    /\ \E n \in Sizes : file = [i \in 1 .. n |-> i]
    /\ left = [call |-> Header(Len(file)), rest |-> file]
    /\ datagrams = <<>>
    /\ receiver = "header" /\ buf = <<>> /\ nBytes = HeaderSize
    /\ arrived = 0 /\ intact = TRUE

Upto(n, s) == SubSeq(s, 1, Min({n, Len(s)}))
After(n, s) == SubSeq(s, n + 1, Len(s))

\* Lines 685-705: one sendto(), all of it or none.
SendDatagram ==
    /\ left.call # <<>>
    /\ datagrams' = Append(datagrams, Upto(BUFF_SIZE, left.call))
    /\ left' = [left EXCEPT !.call = After(BUFF_SIZE, @)]
    /\ UNCHANGED <<file, receiver, buf, nBytes, arrived, intact>>

\* s146-153.
SendNextPart ==
    /\ left.call = <<>> /\ left.rest # <<>>
    /\ left' = [call |-> Upto(SEND_SIZE, left.rest), rest |-> After(SEND_SIZE, left.rest)]
    /\ UNCHANGED <<file, datagrams, receiver, buf, nBytes, arrived, intact>>

\* Lines 697-701 and s140-151: sendto() fails, and the sender ends.
SendFails ==
    /\ left.call # <<>>
    /\ left' = [call |-> <<>>, rest |-> <<>>]
    /\ UNCHANGED <<file, datagrams, receiver, buf, nBytes, arrived, intact>>

\* Variant of Asked: as if every recvfrom() were given BUFF_SIZE.
AskedFully == BUFF_SIZE

\* Line 616.
Asked == Min({nBytes, BUFF_SIZE})

\* Lines 605-632 and r117, r125: one recvfrom(), of any datagram that was sent.
Receive ==
    /\ receiver \in {"header", "data"} /\ nBytes > 0
    /\ \E i \in DOMAIN datagrams :
         LET got == Upto(Asked, datagrams[i]) IN
         /\ buf' = buf \o got
         /\ nBytes' = nBytes - Len(got)
         /\ intact' = (intact /\ i = arrived + 1)
         /\ arrived' = IF intact' THEN i ELSE arrived
    /\ UNCHANGED <<file, left, datagrams, receiver>>

\* Lines 618-627, 640-651 and r118, r126: a call fails, and the receiver ends with what
\* it has.
RecvFails ==
    /\ receiver \in {"header", "data"} /\ nBytes > 0
    /\ receiver' = "failed"
    /\ UNCHANGED <<file, left, datagrams, buf, nBytes, arrived, intact>>

\* r118-125: the length is taken from the header, whatever it is.
HeaderReceived ==
    /\ receiver = "header" /\ nBytes = 0
    /\ receiver' = "data" /\ nBytes' = buf[2] /\ buf' = <<>>
    /\ UNCHANGED <<file, left, datagrams, arrived, intact>>

\* r126-129.
DataReceived ==
    /\ receiver = "data" /\ nBytes = 0
    /\ receiver' = "done"
    /\ UNCHANGED <<file, left, datagrams, buf, nBytes, arrived, intact>>

UdpNext ==
    \/ SendDatagram \/ SendNextPart \/ SendFails
    \/ Receive \/ RecvFails \/ HeaderReceived \/ DataReceived

-------------------------------------------------------------------------------
\* Whatever arrives, RecvBytes() never writes past the buffer of the header or past the
\* length that was malloc'ed (r117, r122-125), and when the datagrams arrive as they
\* were sent, the receiver ends up with the file: cutting a datagram short never loses
\* any of it.
UdpExact ==
    /\ nBytes >= 0
    /\ receiver = "header" => Len(buf) + nBytes = HeaderSize
    /\ receiver = "data" /\ intact => Len(buf) + nBytes = Len(file)
    /\ receiver = "done" /\ intact => buf = file
===============================================================================
