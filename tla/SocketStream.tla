------------------------------ MODULE SocketStream -----------------------------
(***************************************************************************)
(* class Socket (class_lib/socket_class.cpp): blocking calls that send or  *)
(* receive a number of bytes with as many partial send() and recv() calls  *)
(* as the kernel makes of them, over TCP connections whose peer may close  *)
(* or die at any time.                                                     *)
(*                                                                         *)
(* A unit stands for some bytes of a message; "connection c at side s" is  *)
(* an open descriptor.  All callers pass timeout = -1, so select() waits   *)
(* for ever.  A second send after the peer has gone returns -1, as it does *)
(* where SIGPIPE does not end the process.  Line numbers are those of      *)
(* socket_class.cpp.                                                       *)
(***************************************************************************)
EXTENDS Integers, Sequences, FiniteSetsExt

CONSTANTS
    Conn,       \* the connections
    BUFF_SIZE,  \* the most one recv() is asked for
    Window      \* the units a connection holds in one direction

ASSUME SocketAssumption == {BUFF_SIZE, Window} \subseteq Nat \ {0}

VARIABLES
    wire,   \* wire[c][s]: the units sent by side s of connection c, not yet received
    open,   \* open[c][s]: side s of connection c has a descriptor
    reset,  \* the connections the kernel has reset
    io      \* io[p]: the call of thread p: rc, its result so far, out, the units
            \* left to send, want, the units left to receive, got, those received

streamVars == <<wire, open, reset, io>>

Side == {"client", "server"}
Peer(s) == CHOOSE t \in Side : t # s

NoCall == [rc |-> 0, out |-> <<>>, want |-> 0, got |-> <<>>]

\* Proc: the threads that call Socket's methods.
StreamInit(Proc) ==
    /\ wire = [c \in Conn |-> [s \in Side |-> <<>>]]
    /\ open = [c \in Conn |-> [s \in Side |-> FALSE]]
    /\ reset = {}
    /\ io = [p \in Proc |-> NoCall]

-------------------------------------------------------------------------------
(* What a caller sees. *)

\* Send() or SendBytes(), Recv() or RecvBytes() is called.
BeginSend(p, units) == io' = [io EXCEPT ![p] = [NoCall EXCEPT !.out = units]]
BeginRecv(p, n) == io' = [io EXCEPT ![p] = [NoCall EXCEPT !.want = n]]

Returned(p) == io[p].out = <<>> /\ io[p].want = 0
Succeeded(p) == Returned(p) /\ io[p].rc = 0     \* lines 300, 376, 454, 527
Failed(p) == io[p].rc = -1

\* The call of p returns -1: lines 261, 266, 296, 348, 372, 421, 426, 450, 499, 523
\* and, on a descriptor that is closed, the tests of lines 214, 306, 381, 459.
Fail(p) ==
    /\ ~Returned(p)
    /\ io' = [io EXCEPT ![p] = [NoCall EXCEPT !.rc = -1]]
    /\ UNCHANGED <<wire, open, reset>>

\* connect() has found the listening socket: the client may send already.
Establish(c) ==
    /\ open' = [open EXCEPT ![c] = [s \in Side |-> TRUE]]
    /\ UNCHANGED <<wire, reset>>

\* Variant of Close: as with SetOption(), lines 69-86, which nobody calls: a linger
\* time of 0 throws away what was not delivered.
CloseHard(c, s) ==
    /\ open' = [open EXCEPT ![c][s] = FALSE]
    /\ reset' = reset \union {c}
    /\ wire' = [wire EXCEPT ![c] = [t \in Side |-> <<>>]]

\* Close(), lines 530-537, or the end of the process.  Closing with unread data
\* resets the connection.
Close(c, s) ==
    /\ open' = [open EXCEPT ![c][s] = FALSE]
    /\ reset' = IF wire[c][Peer(s)] # <<>> THEN reset \union {c} ELSE reset
    /\ wire' = [wire EXCEPT ![c][Peer(s)] = <<>>]

-------------------------------------------------------------------------------
(* One round of the loops, with thread p on side s of connection c. *)

\* Lines 339-353 and 490-505: send() takes any part of what is left.  Without a peer
\* the data is lost and the connection is reset.
SendSome(p, c, s) ==
    /\ open[c][s] /\ c \notin reset /\ io[p].out # <<>>
    /\ \E n \in 1 .. Len(io[p].out) :
         /\ io' = [io EXCEPT ![p].out = SubSeq(@, n + 1, Len(@))]
         /\ \/ /\ open[c][Peer(s)] /\ Len(wire[c][s]) + n <= Window
               /\ wire' = [wire EXCEPT ![c][s] = @ \o SubSeq(io[p].out, 1, n)]
               /\ UNCHANGED reset
            \/ /\ ~open[c][Peer(s)]
               /\ reset' = reset \union {c} /\ UNCHANGED wire
    /\ UNCHANGED open

\* Lines 345-348 and 496-499.
SendFails(p, c, s) == (c \in reset \/ ~open[c][s]) /\ io[p].out # <<>> /\ Fail(p)

\* Variant of Chunk: as if the size of the buffer were asked for in every round.
WholeBuffer(n) == BUFF_SIZE

\* Lines 254 and 417: what recv() is asked for.
Chunk(n) == Min({n, BUFF_SIZE})

\* Variant of RecvSome: the loop of lines 243 and 407 is left after one recv().
RecvOnce(p, c, s) ==
    LET in == wire[c][Peer(s)] IN
    /\ open[c][s] /\ io[p].want > 0
    /\ \E n \in 1 .. Min({Chunk(io[p].want), Len(in)}) :
         /\ io' = [io EXCEPT ![p].want = 0, ![p].got = @ \o SubSeq(in, 1, n)]
         /\ wire' = [wire EXCEPT ![c][Peer(s)] = SubSeq(@, n + 1, Len(@))]
    /\ UNCHANGED <<open, reset>>

\* Lines 248-278 and 412-432: recv() returns any part of what it is asked for.
RecvSome(p, c, s) ==
    LET in == wire[c][Peer(s)] IN
    /\ open[c][s] /\ io[p].want > 0
    /\ \E n \in 1 .. Min({Chunk(io[p].want), Len(in)}) :
         /\ io' = [io EXCEPT ![p].want = @ - n, ![p].got = @ \o SubSeq(in, 1, n)]
         /\ wire' = [wire EXCEPT ![c][Peer(s)] = SubSeq(@, n + 1, Len(@))]
    /\ UNCHANGED <<open, reset>>

\* Lines 258-266 and 418-426: the peer has closed and everything is read (0), or the
\* connection was reset (-1).
RecvFails(p, c, s) ==
    /\ io[p].want > 0
    /\ \/ c \in reset \/ ~open[c][s]
       \/ ~open[c][Peer(s)] /\ wire[c][Peer(s)] = <<>>
    /\ Fail(p)

Transfer(p, c, s) ==
    \/ SendSome(p, c, s) \/ SendFails(p, c, s)
    \/ RecvSome(p, c, s) \/ RecvFails(p, c, s)

-------------------------------------------------------------------------------
StreamTypeOK(Proc, Unit) ==
    /\ wire \in [Conn -> [Side -> Seq(Unit)]]
    /\ open \in [Conn -> [Side -> BOOLEAN]]
    /\ reset \subseteq Conn
    /\ io \in [Proc -> [rc : {0, -1}, out : Seq(Unit), want : Nat, got : Seq(Unit)]]
===============================================================================
