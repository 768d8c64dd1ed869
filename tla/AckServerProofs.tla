---------------------------- MODULE AckServerProofs ---------------------------
(***************************************************************************)
(* What holds of AckServer for any number of connections, any lengths, any *)
(* buffer and any window: the data of every call is of its type, every     *)
(* message and acknowledgement is received as it was sent (InFrame), and   *)
(* questions and acknowledgements alternate (IsRequestReply), on every     *)
(* connection that is not crowded.                                         *)
(*                                                                         *)
(* The inductive invariant, AckInv, tells of every unit of a message where *)
(* it is: received, on the wire or still to be sent, in this order         *)
(* (MessageFramed, Hearing), and at which end of the connection the next   *)
(* move lies (Replies).  Each lemma Keeps... shows for one step that AckInv*)
(* still holds and which turns of RequestReply, if any, the step takes.    *)
(* Of a crowded connection AckInv only says what keeps it away from the    *)
(* others: lemmas Elsewhere and Aside.                                     *)
(***************************************************************************)
EXTENDS AckServer, SequenceTheorems, TLAPS

\* The client of connection c runs, and so does the server, which had no older
\* SendThread when it accepted c, if it has.
Alive(c) == client[c] \in {"send", "recv"} /\ main # "dead" /\ c \notin crowded

\* The SendThread of connection c runs.
Active(c) == sender[c] \in {"get", "clear", "send"}

\* Who is inside a call of Send or Recv, and what is left of a finished one.
Calls ==
    /\ \A p \in Thread : io[p].rc = -1 => Returned(p)
    /\ io[Main].out = <<>>
    /\ main \notin {"head", "body"} => io[Main].want = 0
    /\ main = "head" /\ io[Main].rc = 0 => io[Main].want = 2 - Len(io[Main].got)
    /\ \A c \in Conn :
         /\ io[Sender(c)].want = 0
         /\ sender[c] # "send" => io[Sender(c)].out = <<>>
         /\ sender[c] = "none" => io[Sender(c)].rc = 0
         /\ client[c] # "send" => io[Client(c)].out = <<>>
         /\ client[c] # "recv" => io[Client(c)].want = 0 /\ io[Client(c)].got = <<>>

\* As long as client and server run nobody has closed or reset the connection, and no
\* call on it has failed.
Link(c) ==
    /\ client[c] = "off" => /\ \A s \in Side : ~open[c][s] /\ wire[c][s] = <<>>
                            /\ c \notin reset
                            /\ main # "dead" => sender[c] = "none"
    /\ client[c] = "gone" => ~open[c]["client"]
    /\ fd = c => open[c]["server"]
    /\ main = "dead" => ~open[c]["server"]
    /\ Alive(c) =>
         /\ open[c]["client"] /\ open[c]["server"] /\ c \notin reset
         /\ io[Client(c)].rc = 0 /\ io[Sender(c)].rc = 0
         /\ sender[c] # "gone" /\ (fd # c => sender[c] = "none")
         /\ fd = c => main # "close"
         /\ fd = c /\ main \in {"head", "body"} => io[Main].rc = 0

Connected == \A c \in Conn : Link(c)

\* The descriptor is that of the connection accepted last, from accept() to the first
\* close(), whoever calls it.  While an older SendThread may use it, the connections that
\* are not crowded wait to be accepted.
Accepting ==
    /\ fd \in {0, last}
    /\ fd # 0 => main \in {"clear", "spawn", "head", "body", "flag", "close"}
    /\ main \in {"clear", "spawn"} => last # 0 /\ sender[last] = "none"
    /\ last # 0 /\ main \notin {"clear", "spawn"} => sender[last] # "none"
    /\ \A c \in Conn : client[c] = "off" => c # last /\ c \notin crowded
    /\ \A c \in crowded : c = last \/ sender[c] # "none"
    /\ last \in crowded => \A c \in Conn : Alive(c) => sender[c] = "none"

\* Otherwise one SendThread at most runs, that of the last connection.
Alone ==
    /\ main \in {"clear", "spawn"} => fd = last /\ \A d \in Conn : ~Active(d)
    /\ main = "spawn" => flag = 0
    /\ main \in {"head", "body", "flag", "close"} /\ fd # 0 => Active(fd)
    /\ \A c \in Conn : Active(c) => c = last

Serving == Accepting /\ (last \notin crowded => Alone)

\* The units of connection c that the server has not received: on the wire, and those
\* its client has still to send; when the client is gone these are lost.
Comes(c, got, message) ==
    \E more \in Seq(Unit) : /\ (got \o wire[c]["client"]) \o more = message
                            /\ Alive(c) => more = io[Client(c)].out

\* What the main thread has received of a message, and what is to come.
Upto(got, message) ==
    IF fd = 0 THEN \E more \in Seq(Unit) : got \o more = message
              ELSE Comes(fd, got, message)

\* Nothing is on its way to the server.
Drained == fd # 0 => /\ wire[fd]["client"] = <<>>
                     /\ Alive(fd) => io[Client(fd)].out = <<>>

\* Between a message and the next.
Between == main = "head" /\ io[Main].got = <<>> /\ Drained

\* A connection not served yet holds the beginning of a message.
Offered ==
    \A c \in Conn \ crowded : open[c]["server"] /\ sender[c] = "none" =>
       \E n \in Lengths : Comes(c, <<>>, Message(n))

HeadFramed ==
    main = "head" /\ io[Main].rc = 0 =>
      Between \/ \E n \in Lengths : Upto(io[Main].got, Message(n))

BodyFramed ==
    main = "body" /\ io[Main].rc = 0 =>
      \E n \in Lengths : /\ io[Main].want = n - Len(io[Main].got)
                         /\ Upto(io[Main].got, Item("text", n))

\* What the server receives is a sequence of messages.
ServerFramed == HeadFramed /\ BodyFramed /\ (main = "flag" => Drained)

MessageFramed == Offered /\ (last \notin crowded => ServerFramed)

\* What a client has received of an acknowledgement, and what is to come.
Hears(c) ==
    client[c] \in {"send", "recv"} /\ io[Client(c)].rc = 0 =>
      /\ client[c] = "recv" => io[Client(c)].want = 2 - Len(io[Client(c)].got)
      /\ \E more \in Seq(Unit) : (io[Client(c)].got \o wire[c]["server"]) \o more = Ack

Hearing == \A c \in Conn \ crowded : Hears(c)

\* Nothing of an acknowledgement has left the server that the client has not taken.
Silent(c) ==
    /\ io[Sender(c)].out = <<>> /\ wire[c]["server"] = <<>>
    /\ io[Client(c)].got = <<>>

\* One acknowledgement is requested, or sent, after each message and before the next.
Replies(c) ==
    \/ /\ Silent(c) /\ ~(Active(c) /\ Between)
       /\ sender[c] # "none" => flag = 0 /\ sender[c] # "clear"
    \/ Silent(c) /\ Active(c) /\ Between /\ flag = 1
    \/ /\ Active(c) /\ Between /\ flag = 0 /\ sender[c] # "clear"
       /\ (io[Client(c)].got \o wire[c]["server"]) \o io[Sender(c)].out = Ack

Replying == \A c \in Conn : Alive(c) => Replies(c)

AckInv ==
    /\ TypeOK /\ Calls /\ Connected /\ Serving
    /\ MessageFramed /\ Hearing /\ Replying
-------------------------------------------------------------------------------
(* The refinement mapping, told from what the server has received. *)

\* Whose turn it is on connection c.
Stage(c) ==
    CASE client[c] = "gone" \/ main = "dead" \/ c \in crowded -> "closed"
      [] client[c] = "off" /\ main # "dead" /\ c \notin crowded -> "ask"
      [] Alive(c) /\ Active(c) /\ Between -> "answer"
      [] Alive(c) /\ ~(Active(c) /\ Between) /\ io[Client(c)].out = <<>> -> "serve"
      [] Alive(c) /\ ~(Active(c) /\ Between) /\ io[Client(c)].out # <<>> -> "ask"

Steady(C) == \A c \in C : Stage(c)' = Stage(c)

Passes(c, from, to) == Stage(c) = from /\ Stage(c)' = to /\ Steady(Conn \ {c})
-------------------------------------------------------------------------------
(* Sequences and names. *)

\* Part of a sequence is taken, and the rest is left.
LEMMA Cut ==
  ASSUME NEW s \in Seq(Unit), NEW n \in 1 .. Len(s)
  PROVE  /\ SubSeq(s, 1, n) \in Seq(Unit) /\ SubSeq(s, n + 1, Len(s)) \in Seq(Unit)
         /\ SubSeq(s, 1, n) # <<>> /\ Len(SubSeq(s, 1, n)) = n
         /\ SubSeq(s, 1, n) \o SubSeq(s, n + 1, Len(s)) = s
<1>1. Len(s) \in Nat /\ s \in [1 .. Len(s) -> Unit]
  BY LenProperties
<1>2. SubSeq(s, 1, n) \in Seq(Unit) /\ Len(SubSeq(s, 1, n)) = n
  <2>1. \A i \in 1 .. n : s[i] \in Unit
    BY <1>1
  <2> QED BY <1>1, <2>1, SubSeqProperties
<1>3. SubSeq(s, n + 1, Len(s)) \in Seq(Unit)
  <2>1. \A i \in n + 1 .. Len(s) : s[i] \in Unit
    BY <1>1
  <2>2. n + 1 \in Int /\ Len(s) \in Int
    BY <1>1
  <2> QED BY <2>1, <2>2, SubSeqProperties
<1>4. SubSeq(s, 1, n) # <<>>
  BY <1>2, EmptySeq
<1>5. SubSeq(s, 1, n) \o SubSeq(s, n + 1, Len(s)) = s
  <2>1. SubSeq(s, 1, n) \o SubSeq(s, n + 1, Len(s)) = SubSeq(s, 1, Len(s))
    <3>1. 1 \in 1 .. Len(s) + 1 /\ n \in 1 - 1 .. Len(s) /\ Len(s) \in n .. Len(s)
      BY <1>1
    <3> QED BY <3>1, ConcatAdjacentSubSeq
  <2> QED BY <2>1, SubSeqFull
<1> QED BY <1>2, <1>3, <1>4, <1>5

\* Concatenation under a name of its own, which keeps the provers from unfolding it.
Cat(s, t) == s \o t

LEMMA Assoc ==
  ASSUME NEW s \in Seq(Unit), NEW t \in Seq(Unit), NEW u \in Seq(Unit)
  PROVE  Cat(s, t) \in Seq(Unit) /\ Cat(Cat(s, t), u) = Cat(s, Cat(t, u))
  BY ConcatAssociative, ConcatProperties DEF Cat

LEMMA Concat ==
  ASSUME NEW s \in Seq(Unit), NEW t \in Seq(Unit)
  PROVE  s \o t \in Seq(Unit) /\ Len(s \o t) = Len(s) + Len(t)
  BY ConcatProperties

\* What moves from the front of one sequence to the end of the one before it stays
\* where it was in both together.
LEMMA Moved ==
  ASSUME NEW g \in Seq(Unit), NEW s \in Seq(Unit), NEW n \in 1 .. Len(s)
  PROVE  (g \o SubSeq(s, 1, n)) \o SubSeq(s, n + 1, Len(s)) = g \o s
<1> DEFINE f == SubSeq(s, 1, n)
           r == SubSeq(s, n + 1, Len(s))
<1>1. f \in Seq(Unit) /\ r \in Seq(Unit) /\ f \o r = s
  BY Cut
<1> HIDE DEF f, r
<1>2. Cat(Cat(g, f), r) = Cat(g, Cat(f, r))
  BY <1>1, Assoc
<1>3. (g \o f) \o r = g \o s
  BY <1>1, <1>2, Zenon DEF Cat
<1> QED BY <1>3, Zenon DEF f, r

\* Two splits of a sequence at the same place are the same.
LEMMA SameSplit ==
  ASSUME NEW a \in Seq(Unit), NEW x \in Seq(Unit), NEW b \in Seq(Unit), NEW y \in Seq(Unit),
         a \o x = b \o y, Len(a) = Len(b)
  PROVE  a = b /\ x = y
<1>1. /\ Len(a) \in Nat /\ Len(x) \in Nat /\ Len(y) \in Nat
      /\ Len(a \o x) = Len(a) + Len(x) /\ Len(b \o y) = Len(b) + Len(y)
      /\ \A i \in 1 .. Len(a) + Len(x) : (a \o x)[i] = IF i <= Len(a) THEN a[i] ELSE x[i - Len(a)]
      /\ \A i \in 1 .. Len(b) + Len(y) : (b \o y)[i] = IF i <= Len(b) THEN b[i] ELSE y[i - Len(b)]
  BY ConcatProperties, LenProperties
<1>2. Len(x) = Len(y)
  BY <1>1
<1>3. \A i \in 1 .. Len(a) : a[i] = b[i]
  BY <1>1
<1>4. a = b
  BY <1>3, SeqEqual
<1>5. \A u, t, v \in Seq(Unit) : u \o t = u \o v => t = v
  BY ConcatSimplifications
<1> QED BY <1>4, <1>5

\* The messages and acknowledgements.
LEMMA Messages ==
  ASSUME NEW n \in Nat
  PROVE  /\ Header(n) \in Seq(Unit) /\ Len(Header(n)) = 2
         /\ Header(n)[1] = Header(0)[1] /\ Header(n)[2][2] = n
         /\ Item("text", n) \in Seq(Unit) /\ Len(Item("text", n)) = n
         /\ Message(n) \in Seq(Unit) /\ Message(n) # <<>>
         /\ Message(n) = Header(n) \o Item("text", n)
         /\ Ack \in Seq(Unit) /\ Ack # <<>> /\ Len(Ack) = 2
<1>1. Header(n) \in Seq(Unit) /\ Len(Header(n)) = 2 /\ Header(n)[1] = Header(0)[1]
         /\ Header(n)[2][2] = n
  BY DEF Header, Unit
<1>2. ASSUME NEW k \in {"text", "recved"}, NEW m \in Nat
      PROVE  Item(k, m) \in Seq(Unit) /\ Len(Item(k, m)) = m
  <2>1. Item(k, m) \in [1 .. m -> Unit]
    BY DEF Item, Unit
  <2>2. Item(k, m) \in Seq(Unit)
    BY <2>1, SeqDef
  <2> QED BY <2>1, <2>2, LenProperties DEF Item
<1>3. Ack \in Seq(Unit) /\ Len(Ack) = 2
  BY <1>2 DEF Ack
<1>4. Message(n) \in Seq(Unit) /\ Len(Message(n)) = 2 + n
  <2>1. Item("text", n) \in Seq(Unit) /\ Len(Item("text", n)) = n
    BY <1>2
  <2> QED BY <1>1, <2>1, Concat DEF Message
<1>5. Ack # <<>> /\ Message(n) # <<>>
  <2>1. Ack # <<>>
    <3>1. Len(Ack) # 0
      BY <1>3
    <3> QED BY <3>1, EmptySeq, Zenon
  <2>2. Message(n) # <<>>
    <3>1. Len(Message(n)) # 0
      BY <1>4
    <3> QED BY <3>1, EmptySeq, Zenon
  <2> QED BY <2>1, <2>2
<1> QED BY <1>1, <1>2, <1>3, <1>4, <1>5 DEF Message

LEMMA Sides == /\ Side = {"client", "server"}
               /\ Peer("client") = "server" /\ Peer("server") = "client"
  BY DEF Side, Peer

\* Every thread has its own call.
LEMMA Threads ==
  /\ Main \in Thread
  /\ \A c \in Conn : /\ Client(c) \in Thread /\ Sender(c) \in Thread
                     /\ Client(c) # Main /\ Sender(c) # Main
  /\ \A c, d \in Conn : /\ Client(c) # Sender(d)
                        /\ Client(c) = Client(d) => c = d
                        /\ Sender(c) = Sender(d) => c = d
  /\ \A p \in Thread : p = Main \/ \E c \in Conn : p = Client(c) \/ p = Sender(c)
  BY DEF Thread, Main, Client, Sender

Call == [rc : {0, -1}, out : Seq(Unit), want : Nat, got : Seq(Unit)]

LEMMA NoCalls == NoCall \in Call /\ NoCall.rc = 0 /\ NoCall.out = <<>> /\ NoCall.want = 0
                   /\ NoCall.got = <<>>
  BY EmptySeq DEF NoCall, Call
-------------------------------------------------------------------------------
(* What the methods of Socket do to a connection. *)

\* Only the call of p changes, and of the wires only that of connection c from side s.
Only(p) == \A q \in Thread : q # p => io'[q] = io[q]
Touch(c, s) == \A d \in Conn, t \in Side : d # c \/ t # s => wire'[d][t] = wire[d][t]

\* A recv() of thread p that returns: units move from the wire to the receiver, in order.
ReceivedOver(p, c, s, t) ==
    /\ StreamTypeOK(Thread, Unit)' /\ UNCHANGED <<open, reset>>
    /\ Only(p) /\ Touch(c, t)
    /\ io[p].want > 0 /\ open[c][s]
    /\ io'[p].rc = io[p].rc /\ io'[p].out = io[p].out
    /\ io'[p].want + Len(io'[p].got) = io[p].want + Len(io[p].got)
    /\ io'[p].got \o wire'[c][t] = io[p].got \o wire[c][t]
    /\ wire[c][t] # <<>> /\ io'[p].got # <<>>

LEMMA Receives ==
  ASSUME StreamTypeOK(Thread, Unit), NEW p \in Thread, NEW c \in Conn, NEW s \in Side,
         NEW t \in Side, t = Peer(s), RecvSome(p, c, s)
  PROVE  ReceivedOver(p, c, s, t)
<1> DEFINE in == wire[c][t]
<1>1. /\ io \in [Thread -> Call] /\ wire \in [Conn -> [Side -> Seq(Unit)]]
      /\ io[p] \in Call /\ in \in Seq(Unit) /\ Len(in) \in Nat
  BY LenProperties DEF StreamTypeOK, Call
<1>2. io[p].want \in Nat /\ io[p].want > 0 /\ open[c][s] /\ io[p].got \in Seq(Unit)
  BY <1>1 DEF RecvSome, Call
<1>3. PICK n \in 1 .. Min({Chunk(io[p].want), Len(in)}) :
           /\ io' = [io EXCEPT ![p].want = @ - n, ![p].got = @ \o SubSeq(in, 1, n)]
           /\ wire' = [wire EXCEPT ![c][t] = SubSeq(@, n + 1, Len(@))]
  BY DEF RecvSome
<1>4. n \in 1 .. Len(in) /\ n <= io[p].want
  <2>1. ASSUME NEW a \in Nat, NEW b \in Nat PROVE Min({a, b}) = IF a <= b THEN a ELSE b
    BY DEF Min
  <2>2. Chunk(io[p].want) \in Nat /\ Chunk(io[p].want) <= io[p].want
    BY <1>2, <2>1, SocketAssumption DEF Chunk
  <2>3. PICK a \in Nat, b \in Nat : a = Chunk(io[p].want) /\ b = Len(in) /\ a <= io[p].want
    BY <1>1, <2>2
  <2>4. Min({a, b}) = IF a <= b THEN a ELSE b
    BY <2>1
  <2>5. n \in 1 .. (IF a <= b THEN a ELSE b)
    BY <2>3, <2>4
  <2>6. n \in 1 .. b /\ n <= a
    BY <2>5
  <2> QED BY <1>2, <2>3, <2>6
<1> DEFINE f == SubSeq(in, 1, n)
           r == SubSeq(in, n + 1, Len(in))
<1>5. f \in Seq(Unit) /\ r \in Seq(Unit) /\ f # <<>> /\ Len(f) = n /\ in # <<>>
  <2>1. in # <<>>
    BY <1>1, <1>4
  <2> QED BY <1>1, <1>4, <2>1, Cut
<1>6. (io[p].got \o f) \o r = io[p].got \o in
  BY <1>1, <1>2, <1>4, Moved
<1>7. /\ io[p].got \o f \in Seq(Unit) /\ Len(io[p].got \o f) = Len(io[p].got) + n
      /\ Len(io[p].got) \in Nat
  BY <1>2, <1>5, Concat, LenProperties
<1>8. io[p].got \o f # <<>>
  <2>1. Len(io[p].got \o f) # 0
    BY <1>4, <1>7
  <2> QED BY <1>7, <2>1, EmptySeq
<1>9. /\ io' = [io EXCEPT ![p].want = io[p].want - n, ![p].got = io[p].got \o f]
      /\ wire' = [wire EXCEPT ![c][t] = r]
  BY <1>3
<1>10. UNCHANGED <<open, reset>>
  BY DEF RecvSome
<1> HIDE DEF f, r, in
<1>11. /\ io'[p].want = io[p].want - n /\ io'[p].got = io[p].got \o f
       /\ io'[p].rc = io[p].rc /\ io'[p].out = io[p].out
       /\ \A q \in Thread : q # p => io'[q] = io[q]
  BY <1>1, <1>9 DEF Call
<1>12. /\ wire'[c][t] = r
       /\ \A d \in Conn, u \in Side : d # c \/ u # t => wire'[d][u] = wire[d][u]
  BY <1>1, <1>9
<1>13. StreamTypeOK(Thread, Unit)'
  <2>1. io' \in [Thread -> Call]
    BY <1>1, <1>2, <1>4, <1>7, <1>9 DEF Call
  <2>2. wire' \in [Conn -> [Side -> Seq(Unit)]]
    BY <1>1, <1>5, <1>9
  <2> QED BY <1>10, <2>1, <2>2 DEF StreamTypeOK, Call
<1>14. io[p].want - n + Len(io[p].got \o f) = io[p].want + Len(io[p].got)
  BY <1>2, <1>4, <1>7, SMTT(30)
<1> QED
  BY <1>2, <1>5, <1>6, <1>8, <1>10, <1>11, <1>12, <1>13, <1>14
     DEF ReceivedOver, Only, Touch, in

\* A send() that returns: units move from the sender to the wire, in order, as long
\* as the peer is there.
LEMMA Sends ==
  ASSUME StreamTypeOK(Thread, Unit), NEW p \in Thread, NEW c \in Conn, NEW s \in Side,
         NEW t \in Side, t = Peer(s), SendSome(p, c, s)
  PROVE  /\ StreamTypeOK(Thread, Unit)' /\ UNCHANGED open
         /\ Only(p) /\ Touch(c, s)
         /\ io[p].out # <<>> /\ open[c][s] /\ c \notin reset
         /\ io'[p].rc = io[p].rc /\ io'[p].want = io[p].want /\ io'[p].got = io[p].got
         /\ \/ /\ open[c][t] /\ reset' = reset /\ wire'[c][s] # <<>>
               /\ \A g \in Seq(Unit) :
                    (g \o wire'[c][s]) \o io'[p].out = (g \o wire[c][s]) \o io[p].out
            \/ ~open[c][t] /\ reset' = reset \union {c} /\ wire' = wire
<1> DEFINE out == io[p].out
           on  == wire[c][s]
<1>1. /\ io \in [Thread -> Call] /\ wire \in [Conn -> [Side -> Seq(Unit)]]
      /\ io[p] \in Call /\ on \in Seq(Unit) /\ out \in Seq(Unit) /\ reset \subseteq Conn
  BY DEF StreamTypeOK, Call
<1>2. out # <<>> /\ open[c][s] /\ c \notin reset /\ UNCHANGED open
  BY DEF SendSome
<1>3. PICK n \in 1 .. Len(out) :
           /\ io' = [io EXCEPT ![p].out = SubSeq(@, n + 1, Len(@))]
           /\ \/ /\ open[c][t]
                 /\ wire' = [wire EXCEPT ![c][s] = @ \o SubSeq(out, 1, n)]
                 /\ UNCHANGED reset
              \/ /\ ~open[c][t]
                 /\ reset' = reset \union {c} /\ UNCHANGED wire
  BY DEF SendSome
<1> DEFINE f == SubSeq(out, 1, n)
           r == SubSeq(out, n + 1, Len(out))
<1>4. f \in Seq(Unit) /\ r \in Seq(Unit) /\ f # <<>> /\ Len(f) = n /\ f \o r = out
  BY <1>1, Cut
<1>5. ASSUME NEW g \in Seq(Unit)
      PROVE  (g \o (on \o f)) \o r = (g \o on) \o out
  <2> HIDE DEF f, r, on, out
  <2>1. g \in Seq(Unit) /\ on \in Seq(Unit) /\ f \in Seq(Unit) /\ r \in Seq(Unit)
    BY <1>1, <1>4
  <2>2. Cat(Cat(g, Cat(on, f)), r) = Cat(Cat(g, on), Cat(f, r))
    BY ONLY <2>1, Assoc
  <2> QED BY <1>4, <2>2, Zenon DEF Cat
<1>6. on \o f \in Seq(Unit) /\ on \o f # <<>>
  <2>1. on \o f \in Seq(Unit) /\ Len(on \o f) = Len(on) + n /\ Len(on) \in Nat
    BY <1>1, <1>4, Concat, LenProperties
  <2>2. Len(on \o f) # 0
    BY <2>1
  <2> QED BY <2>1, <2>2, EmptySeq
<1>7. /\ io' = [io EXCEPT ![p].out = r]
      /\ \/ open[c][t] /\ wire' = [wire EXCEPT ![c][s] = on \o f] /\ UNCHANGED reset
         \/ ~open[c][t] /\ reset' = reset \union {c} /\ UNCHANGED wire
  BY <1>3
<1> HIDE DEF f, r, out, on
<1>8. /\ io'[p].want = io[p].want /\ io'[p].got = io[p].got
      /\ io'[p].rc = io[p].rc /\ io'[p].out = r
      /\ \A q \in Thread : q # p => io'[q] = io[q]
      /\ io' \in [Thread -> Call]
  BY <1>1, <1>4, <1>7 DEF Call
<1>9. CASE open[c][t] /\ wire' = [wire EXCEPT ![c][s] = on \o f] /\ UNCHANGED reset
  <2>1. /\ wire'[c][s] = on \o f
        /\ \A d \in Conn, u \in Side : d # c \/ u # s => wire'[d][u] = wire[d][u]
        /\ wire' \in [Conn -> [Side -> Seq(Unit)]]
    BY <1>1, <1>6, <1>9
  <2>2. StreamTypeOK(Thread, Unit)'
    BY <1>2, <1>8, <1>9, <2>1 DEF StreamTypeOK, Call
  <2> QED BY <1>2, <1>5, <1>6, <1>8, <1>9, <2>1, <2>2, ZenonT(60) DEF Only, Touch, on, out
<1>10. CASE ~open[c][t] /\ reset' = reset \union {c} /\ UNCHANGED wire
  <2>1. StreamTypeOK(Thread, Unit)'
    BY <1>1, <1>2, <1>8, <1>10 DEF StreamTypeOK, Call
  <2> QED BY <1>2, <1>8, <1>10, <2>1 DEF Only, Touch, out
<1> QED BY <1>7, <1>9, <1>10

\* A call that fails, one that begins and one that nobody makes.
LEMMA FailsCall ==
  ASSUME StreamTypeOK(Thread, Unit), NEW p \in Thread, Fail(p)
  PROVE  /\ StreamTypeOK(Thread, Unit)' /\ UNCHANGED <<wire, open, reset>> /\ Only(p)
         /\ io'[p].rc = -1 /\ io'[p].out = <<>> /\ io'[p].want = 0 /\ io'[p].got = <<>>
         /\ ~Returned(p)
<1>1. io' = [io EXCEPT ![p] = [NoCall EXCEPT !.rc = -1]] /\ UNCHANGED <<wire, open, reset>>
  BY DEF Fail
<1>2. io \in [Thread -> Call]
  BY DEF StreamTypeOK, Call
<1>3. /\ [NoCall EXCEPT !.rc = -1] \in Call
      /\ [NoCall EXCEPT !.rc = -1].rc = -1 /\ [NoCall EXCEPT !.rc = -1].out = <<>>
      /\ [NoCall EXCEPT !.rc = -1].want = 0 /\ [NoCall EXCEPT !.rc = -1].got = <<>>
  BY NoCalls DEF Call, NoCall
<1>4. io' \in [Thread -> Call] /\ io'[p] = [NoCall EXCEPT !.rc = -1] /\ Only(p)
  BY <1>1, <1>2, <1>3 DEF Only
<1> QED BY <1>1, <1>3, <1>4 DEF StreamTypeOK, Call, Fail

LEMMA BeginsSend ==
  ASSUME StreamTypeOK(Thread, Unit), NEW p \in Thread, NEW u \in Seq(Unit), BeginSend(p, u)
  PROVE  /\ io' \in [Thread -> Call] /\ Only(p)
         /\ io'[p].rc = 0 /\ io'[p].out = u /\ io'[p].want = 0 /\ io'[p].got = <<>>
<1>1. io' = [io EXCEPT ![p] = [NoCall EXCEPT !.out = u]] /\ io \in [Thread -> Call]
  BY DEF BeginSend, StreamTypeOK, Call
<1>2. /\ [NoCall EXCEPT !.out = u] \in Call
      /\ [NoCall EXCEPT !.out = u].rc = 0 /\ [NoCall EXCEPT !.out = u].out = u
      /\ [NoCall EXCEPT !.out = u].want = 0 /\ [NoCall EXCEPT !.out = u].got = <<>>
  BY NoCalls DEF Call, NoCall
<1>3. io'[p] = [NoCall EXCEPT !.out = u] /\ Only(p) /\ io' \in [Thread -> Call]
  BY <1>1, <1>2 DEF Only
<1> QED BY <1>2, <1>3

LEMMA BeginsRecv ==
  ASSUME StreamTypeOK(Thread, Unit), NEW p \in Thread, NEW n \in Nat, BeginRecv(p, n)
  PROVE  /\ io' \in [Thread -> Call] /\ Only(p)
         /\ io'[p].rc = 0 /\ io'[p].out = <<>> /\ io'[p].want = n /\ io'[p].got = <<>>
<1>1. io' = [io EXCEPT ![p] = [NoCall EXCEPT !.want = n]] /\ io \in [Thread -> Call]
  BY DEF BeginRecv, StreamTypeOK, Call
<1>2. /\ [NoCall EXCEPT !.want = n] \in Call
      /\ [NoCall EXCEPT !.want = n].rc = 0 /\ [NoCall EXCEPT !.want = n].out = <<>>
      /\ [NoCall EXCEPT !.want = n].want = n /\ [NoCall EXCEPT !.want = n].got = <<>>
  BY NoCalls DEF Call, NoCall
<1>3. io'[p] = [NoCall EXCEPT !.want = n] /\ Only(p) /\ io' \in [Thread -> Call]
  BY <1>1, <1>2 DEF Only
<1> QED BY <1>2, <1>3

\* close() takes from the other side's wire what was not read.
LEMMA Closes ==
  ASSUME StreamTypeOK(Thread, Unit), NEW c \in Conn, NEW s \in Side, NEW t \in Side,
         t = Peer(s), Close(c, s)
  PROVE  /\ wire' \in [Conn -> [Side -> Seq(Unit)]] /\ open' \in [Conn -> [Side -> BOOLEAN]]
         /\ reset' \subseteq Conn
         /\ Touch(c, t) /\ wire'[c][t] = <<>>
         /\ \A d \in Conn, u \in Side : d # c \/ u # s => open'[d][u] = open[d][u]
         /\ ~open'[c][s]
         /\ \A d \in Conn : d # c => (d \in reset' <=> d \in reset)
<1>1. /\ open' = [open EXCEPT ![c][s] = FALSE] /\ wire' = [wire EXCEPT ![c][t] = <<>>]
      /\ reset' = reset \/ reset' = reset \union {c}
      /\ wire \in [Conn -> [Side -> Seq(Unit)]] /\ open \in [Conn -> [Side -> BOOLEAN]]
      /\ reset \subseteq Conn
  BY DEF Close, StreamTypeOK
<1>2. <<>> \in Seq(Unit)
  BY EmptySeq
<1>3. /\ wire' \in [Conn -> [Side -> Seq(Unit)]] /\ wire'[c][t] = <<>> /\ Touch(c, t)
  BY <1>1, <1>2 DEF Touch
<1>4. /\ open' \in [Conn -> [Side -> BOOLEAN]] /\ ~open'[c][s]
      /\ \A d \in Conn, u \in Side : d # c \/ u # s => open'[d][u] = open[d][u]
  BY <1>1
<1> QED BY <1>1, <1>3, <1>4

\* Nothing is left of a sequence whose length has been received.
LEMMA NothingLeft ==
  ASSUME NEW a \in Seq(Unit), NEW b \in Seq(Unit), NEW d \in Seq(Unit), NEW m \in Seq(Unit),
         (a \o b) \o d = m, Len(a) = Len(m)
  PROVE  a = m /\ b = <<>> /\ d = <<>>
<1>1. /\ Len(a) \in Nat /\ Len(b) \in Nat /\ Len(d) \in Nat
      /\ a \o b \in Seq(Unit) /\ Len(a \o b) = Len(a) + Len(b)
      /\ Len((a \o b) \o d) = Len(a \o b) + Len(d)
  BY Concat, LenProperties
<1>2. Len(b) = 0 /\ Len(d) = 0
  BY <1>1
<1>3. b = <<>> /\ d = <<>>
  BY <1>2, EmptySeq
<1>4. a \o <<>> = a
  BY ConcatEmptySeq
<1> QED BY <1>3, <1>4

-------------------------------------------------------------------------------
(* What a step leaves alone stays as it was. *)

LEMMA StillOffered ==
  ASSUME Offered, crowded \subseteq crowded',
         \A c \in Conn \ crowded : open'[c]["server"] /\ sender'[c] = "none" =>
            /\ open[c]["server"] /\ sender[c] = "none"
            /\ wire'[c]["client"] = wire[c]["client"]
            /\ Alive(c)' => Alive(c) /\ io'[Client(c)].out = io[Client(c)].out
  PROVE  Offered'
<1> SUFFICES ASSUME NEW c \in Conn \ crowded, open'[c]["server"], sender'[c] = "none"
             PROVE  \E n \in Lengths : Comes(c, <<>>, Message(n))'
  BY DEF Offered
<1>1. PICK n \in Lengths : Comes(c, <<>>, Message(n))
  BY DEF Offered
<1>2. /\ wire'[c]["client"] = wire[c]["client"]
      /\ Alive(c)' => Alive(c) /\ io'[Client(c)].out = io[Client(c)].out
  OBVIOUS
<1>3. Comes(c, <<>>, Message(n))'
  BY <1>1, <1>2 DEF Comes
<1> QED BY <1>3

LEMMA StillHearing ==
  ASSUME Hearing, crowded \subseteq crowded',
         \A c \in Conn \ crowded : client'[c] \in {"send", "recv"} /\ io'[Client(c)].rc = 0 =>
            /\ client[c] = client'[c] /\ io'[Client(c)] = io[Client(c)]
            /\ wire'[c]["server"] = wire[c]["server"]
  PROVE  Hearing'
  BY DEF Hearing, Hears

\* It depends on these only.
LEMMA SteadyStage ==
  ASSUME AckInv, NEW c \in Conn, main' = "dead" <=> main = "dead",
         c \in crowded' <=> c \in crowded, client'[c] \in {"off", "send", "recv", "gone"},
         client'[c] = "gone" <=> client[c] = "gone", client'[c] = "off" <=> client[c] = "off",
         Alive(c) => /\ io'[Client(c)].out = <<>> <=> io[Client(c)].out = <<>>
                     /\ (Active(c) /\ Between)' <=> Active(c) /\ Between
  PROVE  Stage(c)' = Stage(c)
<1>1. client[c] \in {"off", "send", "recv", "gone"}
  BY DEF AckInv, TypeOK
<1>2. Alive(c)' <=> Alive(c)
  BY <1>1 DEF Alive
<1>3. CASE client[c] = "gone" \/ main = "dead" \/ c \in crowded
  <2>1. Stage(c) = "closed"
    BY <1>3 DEF Stage, Alive
  <2>2. Stage(c)' = "closed"
    BY <1>3 DEF Stage, Alive
  <2> QED BY <2>1, <2>2
<1>4. CASE client[c] = "off" /\ main # "dead" /\ c \notin crowded
  <2>1. Stage(c) = "ask"
    BY <1>4 DEF Stage, Alive
  <2>2. Stage(c)' = "ask"
    BY <1>4 DEF Stage, Alive
  <2> QED BY <2>1, <2>2
<1>5. CASE Alive(c)
  BY <1>2, <1>5 DEF Stage, Alive
<1> QED BY <1>1, <1>3, <1>4, <1>5 DEF Alive

\* While the last connection is crowded, what the server does concerns that one only: the
\* others wait.
LEMMA Elsewhere ==
  ASSUME AckInv, last \in crowded, TypeOK', Calls', Accepting',
         UNCHANGED <<client, last, crowded>>, main' = "dead" <=> main = "dead", fd' \in {fd, 0},
         \A c \in Conn : /\ io'[Client(c)] = io[Client(c)]
                         /\ open'[c]["client"] = open[c]["client"]
                         /\ open'[c]["server"] => open[c]["server"],
         \A c \in Conn \ {last} :
            /\ \A s \in Side : wire'[c][s] = wire[c][s]
            /\ open'[c]["server"] = open[c]["server"] /\ (c \in reset' <=> c \in reset)
            /\ sender'[c] = "none" <=> sender[c] = "none"
            /\ sender[c] = "none" => io'[Sender(c)] = io[Sender(c)],
         fd' = 0 \/ open'[last]["server"] = open[last]["server"]
  PROVE  AckInv' /\ Steady(Conn)
<1>1. /\ last \in Conn /\ last # 0 /\ client[last] # "off" /\ fd \in {0, last}
      /\ \A c \in Conn : Alive(c) => sender[c] = "none"
      /\ \A c \in Conn : c # 0
  BY AckAssumption DEF AckInv, TypeOK, Serving, Accepting
<1>2. \A c \in Conn : /\ Alive(c)' <=> Alive(c)
                      /\ Alive(c) => c # last
  BY DEF Alive
<1>3. Connected'
  <2> SUFFICES ASSUME NEW c \in Conn PROVE Link(c)'
    BY DEF Connected
  <2>1. CASE c = last
    BY <1>1, <1>2, <2>1, Sides DEF AckInv, Connected, Link
  <2>2. CASE c # last
    BY <1>1, <1>2, <2>2, Sides DEF AckInv, Connected, Link
  <2> QED BY <2>1, <2>2
<1>4. Serving'
  BY DEF Serving
<1>5. Offered'
  <2>1. \A c \in Conn \ crowded : c # last
    OBVIOUS
  <2> QED BY <1>2, <2>1, Sides, StillOffered DEF AckInv, MessageFramed
<1>6. MessageFramed'
  BY <1>5 DEF MessageFramed
<1>7. Hearing'
  <2>1. \A c \in Conn \ crowded : c # last
    OBVIOUS
  <2> QED BY <2>1, Sides, StillHearing DEF AckInv
<1>8. Replying'
  <2> SUFFICES ASSUME NEW c \in Conn, Alive(c)
               PROVE  Silent(c)' /\ ~Active(c)' /\ sender'[c] = "none"
    BY <1>2 DEF Replying, Replies
  <2>1. Silent(c) /\ sender[c] = "none" /\ c # last
    BY <1>1, <1>2 DEF AckInv, Replying, Replies, Active
  <2> QED BY <2>1, Sides DEF Silent, Active
<1>9. Steady(Conn)
  <2>1. \A c \in Conn : Alive(c) => ~Active(c) /\ ~Active(c)'
    BY <1>1, <1>2 DEF Active
  <2> QED BY <2>1, SteadyStage DEF AckInv, TypeOK, Steady
<1> QED BY <1>3, <1>4, <1>6, <1>7, <1>8, <1>9 DEF AckInv

\* What the client of a crowded connection does concerns this connection only.
LEMMA Aside ==
  ASSUME AckInv, NEW c \in crowded, TypeOK', Calls',
         UNCHANGED <<main, fd, flag, sender, last, crowded>>,
         client'[c] # "off", client'[c] = "gone" => ~open'[c]["client"],
         open'[c]["server"] = open[c]["server"], io'[Main] = io[Main],
         \A d \in Conn : io'[Sender(d)] = io[Sender(d)],
         \A d \in Conn \ {c} :
            /\ client'[d] = client[d] /\ io'[Client(d)] = io[Client(d)]
            /\ \A s \in Side : wire'[d][s] = wire[d][s] /\ open'[d][s] = open[d][s]
            /\ d \in reset' <=> d \in reset
  PROVE  AckInv' /\ Steady(Conn)
<1>1. c \in Conn /\ c # 0 /\ client[c] # "off" /\ (fd # 0 => fd \in Conn /\ fd = last)
  BY AckAssumption DEF AckInv, TypeOK, Serving, Accepting
<1>2. \A d \in Conn : /\ Alive(d)' <=> Alive(d)
                      /\ Alive(d) => d # c
                      /\ Active(d)' <=> Active(d)
  BY DEF Alive, Active
<1>3. Connected'
  <2> SUFFICES ASSUME NEW d \in Conn PROVE Link(d)'
    BY DEF Connected
  <2>1. CASE d = c
    BY <1>1, <1>2, <2>1 DEF AckInv, Connected, Link
  <2>2. CASE d # c
    BY <1>1, <1>2, <2>2, Sides DEF AckInv, Connected, Link
  <2> QED BY <2>1, <2>2
<1>4. Serving'
  <2>1. Accepting'
    BY <1>2 DEF AckInv, Serving, Accepting
  <2> QED BY <1>1, <1>2, <2>1 DEF AckInv, Serving, Alone
<1>5. Offered'
  BY <1>2, Sides, StillOffered DEF AckInv, MessageFramed
<1>6. ASSUME last \notin crowded
      PROVE  ServerFramed'
  <2>1. fd # c
    BY <1>1, <1>6
  <2>2. fd # 0 => /\ Alive(fd)' <=> Alive(fd)
                  /\ io'[Client(fd)] = io[Client(fd)]
                  /\ wire'[fd]["client"] = wire[fd]["client"]
    BY <1>1, <1>2, <2>1, Sides
  <2>3. (Drained' <=> Drained) /\ (Between' <=> Between)
    BY <2>2 DEF Drained, Between
  <2>4. \A m : Upto(io[Main].got, m)' <=> Upto(io[Main].got, m)
    BY <2>2, ZenonT(60) DEF Upto, Comes
  <2> QED BY <1>6, <2>3, <2>4, ZenonT(60)
             DEF AckInv, MessageFramed, ServerFramed, HeadFramed, BodyFramed
<1>7. Hearing'
  BY Sides, StillHearing DEF AckInv
<1>8. Replying'
  <2> SUFFICES ASSUME NEW d \in Conn, Alive(d)
               PROVE  Replies(d)'
    BY <1>2 DEF Replying
  <2>1. d # c /\ Replies(d)
    BY <1>2 DEF AckInv, Replying
  <2>2. Silent(d)' <=> Silent(d)
    BY <2>1, Sides DEF Silent
  <2>3. Active(d) => (Between' <=> Between)
    <3>1. Active(d) => fd = d
      BY DEF AckInv, Connected, Link, Active
    <3> QED BY <1>1, <1>2, <2>1, <3>1, Sides DEF Between, Drained
  <2> QED BY <1>2, <2>1, <2>2, <2>3, Sides DEF Replies
<1>9. Steady(Conn)
  <2> SUFFICES ASSUME NEW d \in Conn PROVE Stage(d)' = Stage(d)
    BY DEF Steady
  <2>1. CASE d = c
    BY <2>1 DEF Stage, Alive
  <2>2. CASE d # c
    <3>1. Alive(d) /\ Active(d) => fd = d
      BY DEF AckInv, Connected, Link, Active
    <3>2. Alive(d) /\ Active(d) => (Between' <=> Between)
      BY <1>1, <1>2, <2>2, <3>1, Sides DEF Between, Drained
    <3> QED BY <1>2, <2>2, <3>2, SteadyStage DEF AckInv, TypeOK
  <2> QED BY <2>1, <2>2
<1> QED BY <1>3, <1>4, <1>5, <1>6, <1>7, <1>8, <1>9 DEF AckInv, MessageFramed
-------------------------------------------------------------------------------
(* The steps that only move control. *)

LEMMA KeepsRefused ==
  ASSUME AckInv, NEW c \in Conn, Refused(c)
  PROVE  AckInv' /\ Steady(Conn)
<1>1. TypeOK'
  BY DEF AckInv, TypeOK, StreamTypeOK, streamVars, acceptVars, Refused
<1>2. /\ client \in [Conn -> {"off", "send", "recv", "gone"}] /\ main = "dead"
      /\ client[c] = "off" /\ client' = [client EXCEPT ![c] = "gone"]
      /\ UNCHANGED <<wire, open, reset, io, main, fd, flag, sender, last, crowded>>
  BY DEF AckInv, TypeOK, streamVars, acceptVars, Refused
<1>3. \A d \in Conn : client'[d] = IF d = c THEN "gone" ELSE client[d]
  BY <1>2
<1>4. Calls'
  BY <1>2, <1>3 DEF AckInv, Calls, Returned
<1>5. \A d \in Conn : ~Alive(d)'
  BY <1>2 DEF Alive
<1>6. Connected'
  BY <1>2, <1>3, <1>5, Sides DEF AckInv, Connected, Link
<1>7. Serving'
  BY <1>2, <1>3, <1>5 DEF AckInv, Serving, Accepting, Alone, Active
<1>8. Offered'
  BY <1>2, <1>5, StillOffered DEF AckInv, MessageFramed, ServerFramed
<1>9. ServerFramed'
  BY <1>2 DEF ServerFramed, HeadFramed, BodyFramed
<1>10. Hearing'
  BY <1>2, <1>3, StillHearing DEF AckInv
<1>11. Replying'
  BY <1>5 DEF Replying, Replies
<1>12. Steady(Conn)
  BY <1>2 DEF Steady, Stage, Alive
<1> QED
  BY <1>1, <1>4, <1>6, <1>7, <1>8, <1>9, <1>10, <1>11, <1>12
     DEF AckInv, MessageFramed, ServerFramed

LEMMA KeepsAccept ==
  ASSUME AckInv, NEW c \in Conn, Accept(c)
  PROVE  AckInv' /\ (Steady(Conn) \/ (Stage(c)' = "closed" /\ Steady(Conn \ {c})))
<1>1. /\ main = "accept" /\ main' = "clear" /\ fd' = c /\ last' = c
      /\ open[c]["server"] /\ sender[c] = "none"
      /\ crowded' = crowded \/ crowded' = crowded \union {c}
      /\ c \in crowded' \/ \A d \in Conn : sender[d] \in {"none", "gone"}
      /\ UNCHANGED <<wire, open, reset, io, client, flag, sender>>
  BY DEF Accept, Running, streamVars
<1>2. fd = 0 /\ \A d \in Conn : Alive(d) => sender[d] = "none"
  BY <1>1, AckAssumption DEF AckInv, Serving, Accepting, Connected, Link
<1>3. c # last /\ c \notin crowded /\ client[c] # "off" /\ c # 0 /\ crowded \subseteq crowded'
  BY <1>1, Sides, AckAssumption DEF AckInv, Serving, Accepting, Connected, Link
<1>4. \A d \in Conn : Alive(d)' => Alive(d)
  BY <1>1 DEF Alive
<1>5. TypeOK'
  BY <1>1 DEF AckInv, TypeOK, StreamTypeOK
<1>6. Calls'
  BY <1>1 DEF AckInv, Calls, Returned
<1>7. Connected'
  BY <1>1, <1>2, <1>4 DEF AckInv, Connected, Link
<1>8. Accepting'
  <2>1. \A d \in crowded' : d = c \/ sender[d] # "none"
    BY <1>1, AckAssumption DEF AckInv, TypeOK, Serving, Accepting
  <2> QED BY <1>1, <1>2, <1>3, <1>4, <2>1 DEF AckInv, Serving, Accepting
<1>9. Serving'
  BY <1>1, <1>8 DEF Serving, Alone, Active
<1>10. Offered'
  BY <1>1, <1>3, <1>4, StillOffered DEF AckInv, MessageFramed
<1>11. ServerFramed'
  BY <1>1 DEF ServerFramed, HeadFramed, BodyFramed
<1>12. Hearing'
  BY <1>1, <1>3, StillHearing DEF AckInv
<1>13. Replying'
  BY <1>1, <1>2, <1>4 DEF AckInv, Replying, Replies, Active, Silent
<1>14. ASSUME NEW d \in Conn, d \in crowded' => d \in crowded
       PROVE  Stage(d)' = Stage(d)
  <2>1. ~Between /\ ~Between'
    BY <1>1 DEF Between
  <2> QED BY <1>1, <1>14, <2>1, SteadyStage DEF AckInv, TypeOK
<1>15. c \in crowded' => Stage(c)' = "closed"
  BY DEF Stage, Alive
<1> QED
  BY <1>1, <1>5, <1>6, <1>7, <1>9, <1>10, <1>11, <1>12, <1>13, <1>14, <1>15
     DEF AckInv, MessageFramed, Steady

LEMMA KeepsClearFlag ==
  ASSUME AckInv, ClearFlag
  PROVE  AckInv' /\ Steady(Conn)
<1>1. /\ main = "clear" /\ main' = "spawn" /\ flag' = 0
      /\ UNCHANGED <<wire, open, reset, io, client, fd, sender, last, crowded>>
  BY DEF ClearFlag, streamVars, acceptVars
<1>2. TypeOK'
  BY <1>1 DEF AckInv, TypeOK, StreamTypeOK
<1>3. Calls'
  BY <1>1 DEF AckInv, Calls, Returned
<1>4. Accepting'
  BY <1>1 DEF AckInv, Serving, Accepting, Alive
<1> SUFFICES ASSUME last \notin crowded PROVE AckInv' /\ Steady(Conn)
  BY <1>4, <1>1, <1>2, <1>3, Elsewhere
<1>5. Connected'
  BY <1>1 DEF AckInv, Connected, Link, Alive
<1>6. Serving'
  BY <1>4, <1>1 DEF AckInv, Serving, Alone, Active
<1>7. Offered'
  BY <1>1, StillOffered DEF AckInv, MessageFramed, ServerFramed, Alive
<1>8. ServerFramed'
  BY <1>1 DEF ServerFramed, HeadFramed, BodyFramed
<1>9. Hearing'
  BY <1>1, StillHearing DEF AckInv
<1>10. Replying'
  <2>1. \A c \in Conn : ~Active(c)
    BY <1>1 DEF AckInv, Serving, Accepting, Alone
  <2> QED BY <1>1, <2>1 DEF AckInv, Replying, Replies, Alive, Active, Silent
<1>11. Steady(Conn)
  <2>1. ~Between /\ ~Between'
    BY <1>1 DEF Between
  <2> QED BY <1>1, <2>1, SteadyStage DEF AckInv, TypeOK, Steady
<1> QED
  BY <1>2, <1>3, <1>5, <1>6, <1>7, <1>8, <1>9, <1>10, <1>11
     DEF AckInv, MessageFramed, ServerFramed

\* All of the text has been received, so nothing is left on its way.
LEMMA BodyDrained ==
  ASSUME AckInv, last \notin crowded, main = "body", Succeeded(Main)
  PROVE  Drained /\ \E n \in Lengths : io[Main].got = Item("text", n)
<1> DEFINE got == io[Main].got
<1>1. io[Main].rc = 0 /\ io[Main].want = 0 /\ got \in Seq(Unit)
  BY Threads DEF Succeeded, Returned, AckInv, TypeOK, StreamTypeOK
<1>2. PICK n \in Lengths : 0 = n - Len(got) /\ Upto(got, Item("text", n))
  BY <1>1 DEF AckInv, MessageFramed, ServerFramed, BodyFramed
<1> DEFINE text == Item("text", n)
           w == wire[fd]["client"]
<1>3. n \in Nat /\ text \in Seq(Unit) /\ Len(text) = n /\ Len(got) \in Nat
  BY <1>1, AckAssumption, Messages, LenProperties
<1>4. Len(got) = Len(text)
  BY <1>2, <1>3
<1>5. CASE fd = 0
  <2>1. PICK more \in Seq(Unit) : got \o more = text
    BY <1>2, <1>5 DEF Upto
  <2>2. got \o <<>> = got /\ <<>> \in Seq(Unit)
    BY <1>1, ConcatEmptySeq, EmptySeq
  <2> HIDE DEF got, text
  <2>3. (got \o <<>>) \o more = text
    BY <2>1, <2>2
  <2>4. got = text
    BY <1>1, <1>3, <1>4, <2>2, <2>3, NothingLeft
  <2> QED BY <1>5, <2>4 DEF Drained, got, text
<1>6. CASE fd # 0
  <2>1. PICK more \in Seq(Unit) :
             /\ (got \o w) \o more = text
             /\ Alive(fd) => more = io[Client(fd)].out
    BY <1>2, <1>6 DEF Upto, Comes
  <2>2. w \in Seq(Unit)
    BY <1>6, Sides DEF AckInv, TypeOK, StreamTypeOK
  <2> HIDE DEF got, text, w
  <2>3. got = text /\ w = <<>> /\ more = <<>>
    BY <1>1, <1>3, <1>4, <2>1, <2>2, NothingLeft, ZenonT(60)
  <2> QED BY <2>1, <2>3 DEF Drained, got, text, w
<1> QED BY <1>5, <1>6

LEMMA KeepsBodyReceived ==
  ASSUME AckInv, BodyReceived
  PROVE  AckInv' /\ Steady(Conn)
<1>1. /\ main = "body" /\ main' = "flag" /\ Succeeded(Main)
      /\ UNCHANGED <<wire, open, reset, io, client, fd, flag, sender, last, crowded>>
  BY DEF BodyReceived, streamVars, acceptVars
<1>2. TypeOK'
  BY <1>1 DEF AckInv, TypeOK, StreamTypeOK
<1>3. Calls'
  BY <1>1 DEF AckInv, Calls, Returned, Succeeded
<1>4. Accepting'
  BY <1>1 DEF AckInv, Serving, Accepting, Alive
<1> SUFFICES ASSUME last \notin crowded PROVE AckInv' /\ Steady(Conn)
  BY <1>4, <1>1, <1>2, <1>3, Elsewhere
<1>5. Connected'
  BY <1>1 DEF AckInv, Connected, Link, Alive
<1>6. Serving'
  BY <1>4, <1>1 DEF AckInv, Serving, Alone, Active
<1>7. Offered'
  BY <1>1, StillOffered DEF AckInv, MessageFramed, ServerFramed, Alive
<1>8. HeadFramed' /\ BodyFramed'
  BY <1>1 DEF HeadFramed, BodyFramed
<1>9. Drained'
  BY <1>1, BodyDrained DEF Drained, Alive
<1>10. Hearing'
  BY <1>1, StillHearing DEF AckInv
<1>11. Replying'
  BY <1>1 DEF AckInv, Replying, Replies, Alive, Active, Silent, Between
<1>12. Steady(Conn)
  <2>1. ~Between /\ ~Between'
    BY <1>1 DEF Between
  <2> QED BY <1>1, <2>1, SteadyStage DEF AckInv, TypeOK, Steady
<1> QED
  BY <1>2, <1>3, <1>5, <1>6, <1>7, <1>8, <1>9, <1>10, <1>11, <1>12
     DEF AckInv, MessageFramed, ServerFramed

LEMMA KeepsRecvFailed ==
  ASSUME AckInv, RecvFailed
  PROVE  AckInv' /\ Steady(Conn)
<1>1. /\ main \in {"head", "body"} /\ main' = "close" /\ io[Main].rc = -1
      /\ UNCHANGED <<wire, open, reset, io, client, fd, flag, sender, last, crowded>>
  BY DEF RecvFailed, Failed, streamVars, acceptVars
<1>2. TypeOK'
  BY <1>1 DEF AckInv, TypeOK, StreamTypeOK
<1>3. \A c \in Conn : Alive(c) => fd # c /\ sender[c] = "none"
  BY <1>1 DEF AckInv, Connected, Link
<1>4. Calls'
  BY <1>1, Threads DEF AckInv, Calls, Returned
<1>5. Accepting'
  BY <1>1 DEF AckInv, Serving, Accepting, Alive
<1> SUFFICES ASSUME last \notin crowded PROVE AckInv' /\ Steady(Conn)
  BY <1>5, <1>1, <1>2, <1>4, Elsewhere
<1>6. Connected'
  BY <1>1, <1>3 DEF AckInv, Connected, Link, Alive
<1>7. Serving'
  BY <1>5, <1>1 DEF AckInv, Serving, Alone, Active
<1>8. Offered'
  BY <1>1, StillOffered DEF AckInv, MessageFramed, ServerFramed, Alive
<1>9. ServerFramed'
  BY <1>1 DEF ServerFramed, HeadFramed, BodyFramed
<1>10. Hearing'
  BY <1>1, StillHearing DEF AckInv
<1>11. Replying'
  <2>1. \A c \in Conn : Alive(c)' => Alive(c) /\ sender[c] = "none"
    BY <1>1, <1>3 DEF Alive
  <2> QED BY <1>1, <2>1 DEF AckInv, Replying, Replies, Active, Silent
<1>12. Steady(Conn)
  BY <1>1, <1>3, SteadyStage DEF AckInv, TypeOK, Steady, Active
<1> QED
  BY <1>2, <1>4, <1>6, <1>7, <1>8, <1>9, <1>10, <1>11, <1>12
     DEF AckInv, MessageFramed, ServerFramed

LEMMA KeepsRequestEnd ==
  ASSUME AckInv, RequestEnd
  PROVE  AckInv' /\ Steady(Conn)
<1>1. /\ main = "end" /\ main' = "accept" /\ flag' = 1
      /\ UNCHANGED <<wire, open, reset, io, client, fd, sender, last, crowded>>
  BY DEF RequestEnd, streamVars, acceptVars
<1>2. TypeOK'
  BY <1>1 DEF AckInv, TypeOK, StreamTypeOK
<1>3. Calls'
  BY <1>1 DEF AckInv, Calls, Returned
<1>4. Accepting'
  BY <1>1 DEF AckInv, Serving, Accepting, Alive
<1> SUFFICES ASSUME last \notin crowded PROVE AckInv' /\ Steady(Conn)
  BY <1>4, <1>1, <1>2, <1>3, Elsewhere
<1>5. Connected'
  BY <1>1 DEF AckInv, Connected, Link, Alive
<1>6. Serving'
  BY <1>4, <1>1 DEF AckInv, Serving, Alone, Active
<1>7. Offered'
  BY <1>1, StillOffered DEF AckInv, MessageFramed, ServerFramed, Alive
<1>8. ServerFramed'
  BY <1>1 DEF ServerFramed, HeadFramed, BodyFramed
<1>9. Hearing'
  BY <1>1, StillHearing DEF AckInv
<1>10. Replying'
  <2>1. fd = 0
    BY <1>1 DEF AckInv, Serving, Accepting, Alone
  <2>2. \A c \in Conn : Alive(c)' => Alive(c) /\ sender[c] = "none"
    BY <1>1, <2>1, AckAssumption DEF AckInv, Connected, Link, Alive
  <2> QED BY <1>1, <2>2 DEF AckInv, Replying, Replies, Active, Silent
<1>11. Steady(Conn)
  <2>1. ~Between /\ ~Between'
    BY <1>1 DEF Between
  <2> QED BY <1>1, <2>1, SteadyStage DEF AckInv, TypeOK, Steady
<1> QED
  BY <1>2, <1>3, <1>5, <1>6, <1>7, <1>8, <1>9, <1>10, <1>11
     DEF AckInv, MessageFramed, ServerFramed

LEMMA KeepsSeeFlag ==
  ASSUME AckInv, NEW c \in Conn, SeeFlag(c)
  PROVE  AckInv' /\ Steady(Conn)
<1>1. /\ sender[c] = "get" /\ flag = 1 /\ sender' = [sender EXCEPT ![c] = "clear"]
      /\ sender \in [Conn -> {"none", "get", "clear", "send", "gone"}]
      /\ UNCHANGED <<wire, open, reset, io, client, main, fd, flag, last, crowded>>
  BY DEF SeeFlag, streamVars, acceptVars, AckInv, TypeOK
<1>2. TypeOK'
  BY <1>1 DEF AckInv, TypeOK, StreamTypeOK
<1>3. \A d \in Conn : sender'[d] = IF d = c THEN "clear" ELSE sender[d]
  BY <1>1
<1>4. \A d \in Conn : Active(d)' <=> Active(d)
  BY <1>1, <1>3 DEF Active
<1>5. Calls'
  BY <1>1, <1>3 DEF AckInv, Calls, Returned
<1>6. Accepting'
  BY <1>1, <1>3 DEF AckInv, Serving, Accepting, Alive
<1> SUFFICES ASSUME last \notin crowded PROVE AckInv' /\ Steady(Conn)
  BY <1>6, <1>1, <1>2, <1>3, <1>5, Elsewhere
<1>7. Connected'
  BY <1>1, <1>3 DEF AckInv, Connected, Link, Alive
<1>8. Serving'
  BY <1>6, <1>1, <1>3, <1>4 DEF AckInv, Serving, Alone, TypeOK
<1>9. Offered'
  BY <1>1, <1>3, StillOffered DEF AckInv, MessageFramed, ServerFramed, Alive
<1>10. ServerFramed'
  BY <1>1
     DEF AckInv, MessageFramed, ServerFramed, HeadFramed, BodyFramed, Between, Drained,
          Upto, Comes, Alive
<1>11. Hearing'
  BY <1>1, StillHearing DEF AckInv
<1>12. Replying'
  BY <1>1, <1>3, <1>4 DEF AckInv, Replying, Replies, Alive, Silent, Between, Drained
<1>13. Steady(Conn)
  <2>1. Between' <=> Between
    BY <1>1 DEF Between, Drained, Alive
  <2> QED BY <1>1, <1>4, <2>1, SteadyStage DEF AckInv, TypeOK, Steady
<1> QED
  BY <1>2, <1>5, <1>7, <1>8, <1>9, <1>10, <1>11, <1>12, <1>13
     DEF AckInv, MessageFramed, ServerFramed

LEMMA KeepsSent ==
  ASSUME AckInv, NEW c \in Conn, Sent(c)
  PROVE  AckInv' /\ Steady(Conn)
<1>1. /\ sender[c] = "send" /\ Succeeded(Sender(c)) /\ sender' = [sender EXCEPT ![c] = "get"]
      /\ sender \in [Conn -> {"none", "get", "clear", "send", "gone"}]
      /\ UNCHANGED <<wire, open, reset, io, client, main, fd, flag, last, crowded>>
  BY DEF Sent, streamVars, acceptVars, AckInv, TypeOK
<1>2. TypeOK'
  BY <1>1 DEF AckInv, TypeOK, StreamTypeOK
<1>3. \A d \in Conn : sender'[d] = IF d = c THEN "get" ELSE sender[d]
  BY <1>1
<1>4. \A d \in Conn : Active(d)' <=> Active(d)
  BY <1>1, <1>3 DEF Active
<1>5. Calls'
  BY <1>1, <1>3 DEF AckInv, Calls, Returned, Succeeded
<1>6. Accepting'
  BY <1>1, <1>3 DEF AckInv, Serving, Accepting, Alive
<1> SUFFICES ASSUME last \notin crowded PROVE AckInv' /\ Steady(Conn)
  BY <1>6, <1>1, <1>2, <1>3, <1>5, Elsewhere
<1>7. Connected'
  BY <1>1, <1>3 DEF AckInv, Connected, Link, Alive
<1>8. Serving'
  BY <1>6, <1>1, <1>3, <1>4 DEF AckInv, Serving, Alone, TypeOK
<1>9. Offered'
  BY <1>1, <1>3, StillOffered DEF AckInv, MessageFramed, ServerFramed, Alive
<1>10. ServerFramed'
  BY <1>1
     DEF AckInv, MessageFramed, ServerFramed, HeadFramed, BodyFramed, Between, Drained,
          Upto, Comes, Alive
<1>11. Hearing'
  BY <1>1, StillHearing DEF AckInv
<1>12. Replying'
  BY <1>1, <1>3, <1>4, ZenonT(60) DEF AckInv, Replying, Replies, Alive, Silent, Between, Drained
<1>13. Steady(Conn)
  <2>1. Between' <=> Between
    BY <1>1 DEF Between, Drained, Alive
  <2> QED BY <1>1, <1>4, <2>1, SteadyStage DEF AckInv, TypeOK, Steady
<1> QED
  BY <1>2, <1>5, <1>7, <1>8, <1>9, <1>10, <1>11, <1>12, <1>13
     DEF AckInv, MessageFramed, ServerFramed
-------------------------------------------------------------------------------
(* The steps that begin a call, and those of a call that fails. *)

LEMMA KeepsSpawn ==
  ASSUME AckInv, Spawn
  PROVE  AckInv' /\ Steady(Conn)
<1>1. /\ main = "spawn" /\ main' = "head" /\ sender' = [sender EXCEPT ![last] = "get"]
      /\ BeginRecv(Main, 2)
      /\ UNCHANGED <<wire, open, reset, client, fd, flag, last, crowded>>
  BY DEF Spawn, acceptVars
<1>2. /\ sender \in [Conn -> {"none", "get", "clear", "send", "gone"}]
      /\ StreamTypeOK(Thread, Unit)
  BY DEF AckInv, TypeOK
<1>3. last \in Conn /\ sender[last] = "none"
  BY <1>1 DEF AckInv, TypeOK, Serving, Accepting
<1>4. \A d \in Conn : sender'[d] = IF d = last THEN "get" ELSE sender[d]
  BY <1>1, <1>2, <1>3
<1>5. /\ io' \in [Thread -> Call] /\ Only(Main)
      /\ io'[Main].rc = 0 /\ io'[Main].out = <<>> /\ io'[Main].want = 2 /\ io'[Main].got = <<>>
  BY <1>1, <1>2, BeginsRecv, Threads
<1>6. \A c \in Conn : io'[Client(c)] = io[Client(c)] /\ io'[Sender(c)] = io[Sender(c)]
  BY <1>5, Threads DEF Only
<1>7. TypeOK'
  BY <1>1, <1>3, <1>5 DEF AckInv, TypeOK, StreamTypeOK, Call
<1>8. Calls'
  <2>1. \A p \in Thread : io'[p].rc = -1 => Returned(p)'
    BY <1>5 DEF AckInv, Calls, Returned, Only
  <2> QED BY <1>1, <1>3, <1>4, <1>5, <1>6, <2>1, EmptySeq DEF AckInv, Calls
<1>9. Accepting'
  BY <1>1, <1>3, <1>4 DEF AckInv, Serving, Accepting, Alive
<1> SUFFICES ASSUME last \notin crowded PROVE AckInv' /\ Steady(Conn)
  BY <1>9, <1>1, <1>4, <1>6, <1>7, <1>8, Elsewhere
<1>10. /\ fd = last /\ fd \in Conn /\ fd # 0 /\ flag = 0 /\ \A d \in Conn : ~Active(d)
       /\ sender[fd] = "none" /\ fd \notin crowded
  BY <1>1, <1>3, AckAssumption DEF AckInv, Serving, Alone
<1>11. Connected'
  BY <1>1, <1>3, <1>10, <1>4, <1>5, <1>6, Sides DEF AckInv, Connected, Link, Alive
<1>12. Serving'
  BY <1>9, <1>1, <1>10, <1>4 DEF Serving, Alone, Active
<1>13. Offered'
  BY <1>1, <1>10, <1>4, <1>6, StillOffered DEF AckInv, MessageFramed, ServerFramed, Alive
<1>14. HeadFramed'
  <2>1. open[fd]["server"]
    BY <1>10 DEF AckInv, Connected, Link
  <2>2. PICK n \in Lengths : Comes(fd, <<>>, Message(n))
    BY <1>10, <2>1 DEF AckInv, MessageFramed, ServerFramed, Offered
  <2>3. \E more \in Seq(Unit) : /\ (io'[Main].got \o wire'[fd]["client"]) \o more = Message(n)
                                /\ Alive(fd)' => more = io'[Client(fd)].out
    BY <1>1, <1>10, <1>5, <1>6, <2>2 DEF Comes, Alive
  <2>4. Upto(io[Main].got, Message(n))'
    BY <1>1, <1>10, <2>3 DEF Upto, Comes
  <2>5. Len(io'[Main].got) = 0
    BY <1>5, EmptySeq
  <2> QED BY <1>5, <2>4, <2>5 DEF HeadFramed
<1>15. BodyFramed' /\ (main = "flag" => Drained)'
  BY <1>1 DEF BodyFramed
<1>16. Hearing'
  BY <1>1, <1>6, StillHearing DEF AckInv
<1>17. Alive(fd) => ~Between'
  <2> SUFFICES ASSUME Alive(fd), wire[fd]["client"] = <<>>, io[Client(fd)].out = <<>>
               PROVE  FALSE
    BY <1>1, <1>10, <1>6 DEF Between, Drained, Alive
  <2>1. open[fd]["server"]
    BY <1>10 DEF AckInv, Connected, Link
  <2>2. PICK n \in Lengths : Comes(fd, <<>>, Message(n))
    BY <1>10, <2>1 DEF AckInv, MessageFramed, ServerFramed, Offered
  <2>3. (<<>> \o <<>>) \o <<>> = Message(n)
    BY <2>2 DEF Comes
  <2>4. (<<>> \o <<>>) \o <<>> = <<>>
    BY EmptySeq, ConcatEmptySeq
  <2> QED BY <2>3, <2>4, AckAssumption, Messages
<1>18. Replying'
  <2>1. \A c \in Conn : Alive(c)' => Alive(c) /\ sender[c] # "clear" /\ Silent(c)
    BY <1>1, <1>10 DEF AckInv, Replying, Replies, Alive, Active
  <2>2. \A c \in Conn : Active(c)' <=> c = fd
    BY <1>10, <1>4 DEF Active
  <2> SUFFICES ASSUME NEW c \in Conn, Alive(c)'
               PROVE  /\ Silent(c)' /\ ~(Active(c) /\ Between)'
                      /\ sender'[c] # "none" => flag' = 0 /\ sender'[c] # "clear"
    BY DEF Replying, Replies
  <2>3. Silent(c)'
    BY <1>1, <1>6, <2>1 DEF Silent
  <2> QED BY <1>1, <1>10, <1>4, <1>17, <2>1, <2>2, <2>3
<1>19. Steady(Conn)
  <2>1. \A c \in Conn : ~Active(c) /\ (Active(c)' => c = fd)
    BY <1>10, <1>4 DEF Active
  <2> QED BY <1>1, <1>6, <1>17, <2>1, SteadyStage DEF AckInv, TypeOK, Steady
<1> QED
  BY <1>7, <1>8, <1>11, <1>12, <1>13, <1>14, <1>15, <1>16, <1>18, <1>19
     DEF AckInv, MessageFramed, ServerFramed

LEMMA KeepsAwaitAck ==
  ASSUME AckInv, NEW c \in Conn, AwaitAck(c)
  PROVE  AckInv' /\ Steady(Conn)
<1>1. /\ client[c] = "send" /\ Succeeded(Client(c)) /\ client' = [client EXCEPT ![c] = "recv"]
      /\ BeginRecv(Client(c), 2)
      /\ UNCHANGED <<wire, open, reset, main, fd, flag, sender, last, crowded>>
  BY Messages DEF AwaitAck, acceptVars
<1>2. /\ client \in [Conn -> {"off", "send", "recv", "gone"}]
      /\ StreamTypeOK(Thread, Unit)
  BY DEF AckInv, TypeOK
<1>3. \A d \in Conn : client'[d] = IF d = c THEN "recv" ELSE client[d]
  BY <1>1, <1>2
<1>4. io[Client(c)].rc = 0 /\ io[Client(c)].out = <<>> /\ io[Client(c)].got = <<>>
  BY <1>1 DEF Succeeded, Returned, AckInv, Calls
<1>5. /\ io' \in [Thread -> Call] /\ Only(Client(c))
      /\ io'[Client(c)].rc = 0 /\ io'[Client(c)].out = <<>> /\ io'[Client(c)].want = 2
      /\ io'[Client(c)].got = <<>>
  BY <1>1, <1>2, BeginsRecv, Threads
<1>6. /\ \A d \in Conn \ {c} : io'[Client(d)] = io[Client(d)]
      /\ \A d \in Conn : io'[Sender(d)] = io[Sender(d)]
      /\ io'[Main] = io[Main]
  BY <1>5, Threads DEF Only
<1>7. \A d \in Conn : /\ Alive(d)' <=> Alive(d)
                      /\ io'[Client(d)].out = io[Client(d)].out
                      /\ io'[Client(d)].rc = io[Client(d)].rc
                      /\ io'[Client(d)].got = io[Client(d)].got
  BY <1>1, <1>3, <1>4, <1>5, <1>6 DEF Alive
<1>8. TypeOK'
  BY <1>1, <1>2, <1>5 DEF AckInv, TypeOK, StreamTypeOK, Call
<1>9. Calls'
  <2>1. \A p \in Thread : io'[p].rc = -1 => Returned(p)'
    BY <1>5 DEF AckInv, Calls, Returned, Only
  <2> QED BY <1>1, <1>3, <1>5, <1>6, <2>1 DEF AckInv, Calls
<1> SUFFICES ASSUME c \notin crowded PROVE AckInv' /\ Steady(Conn)
  BY <1>1, <1>3, <1>6, <1>8, <1>9, Sides, Aside
<1>10. Connected'
  BY <1>1, <1>3, <1>6, <1>7 DEF AckInv, Connected, Link
<1>11. Serving'
  <2>1. Accepting'
    BY <1>1, <1>3, <1>7 DEF AckInv, Serving, Accepting
  <2> QED BY <1>1, <2>1 DEF AckInv, Serving, Alone, Active
<1>12. Offered'
  BY <1>1, <1>7, StillOffered DEF AckInv, MessageFramed, ServerFramed
<1>13. ASSUME last \notin crowded
       PROVE  ServerFramed'
  <2>1. fd # 0 => fd \in Conn
    BY DEF AckInv, TypeOK
  <2> QED BY <1>1, <1>6, <1>7, <1>13, <2>1
             DEF AckInv, MessageFramed, ServerFramed, HeadFramed, BodyFramed, Between, Drained,
                 Upto, Comes
<1>14. Hearing'
  <2> SUFFICES ASSUME NEW d \in Conn \ crowded'
               PROVE  Hears(d)'
    BY DEF Hearing
  <2>1. ASSUME client'[d] \in {"send", "recv"}, io'[Client(d)].rc = 0
        PROVE  \E more \in Seq(Unit) : (io'[Client(d)].got \o wire'[d]["server"]) \o more = Ack
    BY <1>1, <1>3, <1>7, <2>1 DEF AckInv, Hearing, Hears
  <2>2. Len(<<>>) = 0
    BY EmptySeq
  <2>3. ASSUME client'[d] = "recv", io'[Client(d)].rc = 0
        PROVE  io'[Client(d)].want = 2 - Len(io'[Client(d)].got)
    <3>1. CASE d = c
      BY <1>5, <2>2, <3>1
    <3>2. CASE d # c
      BY <1>1, <1>3, <1>6, <2>3, <3>2 DEF AckInv, Hearing, Hears
    <3> QED BY <3>1, <3>2
  <2> QED BY <2>1, <2>3 DEF Hears
<1>15. Replying'
  <2>1. fd # 0 => fd \in Conn
    BY DEF AckInv, TypeOK
  <2>2. Between' <=> Between
    BY <1>1, <1>6, <1>7, <2>1 DEF Between, Drained
  <2> QED BY <1>1, <1>6, <1>7, <2>2 DEF AckInv, Replying, Replies, Active, Silent
<1>16. Steady(Conn)
  <2>1. fd # 0 => fd \in Conn
    BY DEF AckInv, TypeOK
  <2>2. Between' <=> Between
    BY <1>1, <1>6, <1>7, <2>1 DEF Between, Drained
  <2>3. \A d \in Conn : Active(d)' <=> Active(d)
    BY <1>1 DEF Active
  <2> QED BY <1>1, <1>2, <1>3, <1>7, <2>2, <2>3, SteadyStage DEF Steady
<1> QED
  BY <1>1, <1>8, <1>9, <1>10, <1>11, <1>12, <1>13, <1>14, <1>15, <1>16
     DEF AckInv, MessageFramed

\* When a client has received its acknowledgement none is left on its way.
LEMMA AckTaken ==
  ASSUME AckInv, NEW c \in Conn, c \notin crowded, client[c] = "recv", Succeeded(Client(c))
  PROVE  /\ io[Client(c)].got = Ack /\ wire[c]["server"] = <<>>
         /\ Alive(c) => /\ fd = c /\ Active(c) /\ Between /\ flag = 0 /\ sender[c] # "clear"
                        /\ io[Sender(c)].out = <<>>
<1> DEFINE got == io[Client(c)].got
           w == wire[c]["server"]
           out == io[Sender(c)].out
<1>1. /\ io[Client(c)].rc = 0 /\ io[Client(c)].want = 0 /\ got \in Seq(Unit) /\ w \in Seq(Unit)
      /\ out \in Seq(Unit)
  BY Threads, Sides, SMTT(30) DEF Succeeded, Returned, AckInv, TypeOK, StreamTypeOK
<1>2. PICK more \in Seq(Unit) : (got \o w) \o more = Ack
  BY <1>1 DEF AckInv, Hearing, Hears
<1>3. 0 = 2 - Len(got)
  BY <1>1 DEF AckInv, Hearing, Hears
<1>4. Ack \in Seq(Unit) /\ Ack # <<>> /\ Len(Ack) = 2
  BY Messages
<1>5. Len(got) = Len(Ack)
  BY <1>1, <1>3, <1>4, LenProperties
<1> HIDE DEF w
<1>6. got = Ack /\ w = <<>>
  <2> HIDE DEF got
  <2> QED BY <1>1, <1>2, <1>4, <1>5, NothingLeft
<1>7. ASSUME Alive(c)
      PROVE  /\ fd = c /\ Active(c) /\ Between /\ flag = 0 /\ sender[c] # "clear"
             /\ io[Sender(c)].out = <<>>
  <2>1. /\ Active(c) /\ Between /\ flag = 0 /\ sender[c] # "clear"
        /\ (got \o w) \o out = Ack
    BY <1>4, <1>6, <1>7 DEF AckInv, Replying, Replies, Silent, w
  <2>2. fd = c
    BY <1>7, <2>1 DEF AckInv, Connected, Link, Active
  <2>3. io[Sender(c)].out = <<>>
    <3> HIDE DEF got, out
    <3>1. out = <<>>
      BY <1>1, <1>4, <1>5, <2>1, NothingLeft
    <3> QED BY <3>1 DEF out
  <2> QED BY <2>1, <2>2, <2>3
<1> QED BY <1>6, <1>7 DEF w

LEMMA KeepsTakeAck ==
  ASSUME AckInv, NEW c \in Conn, TakeAck(c)
  PROVE  AckInv' /\ (Steady(Conn) \/ Passes(c, "answer", "ask"))
<1>1. PICK n \in Lengths : BeginSend(Client(c), Message(n))
  BY DEF TakeAck, acceptVars
<1>2. /\ client[c] = "recv" /\ Succeeded(Client(c)) /\ client' = [client EXCEPT ![c] = "send"]
      /\ UNCHANGED <<wire, open, reset, main, fd, flag, sender, last, crowded>>
  BY DEF TakeAck, acceptVars
<1>3. /\ client \in [Conn -> {"off", "send", "recv", "gone"}]
      /\ StreamTypeOK(Thread, Unit)
  BY DEF AckInv, TypeOK
<1>4. \A d \in Conn : client'[d] = IF d = c THEN "send" ELSE client[d]
  BY <1>2, <1>3
<1>5. Message(n) \in Seq(Unit) /\ Message(n) # <<>> /\ Ack \in Seq(Unit)
  BY AckAssumption, Messages
<1>6. /\ io' \in [Thread -> Call] /\ Only(Client(c))
      /\ io'[Client(c)].rc = 0 /\ io'[Client(c)].out = Message(n) /\ io'[Client(c)].want = 0
      /\ io'[Client(c)].got = <<>>
  BY <1>1, <1>3, <1>5, BeginsSend, Threads
<1>7. /\ \A d \in Conn \ {c} : io'[Client(d)] = io[Client(d)]
      /\ \A d \in Conn : io'[Sender(d)] = io[Sender(d)]
      /\ io'[Main] = io[Main]
  BY <1>6, Threads DEF Only
<1>8. \A d \in Conn : Alive(d)' <=> Alive(d)
  BY <1>2, <1>4 DEF Alive
<1>9. TypeOK'
  BY <1>2, <1>3, <1>6 DEF AckInv, TypeOK, StreamTypeOK, Call
<1>10. Calls'
  <2>1. \A p \in Thread : io'[p].rc = -1 => Returned(p)'
    BY <1>6 DEF AckInv, Calls, Returned, Only
  <2> QED BY <1>2, <1>4, <1>6, <1>7, <2>1 DEF AckInv, Calls
<1> SUFFICES ASSUME c \notin crowded
             PROVE  AckInv' /\ (Steady(Conn) \/ Passes(c, "answer", "ask"))
  BY <1>2, <1>4, <1>7, <1>9, <1>10, Sides, Aside
<1>11. /\ wire[c]["server"] = <<>>
       /\ Alive(c) => /\ fd = c /\ Active(c) /\ Between /\ flag = 0 /\ sender[c] # "clear"
                      /\ io[Sender(c)].out = <<>>
  BY <1>2, AckTaken
<1>12. Alive(c) \/ main = "dead"
  BY <1>2 DEF Alive
<1>13. Connected'
  BY <1>2, <1>4, <1>6, <1>7, <1>8 DEF AckInv, Connected, Link
<1>14. Serving'
  <2>1. Accepting'
    BY <1>2, <1>4, <1>8 DEF AckInv, Serving, Accepting
  <2> QED BY <1>2, <2>1 DEF AckInv, Serving, Alone, Active
<1>15. Offered'
  <2>1. \A d \in Conn : sender[d] = "none" /\ Alive(d)' => io'[Client(d)].out = io[Client(d)].out
    BY <1>7, <1>8, <1>11 DEF Active
  <2> QED BY <1>2, <1>8, <2>1, StillOffered DEF AckInv, MessageFramed, ServerFramed
<1>16. HeadFramed'
  <2> SUFFICES ASSUME main = "head", io[Main].rc = 0
               PROVE  Upto(io[Main].got, Message(n))'
    BY <1>2, <1>7 DEF HeadFramed
  <2>1. fd = c /\ Between
    BY <1>11, <1>12
  <2>2. io[Main].got = <<>> /\ wire[c]["client"] = <<>> /\ fd # 0
    BY <2>1, AckAssumption DEF Between, Drained
  <2>3. (<<>> \o <<>>) \o Message(n) = Message(n)
    BY <1>5, EmptySeq, ConcatEmptySeq
  <2> QED
    BY <1>2, <1>5, <1>6, <1>7, <2>1, <2>2, <2>3 DEF Upto, Comes
<1>17. BodyFramed' /\ (main = "flag" => Drained)'
  BY <1>2, <1>11, <1>12 DEF BodyFramed, Between
<1>18. Hearing'
  <2> SUFFICES ASSUME NEW d \in Conn \ crowded'
               PROVE  Hears(d)'
    BY DEF Hearing
  <2>1. CASE d = c
    <3>1. (<<>> \o <<>>) \o Ack = Ack
      BY <1>5, EmptySeq, ConcatEmptySeq
    <3>2. (io'[Client(c)].got \o wire'[c]["server"]) \o Ack = Ack
      BY <1>2, <1>6, <1>11, <3>1
    <3> QED BY <1>4, <1>5, <2>1, <3>2 DEF Hears
  <2>2. CASE d # c
    BY <1>2, <1>4, <1>7, <2>2 DEF AckInv, Hearing, Hears
  <2> QED BY <2>1, <2>2
<1>19. Replying'
  <2> SUFFICES ASSUME NEW d \in Conn, Alive(d)'
               PROVE  /\ Silent(d)' /\ ~(Active(d) /\ Between)'
                      /\ sender'[d] # "none" => flag' = 0 /\ sender'[d] # "clear"
    BY DEF Replying, Replies
  <2>1. CASE d = c
    BY <1>2, <1>5, <1>6, <1>7, <1>8, <1>11, <2>1, AckAssumption DEF Silent, Between, Drained
  <2>2. CASE d # c
    <3>1. Alive(d)
      BY <1>8
    <3>2. fd = c
      BY <1>11, <1>12, <3>1 DEF Alive
    <3>3. sender[d] = "none"
      BY <2>2, <3>1, <3>2 DEF AckInv, Connected, Link
    <3>4. Silent(d)
      BY <3>1, <3>3 DEF AckInv, Replying, Replies, Active
    <3> QED BY <1>2, <1>7, <2>2, <3>3, <3>4 DEF Silent, Active
  <2> QED BY <2>1, <2>2
<1>20. Steady(Conn) \/ Passes(c, "answer", "ask")
  <2>1. CASE main = "dead"
    BY <1>2, <2>1 DEF Steady, Stage, Alive
  <2>2. CASE main # "dead"
    <3>1. Stage(c) = "answer"
      BY <1>2, <1>11, <1>12, <2>2 DEF Stage, Alive
    <3>2. ~Between'
      BY <1>2, <1>5, <1>6, <1>8, <1>11, <1>12, <2>2, AckAssumption DEF Between, Drained
    <3>3. Stage(c)' = "ask"
      BY <1>2, <1>4, <1>5, <1>6, <1>8, <1>12, <2>2, <3>2 DEF Stage, Alive
    <3>4. ASSUME NEW d \in Conn \ {c}
          PROVE  Stage(d)' = Stage(d)
      <4>1. Alive(d) => sender[d] = "none"
        BY <1>11, <1>12, <2>2 DEF AckInv, Connected, Link
      <4> QED BY <1>2, <1>3, <1>4, <1>7, <4>1, SteadyStage DEF Active
    <3> QED BY <3>1, <3>3, <3>4 DEF Passes, Steady
  <2> QED BY <2>1, <2>2
<1> QED
  BY <1>9, <1>10, <1>13, <1>14, <1>15, <1>16, <1>17, <1>18, <1>19, <1>20
     DEF AckInv, MessageFramed, ServerFramed

\* A header received whole is that of a message, and its text comes next.
LEMMA HeadWhole ==
  ASSUME AckInv, last \notin crowded, main = "head", Succeeded(Main)
  PROVE  /\ io[Main].got # <<>>
         /\ \E n \in Lengths : io[Main].got = Header(n) /\ Upto(<<>>, Item("text", n))
<1> DEFINE got == io[Main].got
<1>1. io[Main].rc = 0 /\ io[Main].want = 0 /\ got \in Seq(Unit) /\ Len(got) \in Nat
  BY Threads, LenProperties DEF Succeeded, Returned, AckInv, TypeOK, StreamTypeOK
<1>2. 0 = 2 - Len(got)
  BY <1>1 DEF AckInv, Calls
<1>3. Len(got) = 2
  BY <1>1, <1>2
<1>4. got # <<>>
  BY <1>3, EmptySeq, SMTT(30)
<1>5. PICK n \in Lengths : Upto(got, Message(n))
  BY <1>1, <1>4 DEF AckInv, MessageFramed, ServerFramed, HeadFramed, Between
<1> DEFINE head == Header(n)
           text == Item("text", n)
           w == wire[fd]["client"]
<1>6. /\ head \in Seq(Unit) /\ Len(head) = 2 /\ text \in Seq(Unit)
      /\ Message(n) = head \o text
  BY AckAssumption, Messages
<1>7. CASE fd = 0
  <2>1. PICK more \in Seq(Unit) : got \o more = Message(n)
    BY <1>5, <1>7 DEF Upto
  <2> HIDE DEF got, head, text
  <2>2. got = head /\ more = text
    BY <1>1, <1>3, <1>6, <2>1, SameSplit
  <2>3. <<>> \o text = text
    BY <1>6, ConcatEmptySeq
  <2>4. got = Header(n) /\ Upto(<<>>, Item("text", n))
    BY <1>6, <1>7, <2>2, <2>3 DEF Upto, head, text
  <2> QED BY <1>4, <2>4 DEF got
<1>8. CASE fd # 0
  <2>1. PICK more \in Seq(Unit) : /\ (got \o w) \o more = Message(n)
                                  /\ Alive(fd) => more = io[Client(fd)].out
    BY <1>5, <1>8 DEF Upto, Comes
  <2>2. w \in Seq(Unit)
    BY <1>8, Sides DEF AckInv, TypeOK, StreamTypeOK
  <2> HIDE DEF got, head, text, w
  <2>3. w \o more \in Seq(Unit) /\ got \o (w \o more) = Message(n)
    <3>1. got \in Seq(Unit) /\ w \in Seq(Unit) /\ more \in Seq(Unit)
      BY <1>1, <2>2
    <3>2. Cat(Cat(got, w), more) = Cat(got, Cat(w, more))
      BY ONLY <3>1, Assoc
    <3> QED BY <2>1, <2>2, <3>2, Concat, Zenon DEF Cat
  <2>4. got = head /\ w \o more = text
    BY <1>1, <1>3, <1>6, <2>3, SameSplit
  <2>5. (<<>> \o w) \o more = text
    BY <2>2, <2>4, ConcatEmptySeq
  <2>6. got = Header(n) /\ Upto(<<>>, Item("text", n))
    BY <1>8, <2>1, <2>4, <2>5 DEF Upto, Comes, head, text, w
  <2> QED BY <1>4, <2>6 DEF got
<1> QED BY <1>7, <1>8

LEMMA KeepsHeadReceived ==
  ASSUME AckInv, HeadReceived
  PROVE  AckInv' /\ Steady(Conn)
<1>1. /\ main = "head" /\ Succeeded(Main) /\ main' \in {"body", "close"}
      /\ UNCHANGED <<wire, open, reset, client, fd, flag, sender, last, crowded>>
  BY DEF HeadReceived, acceptVars
<1>2. /\ StreamTypeOK(Thread, Unit) /\ (fd # 0 => fd \in Conn)
      /\ io[Main].rc = 0 /\ io[Main].want = 0 /\ io[Main].got \in Seq(Unit)
  BY <1>1, Threads DEF Succeeded, Returned, AckInv, TypeOK, StreamTypeOK
<1>3. io[Main].got[2][2] \in Nat
  <2>1. Len(io[Main].got) \in Nat /\ 0 = 2 - Len(io[Main].got)
    BY <1>1, <1>2, LenProperties DEF AckInv, Calls
  <2>2. io[Main].got[2] \in Unit
    BY <1>2, <2>1
  <2> QED BY <2>2 DEF Unit
<1>4. \/ main' = "body" /\ BeginRecv(Main, io[Main].got[2][2])
      \/ main' = "close" /\ io' = io
  BY DEF HeadReceived
<1>5. /\ io' \in [Thread -> Call] /\ Only(Main) /\ io'[Main].rc = 0 /\ io'[Main].out = <<>>
      /\ main' = "close" => io'[Main].want = 0
  BY <1>2, <1>3, <1>4, BeginsRecv, Threads DEF AckInv, Calls, StreamTypeOK, Call, Only
<1>6. \A c \in Conn : io'[Client(c)] = io[Client(c)] /\ io'[Sender(c)] = io[Sender(c)]
  BY <1>5, Threads DEF Only
<1>7. \A c \in Conn : Alive(c)' <=> Alive(c)
  BY <1>1 DEF Alive
<1>8. TypeOK'
  BY <1>1, <1>5 DEF AckInv, TypeOK, StreamTypeOK, Call
<1>9. Calls'
  <2>1. \A p \in Thread : io'[p].rc = -1 => Returned(p)'
    BY <1>5 DEF AckInv, Calls, Returned, Only
  <2> QED BY <1>1, <1>5, <1>6, <2>1 DEF AckInv, Calls
<1>10. Accepting'
  BY <1>1, <1>7 DEF AckInv, Serving, Accepting
<1> SUFFICES ASSUME last \notin crowded PROVE AckInv' /\ Steady(Conn)
  BY <1>1, <1>6, <1>8, <1>9, <1>10, Elsewhere
<1>11. PICK n \in Lengths : io[Main].got = Header(n) /\ Upto(<<>>, Item("text", n))
  BY <1>1, HeadWhole
<1>12. n \in Nat /\ Header(n)[1] = Header(0)[1] /\ Header(n)[2][2] = n
  BY AckAssumption, Messages
<1>13. main' = "body" /\ BeginRecv(Main, n)
  BY <1>11, <1>12 DEF HeadReceived
<1>14. io'[Main].want = n /\ io'[Main].got = <<>>
  BY <1>2, <1>12, <1>13, BeginsRecv, Threads
<1>15. Connected'
  BY <1>1, <1>5, <1>6, <1>7, <1>13 DEF AckInv, Connected, Link
<1>16. Serving'
  BY <1>1, <1>10, <1>13 DEF AckInv, Serving, Alone, Active
<1>17. Offered'
  BY <1>1, <1>6, <1>7, StillOffered DEF AckInv, MessageFramed
<1>18. BodyFramed'
  <2>1. Upto(io[Main].got, Item("text", n))'
    BY <1>1, <1>2, <1>6, <1>7, <1>11, <1>14 DEF Upto, Comes
  <2>2. n = n - Len(<<>>)
    BY <1>12, EmptySeq
  <2> QED BY <1>14, <2>1, <2>2 DEF BodyFramed
<1>19. ServerFramed'
  BY <1>13, <1>18 DEF ServerFramed, HeadFramed
<1>20. Hearing'
  BY <1>1, <1>6, StillHearing DEF AckInv
<1>21. ~Between /\ ~Between'
  BY <1>1, <1>13, HeadWhole DEF Between
<1>22. Replying'
  BY <1>1, <1>6, <1>7, <1>21 DEF AckInv, Replying, Replies, Silent
<1>23. Steady(Conn)
  BY <1>1, <1>13, <1>6, <1>21, SteadyStage DEF AckInv, TypeOK, Steady
<1> QED
  BY <1>8, <1>9, <1>15, <1>16, <1>17, <1>19, <1>20, <1>22, <1>23 DEF AckInv, MessageFramed

LEMMA KeepsRequestAck ==
  ASSUME AckInv, RequestAck
  PROVE  AckInv' /\ (Steady(Conn) \/ \E c \in Conn : Passes(c, "serve", "answer"))
<1>1. /\ main = "flag" /\ main' = "head" /\ flag' = 1 /\ BeginRecv(Main, 2)
      /\ UNCHANGED <<wire, open, reset, client, fd, sender, last, crowded>>
  BY DEF RequestAck, acceptVars
<1>2. StreamTypeOK(Thread, Unit) /\ (fd # 0 => fd \in Conn)
  BY DEF AckInv, TypeOK
<1>3. /\ io' \in [Thread -> Call] /\ Only(Main)
      /\ io'[Main].rc = 0 /\ io'[Main].out = <<>> /\ io'[Main].want = 2 /\ io'[Main].got = <<>>
  BY <1>1, <1>2, BeginsRecv, Threads
<1>4. \A c \in Conn : io'[Client(c)] = io[Client(c)] /\ io'[Sender(c)] = io[Sender(c)]
  BY <1>3, Threads DEF Only
<1>5. \A c \in Conn : Alive(c)' <=> Alive(c)
  BY <1>1 DEF Alive
<1>6. TypeOK'
  BY <1>1, <1>3 DEF AckInv, TypeOK, StreamTypeOK, Call
<1>7. Calls'
  <2>1. \A p \in Thread : io'[p].rc = -1 => Returned(p)'
    BY <1>3 DEF AckInv, Calls, Returned, Only
  <2> QED BY <1>1, <1>3, <1>4, <2>1, EmptySeq DEF AckInv, Calls
<1>8. Accepting'
  BY <1>1, <1>5 DEF AckInv, Serving, Accepting, Alive
<1> SUFFICES
      ASSUME last \notin crowded
      PROVE  AckInv' /\ (Steady(Conn) \/ \E c \in Conn : Passes(c, "serve", "answer"))
  BY <1>8, <1>1, <1>4, <1>6, <1>7, Elsewhere
<1>9. Connected'
  BY <1>1, <1>3, <1>4, <1>5 DEF AckInv, Connected, Link
<1>10. Serving'
  BY <1>8, <1>1 DEF AckInv, Serving, Alone, Active
<1>11. Offered'
  BY <1>1, <1>4, <1>5, StillOffered DEF AckInv, MessageFramed, ServerFramed
<1>12. Between'
  <2>1. Drained
    BY <1>1 DEF AckInv, MessageFramed, ServerFramed
  <2>2. Drained'
    BY <1>1, <1>2, <1>4, <1>5, <2>1 DEF Drained
  <2> QED BY <1>1, <1>3, <2>2 DEF Between
<1>13. ServerFramed'
  BY <1>1, <1>12 DEF ServerFramed, HeadFramed, BodyFramed
<1>14. Hearing'
  BY <1>1, <1>4, StillHearing DEF AckInv
<1>15. Replying'
  <2>1. \A c \in Conn : Alive(c) => Silent(c) /\ sender[c] # "gone" /\ sender[c] # "clear"
    BY <1>1 DEF AckInv, Replying, Replies, Between, Connected, Link
  <2>2. \A c \in Conn : Active(c) \/ sender[c] \in {"none", "gone"}
    BY DEF Active, AckInv, TypeOK
  <2>3. \A c \in Conn : Active(c)' <=> Active(c)
    BY <1>1 DEF Active
  <2>4. \A c \in Conn : Silent(c) => Silent(c)'
    BY <1>1, <1>4 DEF Silent
  <2> QED BY <1>1, <1>5, <1>12, <2>1, <2>2, <2>3, <2>4 DEF Replying, Replies
<1>16. Steady(Conn) \/ \E c \in Conn : Passes(c, "serve", "answer")
  <2>1. ~Between
    BY <1>1 DEF Between
  <2>2. \A d \in Conn : Active(d)' <=> Active(d)
    BY <1>1 DEF Active
  <2>3. ASSUME NEW d \in Conn, ~(Alive(d) /\ Active(d))
        PROVE  Stage(d)' = Stage(d)
    BY <1>1, <1>4, <2>1, <2>2, <2>3, SteadyStage DEF AckInv, TypeOK
  <2>4. CASE \A c \in Conn : ~(Alive(c) /\ Active(c))
    BY <2>3, <2>4 DEF Steady
  <2>5. ASSUME NEW c \in Conn, Alive(c), Active(c)
        PROVE  Passes(c, "serve", "answer")
    <3>1. fd = c
      BY <2>5 DEF AckInv, Connected, Link, Active
    <3>2. io[Client(c)].out = <<>>
      BY <1>1, <2>5, <3>1, AckAssumption DEF AckInv, MessageFramed, ServerFramed, Drained
    <3>3. Stage(c) = "serve"
      BY <1>1, <2>1, <2>5, <3>2 DEF Stage, Alive
    <3>4. Alive(c)' /\ Active(c)'
      BY <1>5, <2>2, <2>5
    <3>5. Stage(c)' = "answer"
      BY <1>1, <1>12, <3>4 DEF Stage, Alive
    <3>6. \A d \in Conn \ {c} : ~Active(d)
      BY <2>5 DEF AckInv, Serving, Accepting, Alone
    <3> QED BY <2>3, <3>3, <3>5, <3>6 DEF Passes, Steady
  <2> QED BY <2>4, <2>5
<1> QED
  BY <1>6, <1>7, <1>9, <1>10, <1>11, <1>13, <1>14, <1>15, <1>16
     DEF AckInv, MessageFramed, ServerFramed

LEMMA KeepsTakeFlag ==
  ASSUME AckInv, NEW c \in Conn, TakeFlag(c)
  PROVE  AckInv' /\ Steady(Conn)
<1>1. /\ sender[c] = "clear" /\ flag' = 0 /\ BeginSend(Sender(c), Ack)
      /\ sender' = [sender EXCEPT ![c] = "send"]
      /\ UNCHANGED <<wire, open, reset, client, main, fd, last, crowded>>
  BY DEF TakeFlag, acceptVars
<1>2. /\ StreamTypeOK(Thread, Unit) /\ (fd # 0 => fd \in Conn)
      /\ sender \in [Conn -> {"none", "get", "clear", "send", "gone"}]
  BY DEF AckInv, TypeOK
<1>3. \A d \in Conn : sender'[d] = IF d = c THEN "send" ELSE sender[d]
  BY <1>1, <1>2
<1>4. Ack \in Seq(Unit) /\ (<<>> \o <<>>) \o Ack = Ack
  BY Messages, EmptySeq, ConcatEmptySeq
<1>5. /\ io' \in [Thread -> Call] /\ Only(Sender(c))
      /\ io'[Sender(c)].rc = 0 /\ io'[Sender(c)].out = Ack /\ io'[Sender(c)].want = 0
      /\ io'[Sender(c)].got = <<>>
  BY <1>1, <1>2, <1>4, BeginsSend, Threads
<1>6. /\ \A d \in Conn \ {c} : io'[Sender(d)] = io[Sender(d)]
      /\ \A d \in Conn : io'[Client(d)] = io[Client(d)]
      /\ io'[Main] = io[Main]
  BY <1>5, Threads DEF Only
<1>7. \A d \in Conn : (Alive(d)' <=> Alive(d)) /\ (Active(d)' <=> Active(d))
  BY <1>1, <1>3 DEF Alive, Active
<1>8. TypeOK'
  BY <1>1, <1>2, <1>5 DEF AckInv, TypeOK, StreamTypeOK, Call
<1>9. Calls'
  <2>1. \A p \in Thread : io'[p].rc = -1 => Returned(p)'
    BY <1>5 DEF AckInv, Calls, Returned, Only
  <2> QED BY <1>1, <1>3, <1>5, <1>6, <2>1 DEF AckInv, Calls
<1>10. Accepting'
  BY <1>1, <1>3, <1>7 DEF AckInv, Serving, Accepting, Alive
<1> SUFFICES ASSUME last \notin crowded PROVE AckInv' /\ Steady(Conn)
  BY <1>10, <1>1, <1>3, <1>6, <1>8, <1>9, Elsewhere
<1>11. Connected'
  BY <1>1, <1>3, <1>5, <1>6, <1>7 DEF AckInv, Connected, Link
<1>12. Serving'
  BY <1>10, <1>1, <1>2, <1>3, <1>7 DEF AckInv, Serving, Alone
<1>13. Offered'
  BY <1>1, <1>3, <1>6, <1>7, StillOffered DEF AckInv, MessageFramed, ServerFramed
<1>14. ServerFramed'
  BY <1>1, <1>2, <1>6, <1>7
    
        DEF AckInv, MessageFramed, ServerFramed, HeadFramed, BodyFramed, Between,
            Drained, Upto, Comes
<1>15. Hearing'
  BY <1>1, <1>6, StillHearing DEF AckInv
<1>16. Replying'
  <2>1. Between' <=> Between
    BY <1>1, <1>2, <1>6, <1>7 DEF Between, Drained
  <2> SUFFICES ASSUME NEW d \in Conn, Alive(d)
               PROVE  \/ /\ Silent(d)' /\ ~(Active(d) /\ Between)'
                         /\ sender'[d] # "none" => flag' = 0 /\ sender'[d] # "clear"
                      \/ /\ Active(d)' /\ Between' /\ flag' = 0 /\ sender'[d] # "clear"
                         /\ (io'[Client(d)].got \o wire'[d]["server"]) \o io'[Sender(d)].out = Ack
    BY <1>7 DEF Replying, Replies
  <2>2. CASE d = c
    <3>1. Silent(c) /\ Active(c) /\ Between
      BY <1>1, <2>2 DEF AckInv, Replying, Replies
    <3>2. (io'[Client(c)].got \o wire'[c]["server"]) \o io'[Sender(c)].out = Ack
      BY <1>1, <1>4, <1>5, <1>6, <3>1 DEF Silent
    <3> QED BY <1>1, <1>3, <1>7, <2>1, <2>2, <3>1, <3>2
  <2>3. CASE d # c
    <3>1. ~Active(d)
      BY <1>1, <2>3 DEF AckInv, Serving, Accepting, Alone, Active
    <3>2. Silent(d) /\ (sender[d] # "none" => sender[d] # "clear")
      BY <3>1 DEF AckInv, Replying, Replies
    <3> QED BY <1>1, <1>3, <1>6, <1>7, <2>3, <3>1, <3>2 DEF Silent
  <2> QED BY <2>2, <2>3
<1>17. Steady(Conn)
  <2>1. Between' <=> Between
    BY <1>1, <1>2, <1>6, <1>7 DEF Between, Drained
  <2> QED BY <1>1, <1>6, <1>7, <2>1, SteadyStage DEF AckInv, TypeOK, Steady
<1> QED
  BY <1>8, <1>9, <1>11, <1>12, <1>13, <1>14, <1>15, <1>16, <1>17
     DEF AckInv, MessageFramed, ServerFramed

\* A call fails only when the client is gone, or the server.
LEMMA KeepsFail ==
  ASSUME AckInv, NEW p \in Thread, Fail(p),
         UNCHANGED <<client, main, fd, flag, sender, last, crowded>>,
         \A c \in Conn : p = Client(c) \/ p = Sender(c) \/ (p = Main /\ fd = c) => ~Alive(c)
  PROVE  AckInv' /\ Steady(Conn)
<1>1. StreamTypeOK(Thread, Unit) /\ (fd # 0 => fd \in Conn)
  BY DEF AckInv, TypeOK
<1>2. /\ StreamTypeOK(Thread, Unit)' /\ UNCHANGED <<wire, open, reset>> /\ Only(p)
      /\ io'[p].rc = -1 /\ io'[p].out = <<>> /\ io'[p].want = 0 /\ io'[p].got = <<>>
      /\ ~Returned(p)
  BY <1>1, FailsCall
<1>3. \A q \in Thread : io'[q] = io[q] \/ q = p
  BY <1>2 DEF Only
<1>4. \A c \in Conn : (Alive(c)' <=> Alive(c)) /\ (Active(c)' <=> Active(c))
  BY DEF Alive, Active
<1>5. \A c \in Conn : Alive(c) =>
         /\ io'[Client(c)] = io[Client(c)] /\ io'[Sender(c)] = io[Sender(c)]
         /\ fd = c => io'[Main] = io[Main]
  BY <1>3, Threads
<1>6. TypeOK'
  BY <1>2 DEF AckInv, TypeOK
<1>7. Calls'
  <2>1. /\ \A q \in Thread : io'[q].rc = -1 => Returned(q)'
        /\ io'[Main].out = <<>>
        /\ main \notin {"head", "body"} => io'[Main].want = 0
        /\ main = "head" /\ io'[Main].rc = 0 => io'[Main].want = 2 - Len(io'[Main].got)
    BY <1>2, <1>3, Threads DEF AckInv, Calls, Returned
  <2>2. ASSUME NEW c \in Conn
        PROVE  /\ io'[Sender(c)].want = 0
               /\ sender[c] # "send" => io'[Sender(c)].out = <<>>
               /\ sender[c] = "none" => io'[Sender(c)].rc = 0
    BY <1>2, <1>3, Threads DEF AckInv, Calls, Returned
  <2>3. ASSUME NEW c \in Conn
        PROVE  /\ client[c] # "send" => io'[Client(c)].out = <<>>
               /\ client[c] # "recv" => io'[Client(c)].want = 0 /\ io'[Client(c)].got = <<>>
    BY <1>2, <1>3, Threads DEF AckInv, Calls
  <2> QED BY <2>1, <2>2, <2>3 DEF Calls
<1>8. Connected'
  BY <1>2, <1>4, <1>5 DEF AckInv, Connected, Link
<1>9. Serving'
  BY <1>4 DEF AckInv, Serving, Accepting, Alone, Active
<1>10. Offered'
  BY <1>2, <1>4, <1>5, StillOffered DEF AckInv, MessageFramed, ServerFramed
<1>11. io'[Main].rc = 0 => io'[Main] = io[Main]
  BY <1>2, <1>3, Threads
<1>12. Drained => Drained'
  BY <1>1, <1>2, <1>4, <1>5 DEF Drained
<1>13. ASSUME last \notin crowded
       PROVE  ServerFramed'
  <2>1. ASSUME NEW m, Upto(io[Main].got, m), io'[Main].rc = 0
        PROVE  Upto(io[Main].got, m)'
    BY <1>1, <1>2, <1>4, <1>5, <1>11, <2>1 DEF Upto, Comes
  <2>2. Between /\ io'[Main].rc = 0 => Between'
    BY <1>11, <1>12 DEF Between
  <2>3. HeadFramed'
    BY <1>11, <1>13, <2>1, <2>2 DEF AckInv, MessageFramed, ServerFramed, HeadFramed
  <2>4. BodyFramed'
    BY <1>11, <1>13, <2>1 DEF AckInv, MessageFramed, ServerFramed, BodyFramed
  <2> QED BY <1>12, <1>13, <2>3, <2>4 DEF AckInv, MessageFramed, ServerFramed
<1>14. Hearing'
  <2>1. \A c \in Conn : io'[Client(c)].rc = 0 => io'[Client(c)] = io[Client(c)]
    BY <1>2, <1>3, Threads
  <2> QED BY <1>2, <2>1, StillHearing DEF AckInv
<1>15. ASSUME NEW c \in Conn, Alive(c), Active(c)
       PROVE  Between' <=> Between
  <2>1. fd = c
    BY <1>15 DEF AckInv, Connected, Link, Active
  <2> QED BY <1>1, <1>2, <1>4, <1>5, <1>15, <2>1 DEF Between, Drained
<1>16. Replying'
  <2>1. \A c \in Conn : Alive(c) => (Silent(c)' <=> Silent(c))
    BY <1>2, <1>5 DEF Silent
  <2> QED BY <1>2, <1>4, <1>5, <1>15, <2>1 DEF AckInv, Replying, Replies
<1>17. Steady(Conn)
  BY <1>4, <1>5, <1>15, SteadyStage DEF AckInv, TypeOK, Steady
<1> QED
  BY <1>6, <1>7, <1>8, <1>9, <1>10, <1>13, <1>14, <1>16, <1>17
     DEF AckInv, MessageFramed, ServerFramed

\* The calls of a connection whose client and server run do not fail.
LEMMA NeverFails ==
  ASSUME AckInv, NEW p \in Thread, NEW c \in Conn, NEW s \in Side,
         SendFails(p, c, s) \/ RecvFails(p, c, s)
  PROVE  Fail(p) /\ ~Alive(c)
  BY Sides DEF SendFails, RecvFails, AckInv, Connected, Link

LEMMA KeepsClientFails ==
  ASSUME AckInv, NEW c \in Conn,
         SendFails(Client(c), c, "client") \/ RecvFails(Client(c), c, "client"),
         UNCHANGED <<client, main, fd, flag, sender, last, crowded>>
  PROVE  AckInv' /\ Steady(Conn)
<1>1. Fail(Client(c)) /\ ~Alive(c) /\ Client(c) \in Thread
  BY NeverFails, Threads, Sides
<1>2. \A d \in Conn : Client(c) = Client(d) \/ Client(c) = Sender(d)
                        \/ (Client(c) = Main /\ fd = d) => ~Alive(d)
  BY <1>1, Threads
<1> QED BY <1>1, <1>2, KeepsFail

LEMMA KeepsServerFails ==
  ASSUME AckInv, NEW p \in {Main} \union {Sender(c) : c \in Conn},
         IF fd = 0 THEN Fail(p) ELSE SendFails(p, fd, "server") \/ RecvFails(p, fd, "server"),
         UNCHANGED <<client, main, fd, flag, sender, last, crowded>>
  PROVE  AckInv' /\ Steady(Conn)
<1>1. fd # 0 => fd \in Conn
  BY DEF AckInv, TypeOK
<1>2. p \in Thread
  BY Threads
<1>3. Fail(p) /\ (fd # 0 => ~Alive(fd))
  BY <1>1, <1>2, NeverFails, Sides
<1>4. ASSUME NEW d \in Conn, p = Client(d) \/ p = Sender(d) \/ (p = Main /\ fd = d)
      PROVE  ~Alive(d)
  <2>1. CASE p = Main
    BY <1>3, <1>4, <2>1, Threads, AckAssumption
  <2>2. CASE p # Main
    <3>1. p = Sender(d)
      BY <1>4, <2>2, Threads
    <3>2. sender[d] # "none"
      <4>1. io[p].out # <<>> \/ io[p].want # 0
        BY <1>3 DEF Fail, Returned
      <4> QED BY <3>1, <4>1 DEF AckInv, Calls
    <3> QED BY <1>3, <3>2, AckAssumption DEF AckInv, Connected, Link
  <2> QED BY <2>1, <2>2
<1> QED BY <1>2, <1>3, <1>4, KeepsFail
-------------------------------------------------------------------------------
(* The steps that open and close connections. *)

LEMMA KeepsConnect ==
  ASSUME AckInv, NEW c \in Conn, Connect(c)
  PROVE  AckInv' /\ Steady(Conn)
<1>1. PICK n \in Lengths : BeginSend(Client(c), Message(n))
  BY DEF Connect, acceptVars
<1>2. /\ client[c] = "off" /\ main # "dead" /\ client' = [client EXCEPT ![c] = "send"]
      /\ open' = [open EXCEPT ![c] = [s \in Side |-> TRUE]]
      /\ UNCHANGED <<wire, reset, main, fd, flag, sender, last, crowded>>
  BY DEF Connect, Establish, acceptVars
<1>3. /\ client \in [Conn -> {"off", "send", "recv", "gone"}]
      /\ open \in [Conn -> [Side -> BOOLEAN]]
      /\ StreamTypeOK(Thread, Unit) /\ (fd # 0 => fd \in Conn)
  BY DEF AckInv, TypeOK, StreamTypeOK
<1>4. \A d \in Conn : client'[d] = IF d = c THEN "send" ELSE client[d]
  BY <1>2, <1>3
<1>5. /\ open'[c]["client"] /\ open'[c]["server"]
      /\ \A d \in Conn \ {c} : open'[d] = open[d]
  BY <1>2, <1>3, Sides
<1>6. Message(n) \in Seq(Unit)
  BY AckAssumption, Messages
<1>7. /\ io' \in [Thread -> Call] /\ Only(Client(c))
      /\ io'[Client(c)].rc = 0 /\ io'[Client(c)].out = Message(n) /\ io'[Client(c)].want = 0
      /\ io'[Client(c)].got = <<>>
  BY <1>1, <1>3, <1>6, BeginsSend, Threads
<1>8. /\ \A d \in Conn \ {c} : io'[Client(d)] = io[Client(d)]
      /\ \A d \in Conn : io'[Sender(d)] = io[Sender(d)]
      /\ io'[Main] = io[Main]
  BY <1>7, Threads DEF Only
<1>9. /\ ~open[c]["server"] /\ wire[c]["client"] = <<>> /\ wire[c]["server"] = <<>>
      /\ c \notin reset /\ c \notin crowded /\ sender[c] = "none" /\ fd # c
      /\ io[Sender(c)].rc = 0 /\ io[Sender(c)].out = <<>>
  BY <1>2, Sides DEF AckInv, Connected, Link, Calls, Serving, Accepting
<1>10. \A d \in Conn : Active(d)' <=> Active(d)
  BY <1>2 DEF Active
<1>11. \A d \in Conn \ {c} : Alive(d)' <=> Alive(d)
  BY <1>2, <1>4 DEF Alive
<1>12. TypeOK'
  <2>1. open' \in [Conn -> [Side -> BOOLEAN]]
    BY <1>2, <1>3
  <2> QED BY <1>2, <1>3, <1>7, <2>1 DEF AckInv, TypeOK, StreamTypeOK, Call
<1>13. Calls'
  <2>1. \A p \in Thread : io'[p].rc = -1 => Returned(p)'
    BY <1>7 DEF AckInv, Calls, Returned, Only
  <2> QED BY <1>2, <1>4, <1>7, <1>8, <2>1 DEF AckInv, Calls
<1>14. Connected'
  <2> SUFFICES ASSUME NEW d \in Conn
               PROVE  Link(d)'
    BY DEF Connected
  <2>1. CASE d = c
    BY <1>2, <1>4, <1>5, <1>7, <1>8, <1>9, <2>1 DEF Link
  <2>2. CASE d # c
    BY <1>2, <1>4, <1>5, <1>8, <1>11, <2>2 DEF AckInv, Connected, Link
  <2> QED BY <2>1, <2>2
<1>15. Serving'
  <2>1. Accepting'
    BY <1>2, <1>4, <1>9, <1>11 DEF AckInv, Serving, Accepting
  <2> QED BY <1>2, <2>1 DEF AckInv, Serving, Alone, Active
<1>16. Offered'
  <2> SUFFICES ASSUME NEW d \in Conn \ crowded', open'[d]["server"], sender'[d] = "none"
               PROVE  \E m \in Lengths : Comes(d, <<>>, Message(m))'
    BY DEF Offered
  <2>1. CASE d = c
    <3>1. (<<>> \o <<>>) \o Message(n) = Message(n)
      BY <1>6, EmptySeq, ConcatEmptySeq
    <3>2. Comes(c, <<>>, Message(n))'
      BY <1>2, <1>6, <1>7, <1>9, <3>1 DEF Comes
    <3> QED BY <2>1, <3>2
  <2>2. CASE d # c
    <3>1. PICK m \in Lengths : Comes(d, <<>>, Message(m))
      BY <1>2, <1>5, <2>2 DEF AckInv, MessageFramed, ServerFramed, Offered
    <3>2. Comes(d, <<>>, Message(m))'
      BY <1>2, <1>8, <1>11, <2>2, <3>1 DEF Comes
    <3> QED BY <3>2
  <2> QED BY <2>1, <2>2
<1>17. ASSUME last \notin crowded
       PROVE  ServerFramed'
  BY <1>2, <1>3, <1>8, <1>9, <1>11, <1>17, ZenonT(60)
    
        DEF AckInv, MessageFramed, ServerFramed, HeadFramed, BodyFramed, Between,
            Drained, Upto, Comes
<1>18. Hearing'
  <2> SUFFICES ASSUME NEW d \in Conn \ crowded'
               PROVE  Hears(d)'
    BY DEF Hearing
  <2>1. CASE d = c
    <3>1. Ack \in Seq(Unit) /\ (<<>> \o <<>>) \o Ack = Ack
      BY Messages, EmptySeq, ConcatEmptySeq
    <3>2. (io'[Client(c)].got \o wire'[c]["server"]) \o Ack = Ack
      BY <1>2, <1>7, <1>9, <3>1
    <3> QED BY <1>4, <2>1, <3>1, <3>2 DEF Hears
  <2>2. CASE d # c
    BY <1>2, <1>4, <1>8, <2>2, ZenonT(60) DEF AckInv, Hearing, Hears
  <2> QED BY <2>1, <2>2
<1>19. Replying'
  <2>1. Between' <=> Between
    BY <1>2, <1>3, <1>8, <1>9, <1>11 DEF Between, Drained
  <2>2. Silent(c)' /\ ~Active(c)'
    BY <1>2, <1>7, <1>8, <1>9, <1>10 DEF Silent, Active
  <2>3. \A d \in Conn \ {c} : Silent(d)' <=> Silent(d)
    BY <1>2, <1>8 DEF Silent
  <2> QED BY <1>2, <1>8, <1>9, <1>10, <1>11, <2>1, <2>2, <2>3 DEF AckInv, Replying, Replies
<1>20. Steady(Conn)
  <2>1. Between' <=> Between
    BY <1>2, <1>3, <1>8, <1>9, <1>11 DEF Between, Drained
  <2>2. Stage(c) = "ask"
    BY <1>2, <1>9 DEF Stage, Alive
  <2>3. Message(n) # <<>> /\ ~Active(c)' /\ Alive(c)'
    BY <1>2, <1>4, <1>9, AckAssumption, Messages DEF Active, Alive
  <2>4. Stage(c)' = "ask"
    BY <1>2, <1>4, <1>7, <2>3 DEF Stage
  <2>5. \A d \in Conn \ {c} : Stage(d)' = Stage(d)
    BY <1>2, <1>3, <1>4, <1>8, <1>10, <2>1, SteadyStage
  <2> QED BY <2>2, <2>4, <2>5 DEF Steady
<1> QED
  BY <1>2, <1>12, <1>13, <1>14, <1>15, <1>16, <1>17, <1>18, <1>19, <1>20
     DEF AckInv, MessageFramed, ServerFramed

LEMMA KeepsLeave ==
  ASSUME AckInv, NEW c \in Conn, Leave(c)
  PROVE  AckInv' /\ Stage(c)' = "closed" /\ Steady(Conn \ {c})
<1>1. /\ Close(c, "client") /\ io' = [io EXCEPT ![Client(c)] = NoCall]
      /\ client' = [client EXCEPT ![c] = "gone"]
      /\ UNCHANGED <<main, fd, flag, sender, last, crowded>>
  BY DEF Leave, acceptVars
<1>2. /\ client \in [Conn -> {"off", "send", "recv", "gone"}] /\ io \in [Thread -> Call]
      /\ StreamTypeOK(Thread, Unit) /\ (fd # 0 => fd \in Conn)
  BY DEF AckInv, TypeOK, StreamTypeOK, Call
<1>3. \A d \in Conn : client'[d] = IF d = c THEN "gone" ELSE client[d]
  BY <1>1, <1>2
<1>4. /\ wire' \in [Conn -> [Side -> Seq(Unit)]] /\ open' \in [Conn -> [Side -> BOOLEAN]]
      /\ reset' \subseteq Conn
      /\ Touch(c, "server") /\ wire'[c]["server"] = <<>>
      /\ \A d \in Conn, u \in Side : d # c \/ u # "client" => open'[d][u] = open[d][u]
      /\ ~open'[c]["client"]
      /\ \A d \in Conn : d # c => (d \in reset' <=> d \in reset)
  BY <1>1, <1>2, Closes, Sides
<1>5. /\ \A d \in Conn : wire'[d]["client"] = wire[d]["client"]
      /\ \A d \in Conn \ {c} : wire'[d]["server"] = wire[d]["server"]
  BY <1>4, Sides DEF Touch
<1>6. /\ io' \in [Thread -> Call] /\ io'[Client(c)] = NoCall
      /\ \A p \in Thread : p # Client(c) => io'[p] = io[p]
  BY <1>1, <1>2, NoCalls, Threads
<1>7. /\ \A d \in Conn \ {c} : io'[Client(d)] = io[Client(d)]
      /\ \A d \in Conn : io'[Sender(d)] = io[Sender(d)]
      /\ io'[Main] = io[Main]
  BY <1>6, Threads
<1>8. ~Alive(c)' /\ \A d \in Conn \ {c} : Alive(d)' <=> Alive(d)
  BY <1>1, <1>3 DEF Alive
<1>9. \A d \in Conn : Active(d)' <=> Active(d)
  BY <1>1 DEF Active
<1>10. TypeOK'
  BY <1>1, <1>2, <1>4, <1>6 DEF AckInv, TypeOK, StreamTypeOK, Call
<1>11. Calls'
  <2>1. \A p \in Thread : io'[p].rc = -1 => Returned(p)'
    BY <1>6, NoCalls DEF AckInv, Calls, Returned
  <2> QED BY <1>1, <1>3, <1>6, <1>7, <2>1, NoCalls DEF AckInv, Calls
<1>12. Stage(c)' = "closed"
  BY <1>3 DEF Stage, Alive
<1> SUFFICES ASSUME c \notin crowded PROVE AckInv' /\ Steady(Conn \ {c})
  <2>1. ASSUME NEW d \in Conn \ {c}, NEW u \in Side
        PROVE  wire'[d][u] = wire[d][u] /\ open'[d][u] = open[d][u]
    BY <1>4 DEF Touch
  <2>2. /\ UNCHANGED <<main, fd, flag, sender, last, crowded>>
        /\ client'[c] = "gone" /\ ~open'[c]["client"]
        /\ open'[c]["server"] = open[c]["server"] /\ io'[Main] = io[Main]
        /\ \A d \in Conn : io'[Sender(d)] = io[Sender(d)]
        /\ \A d \in Conn \ {c} :
             /\ client'[d] = client[d] /\ io'[Client(d)] = io[Client(d)]
             /\ \A s \in Side : wire'[d][s] = wire[d][s] /\ open'[d][s] = open[d][s]
             /\ d \in reset' <=> d \in reset
    BY <1>1, <1>3, <1>4, <1>7, <2>1, Sides
  <2>3. ASSUME c \in crowded
        PROVE  AckInv' /\ Steady(Conn)
    <3>1. AckInv /\ TypeOK' /\ Calls'
      BY <1>10, <1>11
    <3>2. client'[c] # "off"
      BY <2>2
    <3> QED BY ONLY <2>2, <2>3, <3>1, <3>2, Aside
  <2> QED BY <1>12, <2>3 DEF Steady
<1>13. Connected'
  <2>1. \A d \in Conn \ {c}, u \in Side : open'[d][u] = open[d][u] /\ wire'[d][u] = wire[d][u]
    BY <1>4 DEF Touch
  <2>2. open'[c]["server"] = open[c]["server"]
    BY <1>4, Sides
  <2> SUFFICES ASSUME NEW d \in Conn
               PROVE  Link(d)'
    BY DEF Connected
  <2>3. CASE d = c
    BY <1>1, <1>3, <1>4, <1>8, <2>2, <2>3 DEF AckInv, Connected, Link
  <2>4. CASE d # c
    <3>1. /\ open'[d]["client"] = open[d]["client"] /\ open'[d]["server"] = open[d]["server"]
          /\ d \in reset' <=> d \in reset
      BY <1>4, <2>1, <2>4, Sides
    <3> QED BY <1>1, <1>3, <1>7, <1>8, <2>1, <2>4, <3>1 DEF AckInv, Connected, Link
  <2> QED BY <2>3, <2>4
<1>14. Serving'
  <2>1. Accepting'
    BY <1>1, <1>3, <1>8 DEF AckInv, Serving, Accepting
  <2> QED BY <1>1, <2>1 DEF AckInv, Serving, Alone, Active
<1>15. Offered'
  <2>1. \A d \in Conn : open'[d]["server"] = open[d]["server"]
    BY <1>4, Sides
  <2> QED BY <1>1, <1>5, <1>7, <1>8, <2>1, StillOffered DEF AckInv, MessageFramed, ServerFramed
<1>16. Drained => Drained'
  BY <1>1, <1>2, <1>5, <1>7, <1>8 DEF Drained
<1>17. ASSUME last \notin crowded
       PROVE  ServerFramed'
  <2>1. ASSUME NEW m, Upto(io[Main].got, m)
        PROVE  Upto(io[Main].got, m)'
    BY <1>1, <1>2, <1>5, <1>7, <1>8, <2>1 DEF Upto, Comes
  <2>2. Between => Between'
    BY <1>1, <1>7, <1>16 DEF Between
  <2>3. HeadFramed'
    BY <1>1, <1>7, <1>17, <2>1, <2>2 DEF AckInv, MessageFramed, ServerFramed, HeadFramed
  <2>4. BodyFramed'
    BY <1>1, <1>7, <1>17, <2>1 DEF AckInv, MessageFramed, ServerFramed, BodyFramed
  <2> QED BY <1>1, <1>16, <1>17, <2>3, <2>4 DEF AckInv, MessageFramed, ServerFramed
<1>18. Hearing'
  BY <1>1, <1>3, <1>5, <1>7, StillHearing DEF AckInv
<1>19. ASSUME NEW d \in Conn \ {c}, Alive(d), Active(d)
       PROVE  Between' <=> Between
  <2>1. fd = d
    BY <1>19 DEF AckInv, Connected, Link, Active
  <2> QED BY <1>1, <1>2, <1>5, <1>7, <1>8, <1>19, <2>1 DEF Between, Drained
<1>20. Replying'
  <2>1. \A d \in Conn \ {c} : Silent(d)' <=> Silent(d)
    BY <1>5, <1>7 DEF Silent
  <2> QED BY <1>1, <1>5, <1>7, <1>8, <1>9, <1>19, <2>1 DEF AckInv, Replying, Replies
<1>21. Steady(Conn \ {c})
  BY <1>1, <1>2, <1>3, <1>7, <1>9, <1>19, SteadyStage DEF Steady
<1> QED
  BY <1>1, <1>10, <1>11, <1>13, <1>14, <1>15, <1>17, <1>18, <1>20, <1>21
     DEF AckInv, MessageFramed, ServerFramed

\* close() in the server, on a connection whose client is gone.
LEMMA ClosesDescriptor ==
  ASSUME AckInv, CloseDescriptor, fd # 0 => ~Alive(fd), io' = io, client' = client,
         \A d \in Conn : Alive(d)' => Alive(d)
  PROVE  /\ fd' = 0 /\ StreamTypeOK(Thread, Unit)'
         /\ \A d \in Conn : /\ wire'[d]["server"] = wire[d]["server"]
                            /\ open'[d]["client"] = open[d]["client"]
         /\ \A d \in Conn \ {fd} : /\ wire'[d]["client"] = wire[d]["client"]
                                   /\ open'[d]["server"] = open[d]["server"]
                                   /\ d \in reset' <=> d \in reset
         /\ fd # 0 => ~open'[fd]["server"]
<1>1. fd' = 0 /\ StreamTypeOK(Thread, Unit) /\ (fd # 0 => fd \in Conn)
  BY DEF CloseDescriptor, AckInv, TypeOK
<1>2. CASE fd = 0
  BY <1>1, <1>2, AckAssumption DEF CloseDescriptor, StreamTypeOK
<1>3. CASE fd # 0
  <2>1. Close(fd, "server")
    BY <1>3 DEF CloseDescriptor
  <2>2. /\ wire' \in [Conn -> [Side -> Seq(Unit)]] /\ open' \in [Conn -> [Side -> BOOLEAN]]
        /\ reset' \subseteq Conn
        /\ Touch(fd, "client") /\ wire'[fd]["client"] = <<>>
        /\ \A d \in Conn, u \in Side : d # fd \/ u # "server" => open'[d][u] = open[d][u]
        /\ ~open'[fd]["server"]
        /\ \A d \in Conn : d # fd => (d \in reset' <=> d \in reset)
    BY <1>1, <1>3, <2>1, Closes, Sides
  <2>3. StreamTypeOK(Thread, Unit)'
    BY <1>1, <2>2 DEF StreamTypeOK
  <2> QED BY <1>1, <2>2, <2>3, Sides DEF Touch
<1> QED BY <1>2, <1>3

\* What of a message was received stays so when the descriptor is closed.
LEMMA ClosedUpto ==
  ASSUME AckInv, fd' = 0, io'[Main] = io[Main], NEW message, Upto(io[Main].got, message)
  PROVE  Upto(io[Main].got, message)'
<1>1. io[Main].got \in Seq(Unit)
  BY Threads DEF AckInv, TypeOK, StreamTypeOK
<1>2. CASE fd = 0
  BY <1>2 DEF Upto
<1>3. CASE fd # 0
  <2>1. wire[fd]["client"] \in Seq(Unit)
    BY <1>3, Sides DEF AckInv, TypeOK, StreamTypeOK
  <2>2. PICK more \in Seq(Unit) : (io[Main].got \o wire[fd]["client"]) \o more = message
    BY <1>3 DEF Upto, Comes
  <2>3. /\ wire[fd]["client"] \o more \in Seq(Unit)
        /\ io[Main].got \o (wire[fd]["client"] \o more) = message
    <3> DEFINE got == io[Main].got
               w   == wire[fd]["client"]
    <3>1. got \in Seq(Unit) /\ w \in Seq(Unit) /\ more \in Seq(Unit)
      BY <1>1, <2>1
    <3> HIDE DEF got, w
    <3>2. Cat(Cat(got, w), more) = Cat(got, Cat(w, more))
      BY ONLY <3>1, Assoc
    <3>3. (got \o w) \o more = message
      BY <2>2, Zenon DEF got, w
    <3>4. w \o more \in Seq(Unit) /\ got \o (w \o more) = message
      BY <3>1, <3>2, <3>3, Concat, Zenon DEF Cat
    <3> QED BY <3>4, Zenon DEF got, w
  <2> QED BY <2>3 DEF Upto
<1> QED BY <1>2, <1>3

LEMMA KeepsCloseConnection ==
  ASSUME AckInv, CloseConnection
  PROVE  AckInv' /\ Steady(Conn)
<1>1. main = "close" /\ main' = "end" /\ CloseDescriptor
      /\ UNCHANGED <<io, client, flag, sender, last, crowded>>
  BY DEF CloseConnection, acceptVars
<1>2. (fd # 0 => ~Alive(fd) /\ fd \in Conn) /\ \A d \in Conn : Alive(d)' <=> Alive(d)
  BY <1>1 DEF AckInv, TypeOK, Connected, Link, Alive
<1>3. /\ fd' = 0 /\ StreamTypeOK(Thread, Unit)'
      /\ \A d \in Conn : /\ wire'[d]["server"] = wire[d]["server"]
                         /\ open'[d]["client"] = open[d]["client"]
      /\ \A d \in Conn \ {fd} : /\ wire'[d]["client"] = wire[d]["client"]
                                /\ open'[d]["server"] = open[d]["server"]
                                /\ d \in reset' <=> d \in reset
      /\ fd # 0 => ~open'[fd]["server"]
  BY <1>1, <1>2, ClosesDescriptor
<1>4. TypeOK'
  BY <1>1, <1>3 DEF AckInv, TypeOK
<1>5. Calls'
  BY <1>1 DEF AckInv, Calls, Returned
<1>6. Accepting'
  BY <1>1, <1>2, <1>3 DEF AckInv, Serving, Accepting, Alive
<1> SUFFICES ASSUME last \notin crowded PROVE AckInv' /\ Steady(Conn)
  <2>1. \A d \in Conn \ {last} : d # fd
    BY AckAssumption DEF AckInv, Serving, Accepting
  <2>2. \A d \in Conn : open'[d]["server"] => open[d]["server"]
    BY <1>2, <1>3, AckAssumption
  <2> QED BY <1>6, <1>1, <1>3, <1>4, <1>5, <2>1, <2>2, Sides, Elsewhere
<1>7. Connected'
  <2> SUFFICES ASSUME NEW d \in Conn
               PROVE  Link(d)'
    BY DEF Connected
  <2>1. CASE d = fd
    BY <1>1, <1>2, <1>3, <2>1, Sides, AckAssumption DEF AckInv, Connected, Link
  <2>2. CASE d # fd
    BY <1>1, <1>2, <1>3, <2>2, Sides, AckAssumption DEF AckInv, Connected, Link
  <2> QED BY <2>1, <2>2
<1>8. Serving'
  BY <1>6, <1>1, <1>3 DEF AckInv, Serving, Alone, Active
<1>9. Offered'
  <2>1. \A d \in Conn : open'[d]["server"] => /\ open[d]["server"]
                                               /\ wire'[d]["client"] = wire[d]["client"]
    BY <1>3, AckAssumption
  <2> QED BY <1>1, <1>2, <2>1, StillOffered DEF AckInv, MessageFramed, ServerFramed
<1>10. ServerFramed'
  BY <1>1 DEF ServerFramed, HeadFramed, BodyFramed
<1>11. Hearing'
  BY <1>1, <1>3, StillHearing DEF AckInv
<1>12. Replying'
  <2>1. ~Between /\ ~Between'
    BY <1>1 DEF Between
  <2> QED BY <1>1, <1>2, <1>3, <2>1 DEF AckInv, Replying, Replies, Silent, Active
<1>13. Steady(Conn)
  <2>1. ~Between /\ ~Between'
    BY <1>1 DEF Between
  <2> QED BY <1>1, <2>1, SteadyStage DEF AckInv, TypeOK, Steady
<1> QED
  BY <1>4, <1>5, <1>7, <1>8, <1>9, <1>10, <1>11, <1>12, <1>13
     DEF AckInv, MessageFramed, ServerFramed

LEMMA KeepsSendFailed ==
  ASSUME AckInv, NEW c \in Conn, SendFailed(c)
  PROVE  AckInv' /\ Steady(Conn)
<1>1. /\ sender[c] = "send" /\ io[Sender(c)].rc = -1 /\ CloseDescriptor
      /\ sender' = [sender EXCEPT ![c] = "gone"]
      /\ UNCHANGED <<io, client, main, flag, last, crowded>>
  BY DEF SendFailed, Failed, acceptVars
<1>2. sender \in [Conn -> {"none", "get", "clear", "send", "gone"}]
  BY DEF AckInv, TypeOK
<1>3. \A d \in Conn : sender'[d] = IF d = c THEN "gone" ELSE sender[d]
  BY <1>1, <1>2
<1>4. (fd # 0 => ~Alive(fd) /\ fd \in Conn) /\ ~Alive(c)
  <2>1. ~Alive(c)
    BY <1>1 DEF AckInv, Connected, Link
  <2>2. fd # 0 => fd = last /\ fd \in Conn
    BY DEF AckInv, TypeOK, Serving, Accepting
  <2>3. last \notin crowded => c = last
    BY <1>1 DEF AckInv, Serving, Alone, Active
  <2> QED BY <2>1, <2>2, <2>3 DEF Alive
<1>5. \A d \in Conn : Alive(d)' <=> Alive(d)
  BY <1>1 DEF Alive
<1>6. /\ fd' = 0 /\ StreamTypeOK(Thread, Unit)'
      /\ \A d \in Conn : /\ wire'[d]["server"] = wire[d]["server"]
                         /\ open'[d]["client"] = open[d]["client"]
      /\ \A d \in Conn \ {fd} : /\ wire'[d]["client"] = wire[d]["client"]
                                /\ open'[d]["server"] = open[d]["server"]
                                /\ d \in reset' <=> d \in reset
      /\ fd # 0 => ~open'[fd]["server"]
  BY <1>1, <1>4, <1>5, ClosesDescriptor
<1>7. TypeOK'
  BY <1>1, <1>2, <1>6 DEF AckInv, TypeOK
<1>8. Calls'
  <2>1. io[Sender(c)].out = <<>>
    BY <1>1, Threads DEF AckInv, Calls, Returned
  <2> QED BY <1>1, <1>3, <2>1 DEF AckInv, Calls, Returned
<1>9. Accepting'
  BY <1>1, <1>3, <1>5, <1>6 DEF AckInv, Serving, Accepting, Alive
<1> SUFFICES ASSUME last \notin crowded PROVE AckInv' /\ Steady(Conn)
  <2>1. \A d \in Conn \ {last} : d # fd
    BY AckAssumption DEF AckInv, Serving, Accepting
  <2>2. \A d \in Conn : open'[d]["server"] => open[d]["server"]
    BY <1>4, <1>6, AckAssumption
  <2> QED BY <1>9, <1>1, <1>3, <1>6, <1>7, <1>8, <2>1, <2>2, Sides, Elsewhere
<1>10. fd \in {0, c} /\ \A d \in Conn : Active(d) => d = c
  BY <1>1 DEF AckInv, Serving, Accepting, Alone, Active
<1>11. Connected'
  <2> SUFFICES ASSUME NEW d \in Conn
               PROVE  Link(d)'
    BY DEF Connected
  <2>1. CASE d = c
    BY <1>1, <1>3, <1>4, <1>10, <1>5, <1>6, <2>1, Sides, AckAssumption
       DEF AckInv, Connected, Link
  <2>2. CASE d # c
    BY <1>1, <1>3, <1>4, <1>10, <1>5, <1>6, <2>2, Sides, AckAssumption
       DEF AckInv, Connected, Link
  <2> QED BY <2>1, <2>2
<1>12. Serving'
  BY <1>9, <1>1, <1>3, <1>4, <1>10, <1>6 DEF AckInv, Serving, Alone, Active
<1>13. Offered'
  <2>1. \A d \in Conn : open'[d]["server"] => /\ open[d]["server"]
                                               /\ wire'[d]["client"] = wire[d]["client"]
    BY <1>6, AckAssumption
  <2>2. \A d \in Conn : sender'[d] = "none" => sender[d] = "none"
    BY <1>3
  <2> QED BY <1>1, <1>5, <2>1, <2>2, StillOffered DEF AckInv, MessageFramed, ServerFramed
<1>14. Drained'
  BY <1>6 DEF Drained
<1>15. ServerFramed'
  <2>1. Between => Between'
    BY <1>1, <1>14 DEF Between
  <2>2. \A m : Upto(io[Main].got, m) => Upto(io[Main].got, m)'
    BY <1>1, <1>6, ClosedUpto
  <2>3. HeadFramed'
    BY <1>1, <2>1, <2>2 DEF AckInv, MessageFramed, ServerFramed, HeadFramed
  <2>4. BodyFramed'
    BY <1>1, <2>2 DEF AckInv, MessageFramed, ServerFramed, BodyFramed
  <2> QED BY <1>1, <1>14, <2>3, <2>4 DEF ServerFramed
<1>16. Hearing'
  BY <1>1, <1>6, StillHearing DEF AckInv
<1>17. Replying'
  <2> SUFFICES ASSUME NEW d \in Conn, Alive(d)
               PROVE  /\ Silent(d)' /\ ~Active(d)'
                      /\ sender'[d] # "none" => flag' = 0 /\ sender'[d] # "clear"
    BY <1>5 DEF Replying, Replies
  <2>1. ~Active(d)
    BY <1>4, <1>10
  <2>2. Silent(d) /\ (sender[d] # "none" => flag = 0 /\ sender[d] # "clear")
    BY <2>1 DEF AckInv, Replying, Replies
  <2> QED BY <1>1, <1>3, <1>4, <1>10, <1>6, <2>1, <2>2 DEF Silent, Active
<1>18. Steady(Conn)
  <2>1. \A d \in Conn : Alive(d) => ~Active(d) /\ ~Active(d)'
    BY <1>3, <1>4, <1>10 DEF Active
  <2> QED BY <1>1, <2>1, SteadyStage DEF AckInv, TypeOK, Steady
<1> QED
  BY <1>7, <1>8, <1>11, <1>12, <1>13, <1>14, <1>15, <1>16, <1>17, <1>18
     DEF AckInv, MessageFramed, ServerFramed

LEMMA KeepsCrash ==
  ASSUME AckInv, Crash
  PROVE  AckInv' /\ \A c \in Conn : Stage(c)' = "closed"
<1>1. /\ main' = "dead" /\ sender' = [c \in Conn |-> "gone"] /\ fd' = 0
      /\ open' = [c \in Conn |-> [open[c] EXCEPT !["server"] = FALSE]]
      /\ reset' = reset \union {c \in Conn : open[c]["server"] /\ wire[c]["client"] # <<>>}
      /\ wire' = [c \in Conn |-> [wire[c] EXCEPT !["client"] = <<>>]]
      /\ io' = [p \in Thread |-> IF p[1] = "client" THEN io[p] ELSE NoCall]
      /\ UNCHANGED <<client, flag, last, crowded>>
  BY DEF Crash, acceptVars
<1>2. /\ wire \in [Conn -> [Side -> Seq(Unit)]] /\ open \in [Conn -> [Side -> BOOLEAN]]
      /\ reset \subseteq Conn /\ io \in [Thread -> Call]
  BY DEF AckInv, TypeOK, StreamTypeOK, Call
<1>3. \A c \in Conn : /\ wire'[c]["client"] = <<>> /\ wire'[c]["server"] = wire[c]["server"]
                      /\ ~open'[c]["server"] /\ open'[c]["client"] = open[c]["client"]
                      /\ c \in reset' => c \in reset \/ open[c]["server"]
  BY <1>1, <1>2, Sides
<1>4. \A c \in Conn : io'[Client(c)] = io[Client(c)] /\ io'[Sender(c)] = NoCall
  BY <1>1, Threads DEF Client, Sender
<1>5. io'[Main] = NoCall
  BY <1>1, Threads DEF Main
<1>6. \A p \in Thread : io'[p] = io[p] \/ io'[p] = NoCall
  BY <1>1
<1>7. TypeOK'
  <2>1. wire' \in [Conn -> [Side -> Seq(Unit)]]
    BY <1>1, <1>2, EmptySeq
  <2>2. open' \in [Conn -> [Side -> BOOLEAN]]
    BY <1>1, <1>2
  <2>3. io' \in [Thread -> Call]
    BY <1>1, <1>2, NoCalls
  <2>4. StreamTypeOK(Thread, Unit)'
    BY <1>1, <1>2, <2>1, <2>2, <2>3 DEF StreamTypeOK, Call
  <2> QED BY <1>1, <2>4 DEF AckInv, TypeOK
<1>8. Calls'
  <2>1. \A p \in Thread : io'[p].rc = -1 => Returned(p)'
    BY <1>6, NoCalls DEF AckInv, Calls, Returned
  <2> QED BY <1>1, <1>4, <1>5, <2>1, NoCalls DEF AckInv, Calls
<1>9. \A c \in Conn : ~Alive(c)' /\ ~Active(c)'
  BY <1>1 DEF Alive, Active
<1>10. Connected'
  BY <1>1, <1>3, <1>9, Sides, AckAssumption DEF AckInv, Connected, Link
<1>11. Serving'
  BY <1>1, <1>9, AckAssumption DEF AckInv, TypeOK, Serving, Accepting, Alone
<1>12. Offered' /\ ServerFramed'
  BY <1>1, <1>3 DEF Offered, ServerFramed, HeadFramed, BodyFramed
<1>13. Hearing'
  BY <1>1, <1>3, <1>4, StillHearing DEF AckInv
<1>14. Replying'
  BY <1>9 DEF Replying
<1>15. \A c \in Conn : Stage(c)' = "closed"
  BY <1>1 DEF Stage, Alive
<1> QED
  BY <1>7, <1>8, <1>10, <1>11, <1>12, <1>13, <1>14, <1>15 DEF AckInv, MessageFramed, ServerFramed
-------------------------------------------------------------------------------
(* The steps that move units. *)

LEMMA KeepsClientSends ==
  ASSUME AckInv, NEW c \in Conn, SendSome(Client(c), c, "client"),
         UNCHANGED <<client, main, fd, flag, sender, last, crowded>>
  PROVE  AckInv' /\ (Steady(Conn) \/ Passes(c, "ask", "serve"))
<1>1. /\ StreamTypeOK(Thread, Unit) /\ (fd # 0 => fd \in Conn)
      /\ io[Client(c)] \in Call
  BY Threads, SMTT(30) DEF AckInv, TypeOK, StreamTypeOK, Call
<1>2. /\ StreamTypeOK(Thread, Unit)' /\ UNCHANGED open
      /\ Only(Client(c)) /\ Touch(c, "client")
      /\ io[Client(c)].out # <<>> /\ open[c]["client"] /\ c \notin reset
      /\ io'[Client(c)].rc = io[Client(c)].rc /\ io'[Client(c)].want = io[Client(c)].want
      /\ io'[Client(c)].got = io[Client(c)].got
  BY <1>1, Sends, Threads, Sides
<1>3. \/ /\ open[c]["server"] /\ reset' = reset /\ wire'[c]["client"] # <<>>
         /\ \A g \in Seq(Unit) : (g \o wire'[c]["client"]) \o io'[Client(c)].out
                                   = (g \o wire[c]["client"]) \o io[Client(c)].out
      \/ ~open[c]["server"] /\ reset' = reset \union {c} /\ wire' = wire
  BY <1>1, Sends, Threads, Sides
<1>4. client[c] = "send" /\ io[Client(c)].rc = 0
  BY <1>1, <1>2, Threads DEF AckInv, Calls, Returned, Call
<1>5. /\ \A d \in Conn \ {c} : io'[Client(d)] = io[Client(d)]
      /\ \A d \in Conn : io'[Sender(d)] = io[Sender(d)]
      /\ io'[Main] = io[Main]
  BY <1>2, Threads DEF Only
<1>6. /\ \A d \in Conn \ {c} : wire'[d]["client"] = wire[d]["client"]
      /\ \A d \in Conn : wire'[d]["server"] = wire[d]["server"]
  BY <1>2, Sides DEF Touch
<1>7. \A d \in Conn : (Alive(d)' <=> Alive(d)) /\ (Active(d)' <=> Active(d))
  BY DEF Alive, Active
<1>8. TypeOK'
  BY <1>2 DEF AckInv, TypeOK
<1>9. Calls'
  <2>1. \A p \in Thread : io'[p].rc = -1 => Returned(p)'
    BY <1>2, <1>4 DEF AckInv, Calls, Returned, Only
  <2> QED BY <1>2, <1>4, <1>5, <2>1 DEF AckInv, Calls
<1> SUFFICES ASSUME c \notin crowded PROVE AckInv' /\ (Steady(Conn) \/ Passes(c, "ask", "serve"))
  <2>1. \A d \in Conn \ {c} : \A s \in Side : wire'[d][s] = wire[d][s]
    BY <1>6, Sides, SMTT(30)
  <2>2. \A d \in Conn \ {c} : d \in reset' <=> d \in reset
    BY <1>3
  <2> QED BY <1>2, <1>4, <1>5, <1>8, <1>9, <2>1, <2>2, Aside
<1>10. Serving'
  BY <1>7 DEF AckInv, Serving, Accepting, Alone, Active
<1>11. CASE ~Alive(c)
  <2>1. ~open[c]["server"] /\ reset' = reset \union {c} /\ wire' = wire
    BY <1>3, <1>4, <1>11 DEF AckInv, Connected, Link, Alive
  <2>2. fd # c
    BY <2>1 DEF AckInv, Connected, Link
  <2>3. Connected'
    BY <1>2, <1>4, <1>5, <1>7, <1>11, <2>1 DEF AckInv, Connected, Link
  <2>4. Offered'
    BY <1>2, <1>5, <1>7, <1>11, <2>1, StillOffered DEF AckInv, MessageFramed, ServerFramed
  <2>5. last \notin crowded => ServerFramed'
    BY <1>1, <1>5, <1>7, <2>1, <2>2
      
          DEF AckInv, MessageFramed, ServerFramed, HeadFramed, BodyFramed, Between,
              Drained, Upto, Comes
  <2>6. Hearing'
    <3>1. io'[Client(c)].got = io[Client(c)].got /\ Hearing
      BY <1>2 DEF AckInv
    <3>2. \A d \in Conn : io'[Client(d)].rc = io[Client(d)].rc /\ io'[Client(d)].want = io[Client(d)].want
      BY <1>2, <1>5
    <3>3. \A d \in Conn : io'[Client(d)].got = io[Client(d)].got
      BY <1>5, <3>1
    <3> QED BY <2>1, <3>1, <3>2, <3>3, Zenon DEF Hearing, Hears
  <2>7. Replying'
    <3>1. Between' <=> Between
      BY <1>1, <1>5, <1>7, <2>1, <2>2 DEF Between, Drained
    <3> QED BY <1>5, <1>7, <1>11, <2>1, <3>1 DEF AckInv, Replying, Replies, Silent
  <2>8. Steady(Conn)
    BY <1>4, <1>11 DEF Steady, Stage, Alive
  <2> QED BY <1>8, <1>9, <1>10, <2>3, <2>4, <2>5, <2>6, <2>7, <2>8, SMTT(30)
      DEF AckInv, MessageFramed, ServerFramed
<1>12. CASE Alive(c)
  <2>1. /\ reset' = reset /\ wire'[c]["client"] # <<>>
        /\ \A g \in Seq(Unit) : (g \o wire'[c]["client"]) \o io'[Client(c)].out
                                      = (g \o wire[c]["client"]) \o io[Client(c)].out
    BY <1>3, <1>12 DEF AckInv, Connected, Link
  <2>2. io'[Client(c)].out \in Seq(Unit) /\ io[Main].got \in Seq(Unit)
    BY <1>1, <1>2, Threads DEF StreamTypeOK
  <2>3. ASSUME NEW g \in Seq(Unit), NEW m, Comes(c, g, m)
        PROVE  \E more \in Seq(Unit) : /\ (g \o wire'[c]["client"]) \o more = m
                                       /\ Alive(c)' => more = io'[Client(c)].out
    BY <1>12, <2>1, <2>2, <2>3 DEF Comes
  <2>4. fd = c => ~Drained /\ ~Drained'
    BY <1>2, <1>7, <1>12, <2>1, AckAssumption DEF Drained
  <2>5. fd # c => (Drained' <=> Drained)
    BY <1>1, <1>5, <1>6, <1>7 DEF Drained
  <2>6. ASSUME NEW m, Upto(io[Main].got, m)
        PROVE  Upto(io[Main].got, m)'
    <3>1. CASE fd = c
      <4>1. Comes(c, io[Main].got, m)
        BY <2>6, <3>1, AckAssumption DEF Upto
      <4>2. \E more \in Seq(Unit) : /\ (io[Main].got \o wire'[c]["client"]) \o more = m
                                    /\ Alive(c)' => more = io'[Client(c)].out
        BY <2>2, <2>3, <4>1
      <4> QED BY <1>5, <3>1, <4>2, AckAssumption DEF Upto, Comes
    <3>2. CASE fd # c
      BY <1>1, <1>5, <1>6, <1>7, <2>6, <3>2 DEF Upto, Comes
    <3> QED BY <3>1, <3>2
  <2>7. Connected'
    <3> SUFFICES ASSUME NEW d \in Conn
                 PROVE  Link(d)'
      BY DEF Connected
    <3>1. CASE d = c
      BY <1>2, <1>4, <1>5, <1>7, <2>1, <3>1 DEF AckInv, Connected, Link
    <3>2. CASE d # c
      <4>1. open' = open /\ reset' = reset
        BY <1>2, <2>1
      <4> QED BY <1>5, <1>6, <1>7, <3>2, <4>1, Sides DEF AckInv, Connected, Link
    <3> QED BY <3>1, <3>2
  <2>8. Offered'
    <3> SUFFICES ASSUME NEW d \in Conn \ crowded, open[d]["server"], sender[d] = "none"
                 PROVE  \E n \in Lengths : Comes(d, <<>>, Message(n))'
      BY <1>2 DEF Offered
    <3>1. PICK n \in Lengths : Comes(d, <<>>, Message(n))
      BY DEF AckInv, MessageFramed, ServerFramed, Offered
    <3>2. CASE d = c
      <4>1. Comes(c, <<>>, Message(n)) /\ <<>> \in Seq(Unit)
        BY <3>1, <3>2, EmptySeq
      <4>2. \E more \in Seq(Unit) : /\ (<<>> \o wire'[c]["client"]) \o more = Message(n)
                                    /\ Alive(c)' => more = io'[Client(c)].out
        BY <2>3, <4>1
      <4> QED BY <3>2, <4>2 DEF Comes
    <3>3. CASE d # c
      BY <1>5, <1>6, <1>7, <3>1, <3>3 DEF Comes
    <3> QED BY <3>2, <3>3
  <2>9. ASSUME last \notin crowded
        PROVE  ServerFramed'
    <3>1. HeadFramed'
      <4>1. Between => Between'
        BY <1>5, <2>4, <2>5 DEF Between
      <4> QED BY <1>5, <2>6, <2>9, <4>1 DEF AckInv, MessageFramed, ServerFramed, HeadFramed
    <3>2. BodyFramed'
      BY <1>5, <2>6, <2>9 DEF AckInv, MessageFramed, ServerFramed, BodyFramed
    <3>3. (main = "flag" => Drained)'
      BY <2>4, <2>5, <2>9 DEF AckInv, MessageFramed, ServerFramed
    <3> QED BY <3>1, <3>2, <3>3 DEF ServerFramed
  <2>10. Hearing'
    <3>1. \A d \in Conn : /\ io'[Client(d)].rc = io[Client(d)].rc
                          /\ io'[Client(d)].want = io[Client(d)].want
                          /\ io'[Client(d)].got = io[Client(d)].got
      BY <1>2, <1>5
    <3> QED BY <1>6, <3>1 DEF AckInv, Hearing, Hears
  <2>11. Replying'
    <3>1. Between' <=> Between
      BY <1>5, <2>4, <2>5 DEF Between
    <3>2. \A d \in Conn : io'[Client(d)].got = io[Client(d)].got
      BY <1>2, <1>5
    <3> QED BY <1>5, <1>6, <1>7, <3>1, <3>2 DEF AckInv, Replying, Replies, Silent
  <2>12. Steady(Conn) \/ Passes(c, "ask", "serve")
    <3>1. Between' <=> Between
      BY <1>5, <2>4, <2>5 DEF Between
    <3>2. \A d \in Conn \ {c} : Stage(d)' = Stage(d)
      BY <1>5, <1>7, <3>1, SteadyStage DEF AckInv, TypeOK
    <3>3. ~(Active(c) /\ Between)
      BY <1>12, <2>4 DEF AckInv, Connected, Link, Active, Between
    <3>4. Stage(c) = "ask"
      BY <1>2, <1>4, <1>12, <3>3 DEF Stage, Alive
    <3>5. Stage(c)' \in {"ask", "serve"}
      BY <1>4, <1>7, <1>12, <3>1, <3>3 DEF Stage, Alive
    <3> QED BY <3>2, <3>4, <3>5 DEF Passes, Steady
  <2> QED
    BY <1>8, <1>9, <1>10, <2>7, <2>8, <2>9, <2>10, <2>11, <2>12
       DEF AckInv, MessageFramed, ServerFramed
<1> QED BY <1>11, <1>12

LEMMA KeepsClientReceives ==
  ASSUME AckInv, NEW c \in Conn, RecvSome(Client(c), c, "client"),
         UNCHANGED <<client, main, fd, flag, sender, last, crowded>>
  PROVE  AckInv' /\ Steady(Conn)
<1>1. /\ StreamTypeOK(Thread, Unit) /\ (fd # 0 => fd \in Conn)
      /\ io[Client(c)] \in Call
  BY Threads DEF AckInv, TypeOK, StreamTypeOK, Call
<1>2. /\ StreamTypeOK(Thread, Unit)' /\ UNCHANGED <<open, reset>>
      /\ Only(Client(c)) /\ Touch(c, "server")
      /\ io[Client(c)].want > 0
      /\ io'[Client(c)].rc = io[Client(c)].rc /\ io'[Client(c)].out = io[Client(c)].out
      /\ io'[Client(c)].want + Len(io'[Client(c)].got) = io[Client(c)].want + Len(io[Client(c)].got)
      /\ io'[Client(c)].got \o wire'[c]["server"] = io[Client(c)].got \o wire[c]["server"]
      /\ wire[c]["server"] # <<>> /\ io'[Client(c)].got # <<>>
  <2>1. /\ StreamTypeOK(Thread, Unit) /\ RecvSome(Client(c), c, "client") /\ c \in Conn
        /\ Client(c) \in Thread /\ "client" \in Side /\ "server" \in Side
        /\ "server" = Peer("client")
    BY <1>1, Threads, Sides
  <2>2. ReceivedOver(Client(c), c, "client", "server")
    BY ONLY <2>1, Receives
  <2> QED BY <2>2 DEF ReceivedOver
<1>3. client[c] = "recv" /\ io[Client(c)].rc = 0
  BY <1>1, <1>2, Threads DEF AckInv, Calls, Returned, Call
<1>4. /\ \A d \in Conn \ {c} : io'[Client(d)] = io[Client(d)]
      /\ \A d \in Conn : io'[Sender(d)] = io[Sender(d)]
      /\ io'[Main] = io[Main]
  BY <1>2, Threads DEF Only
<1>5. /\ \A d \in Conn \ {c} : wire'[d]["server"] = wire[d]["server"]
      /\ \A d \in Conn : wire'[d]["client"] = wire[d]["client"]
  BY <1>2, Sides DEF Touch
<1>6. \A d \in Conn : (Alive(d)' <=> Alive(d)) /\ (Active(d)' <=> Active(d))
  BY DEF Alive, Active
<1>7. \A d \in Conn : io'[Client(d)].out = io[Client(d)].out
  BY <1>2, <1>4
<1>8. TypeOK'
  BY <1>2 DEF AckInv, TypeOK
<1>9. Calls'
  <2>1. \A p \in Thread : io'[p].rc = -1 => Returned(p)'
    BY <1>2, <1>3 DEF AckInv, Calls, Returned, Only
  <2> QED BY <1>2, <1>3, <1>4, <2>1 DEF AckInv, Calls
<1> SUFFICES ASSUME c \notin crowded PROVE AckInv' /\ Steady(Conn)
  <2>1. \A d \in Conn \ {c} : \A s \in Side : wire'[d][s] = wire[d][s]
    BY <1>5, Sides
  <2> QED BY <1>2, <1>3, <1>4, <1>8, <1>9, <2>1, Aside
<1>10. Connected'
  <2> SUFFICES ASSUME NEW d \in Conn
               PROVE  Link(d)'
    BY DEF Connected
  <2>1. CASE d = c
    BY <1>2, <1>3, <1>4, <1>6, <2>1 DEF AckInv, Connected, Link
  <2>2. CASE d # c
    BY <1>2, <1>4, <1>5, <1>6, <2>2, Sides DEF AckInv, Connected, Link
  <2> QED BY <2>1, <2>2
<1>11. Serving'
  BY <1>6 DEF AckInv, Serving, Accepting, Alone, Active
<1>12. Offered'
  BY <1>2, <1>5, <1>6, <1>7, StillOffered DEF AckInv, MessageFramed, ServerFramed
<1>13. last \notin crowded => ServerFramed'
  BY <1>1, <1>4, <1>5, <1>6, <1>7
    
        DEF AckInv, MessageFramed, ServerFramed, HeadFramed, BodyFramed, Between,
            Drained, Upto, Comes
<1>14. Hearing'
  <2> SUFFICES ASSUME NEW d \in Conn \ crowded'
               PROVE  Hears(d)'
    BY DEF Hearing
  <2>1. CASE d = c
    <3>1. /\ io[Client(c)].want = 2 - Len(io[Client(c)].got)
          /\ \E more \in Seq(Unit) : (io[Client(c)].got \o wire[c]["server"]) \o more = Ack
      BY <1>3 DEF AckInv, Hearing, Hears
    <3>2. /\ io'[Client(c)].want \in Nat /\ io[Client(c)].want \in Nat
          /\ Len(io'[Client(c)].got) \in Nat /\ Len(io[Client(c)].got) \in Nat
      BY <1>1, <1>2, Threads, LenProperties DEF StreamTypeOK
    <3>3. io'[Client(c)].want = 2 - Len(io'[Client(c)].got)
      BY <1>2, <3>1, <3>2
    <3>4. \E more \in Seq(Unit) : (io'[Client(c)].got \o wire'[c]["server"]) \o more = Ack
      BY <1>2, <3>1
    <3> QED BY <2>1, <3>3, <3>4 DEF Hears
  <2>2. CASE d # c
    BY <1>4, <1>5, <2>2 DEF AckInv, Hearing, Hears
  <2> QED BY <2>1, <2>2
<1>15. Replying'
  <2> SUFFICES ASSUME NEW d \in Conn, Alive(d)
               PROVE  Replies(d)'
    BY <1>6 DEF Replying
  <2>1. Between' <=> Between
    BY <1>1, <1>4, <1>5, <1>6, <1>7 DEF Between, Drained
  <2>2. CASE d = c
    <3>1. /\ Active(c) /\ Between /\ flag = 0 /\ sender[c] # "clear"
          /\ (io[Client(c)].got \o wire[c]["server"]) \o io[Sender(c)].out = Ack
      BY <1>2, <2>2 DEF AckInv, Replying, Replies, Silent
    <3> QED BY <1>2, <1>4, <1>6, <2>1, <2>2, <3>1 DEF Replies
  <2>3. CASE d # c
    BY <1>4, <1>5, <1>6, <2>1, <2>3 DEF AckInv, Replying, Replies, Silent
  <2> QED BY <2>2, <2>3
<1>16. Steady(Conn)
  <2>1. Between' <=> Between
    BY <1>1, <1>4, <1>5, <1>6, <1>7 DEF Between, Drained
  <2> QED BY <1>6, <1>7, <2>1, SteadyStage DEF AckInv, TypeOK, Steady
<1> QED
  BY <1>8, <1>9, <1>10, <1>11, <1>12, <1>13, <1>14, <1>15, <1>16
     DEF AckInv, MessageFramed, ServerFramed

LEMMA KeepsServerReceives ==
  ASSUME AckInv, fd # 0, RecvSome(Main, fd, "server"),
         UNCHANGED <<client, main, fd, flag, sender, last, crowded>>
  PROVE  AckInv' /\ Steady(Conn)
<1>1. /\ StreamTypeOK(Thread, Unit) /\ fd \in Conn /\ io[Main] \in Call
  BY Threads DEF AckInv, TypeOK, StreamTypeOK, Call
<1>2. /\ StreamTypeOK(Thread, Unit)' /\ UNCHANGED <<open, reset>>
      /\ Only(Main) /\ Touch(fd, "client")
      /\ io[Main].want > 0
      /\ io'[Main].rc = io[Main].rc /\ io'[Main].out = io[Main].out
      /\ io'[Main].want + Len(io'[Main].got) = io[Main].want + Len(io[Main].got)
      /\ io'[Main].got \o wire'[fd]["client"] = io[Main].got \o wire[fd]["client"]
      /\ wire[fd]["client"] # <<>> /\ io'[Main].got # <<>>
  <2>1. /\ StreamTypeOK(Thread, Unit) /\ RecvSome(Main, fd, "server") /\ fd \in Conn
        /\ Main \in Thread /\ "client" \in Side /\ "server" \in Side
        /\ "client" = Peer("server")
    BY <1>1, Threads, Sides
  <2>2. ReceivedOver(Main, fd, "server", "client")
    BY ONLY <2>1, Receives
  <2> QED BY <2>2 DEF ReceivedOver
<1>3. main \in {"head", "body"} /\ io[Main].rc = 0
  BY <1>1, <1>2, Threads DEF AckInv, Calls, Returned, Call
<1>4. \A d \in Conn : io'[Client(d)] = io[Client(d)] /\ io'[Sender(d)] = io[Sender(d)]
  BY <1>2, Threads DEF Only
<1>5. /\ \A d \in Conn \ {fd} : wire'[d]["client"] = wire[d]["client"]
      /\ \A d \in Conn : wire'[d]["server"] = wire[d]["server"]
  BY <1>2, Sides DEF Touch
<1>6. \A d \in Conn : (Alive(d)' <=> Alive(d)) /\ (Active(d)' <=> Active(d))
  BY DEF Alive, Active
<1>7. /\ io'[Main].want \in Nat /\ io[Main].want \in Nat
      /\ Len(io'[Main].got) \in Nat /\ Len(io[Main].got) \in Nat
  BY <1>1, <1>2, Threads, LenProperties DEF StreamTypeOK
<1>8. TypeOK'
  BY <1>2 DEF AckInv, TypeOK
<1>9. Calls'
  <2>1. \A p \in Thread : io'[p].rc = -1 => Returned(p)'
    BY <1>2, <1>3 DEF AckInv, Calls, Returned, Only
  <2>2. main = "head" => io'[Main].want = 2 - Len(io'[Main].got)
    BY <1>2, <1>3, <1>7 DEF AckInv, Calls
  <2> QED BY <1>2, <1>3, <1>4, <2>1, <2>2 DEF AckInv, Calls
<1>10. Accepting'
  BY <1>6 DEF AckInv, Serving, Accepting
<1> SUFFICES ASSUME last \notin crowded PROVE AckInv' /\ Steady(Conn)
  <2>1. fd = last /\ io'[Main].want \in Nat
    BY <1>7 DEF AckInv, Serving, Accepting
  <2>2. \A d \in Conn \ {last} : \A s \in Side : wire'[d][s] = wire[d][s]
    BY <1>5, <2>1, Sides
  <2> QED BY <1>2, <1>4, <1>8, <1>9, <1>10, <2>1, <2>2, Elsewhere
<1>11. ~Between /\ ~Between'
  BY <1>2 DEF Between, Drained
<1>12. Active(fd)
  BY <1>3 DEF AckInv, Serving, Alone
<1>13. ASSUME NEW m, Upto(io[Main].got, m)
       PROVE  Upto(io[Main].got, m)'
  BY <1>1, <1>2, <1>4, <1>6, <1>13 DEF Upto, Comes
<1>14. Connected'
  <2> SUFFICES ASSUME NEW d \in Conn
               PROVE  Link(d)'
    BY DEF Connected
  <2>1. CASE d = fd
    <3>1. client[d] # "off"
      BY <2>1, Sides DEF AckInv, Connected, Link
    <3> QED BY <1>2, <1>4, <1>6, <2>1, <3>1 DEF AckInv, Connected, Link
  <2>2. CASE d # fd
    BY <1>2, <1>4, <1>5, <1>6, <2>2, Sides DEF AckInv, Connected, Link
  <2> QED BY <2>1, <2>2
<1>15. Serving'
  BY <1>10 DEF AckInv, Serving, Alone, Active
<1>16. Offered'
  BY <1>2, <1>4, <1>5, <1>6, <1>12, StillOffered DEF AckInv, MessageFramed, ServerFramed, Active
<1>17. HeadFramed'
  BY <1>2, <1>3, <1>11, <1>13 DEF AckInv, MessageFramed, ServerFramed, HeadFramed
<1>18. BodyFramed'
  <2> SUFFICES ASSUME main = "body"
               PROVE  \E n \in Lengths : /\ io'[Main].want = n - Len(io'[Main].got)
                                         /\ Upto(io[Main].got, Item("text", n))'
    BY DEF BodyFramed
  <2>1. PICK n \in Lengths : /\ io[Main].want = n - Len(io[Main].got)
                             /\ Upto(io[Main].got, Item("text", n))
    BY <1>3 DEF AckInv, MessageFramed, ServerFramed, BodyFramed
  <2>2. Upto(io[Main].got, Item("text", n))'
    BY <1>13, <2>1
  <2>3. io'[Main].want = n - Len(io'[Main].got)
    BY <1>2, <1>7, <2>1, AckAssumption
  <2> QED BY <2>2, <2>3
<1>19. ServerFramed'
  BY <1>3, <1>17, <1>18 DEF ServerFramed
<1>20. Hearing'
  BY <1>4, <1>5, StillHearing DEF AckInv
<1>21. Replying'
  BY <1>4, <1>5, <1>6, <1>11 DEF AckInv, Replying, Replies, Silent
<1>22. Steady(Conn)
  BY <1>4, <1>6, <1>11, SteadyStage DEF AckInv, TypeOK, Steady
<1> QED
  BY <1>8, <1>9, <1>14, <1>15, <1>16, <1>19, <1>20, <1>21, <1>22
     DEF AckInv, MessageFramed, ServerFramed

LEMMA KeepsServerSends ==
  ASSUME AckInv, NEW c \in Conn, fd # 0, SendSome(Sender(c), fd, "server"),
         UNCHANGED <<client, main, fd, flag, sender, last, crowded>>
  PROVE  AckInv' /\ Steady(Conn)
<1>1. /\ StreamTypeOK(Thread, Unit) /\ io[Sender(c)] \in Call
  BY Threads DEF AckInv, TypeOK, StreamTypeOK, Call
<1>2. io[Sender(c)].out # <<>>
  BY DEF SendSome
<1>3. sender[c] = "send" /\ io[Sender(c)].rc = 0
  BY <1>1, <1>2, Threads DEF AckInv, Calls, Returned, Call
<1>4. fd \in Conn /\ sender[c] # "none" /\ Active(c)
  BY <1>3 DEF AckInv, TypeOK, Active
<1>5. /\ StreamTypeOK(Thread, Unit)' /\ UNCHANGED open
      /\ Only(Sender(c)) /\ Touch(fd, "server")
      /\ io'[Sender(c)].rc = io[Sender(c)].rc /\ io'[Sender(c)].want = io[Sender(c)].want
  BY <1>1, <1>4, Sends, Threads, Sides
<1>6. \/ /\ open[fd]["client"] /\ reset' = reset
         /\ \A g \in Seq(Unit) : (g \o wire'[fd]["server"]) \o io'[Sender(c)].out
                                   = (g \o wire[fd]["server"]) \o io[Sender(c)].out
      \/ ~open[fd]["client"] /\ reset' = reset \union {fd} /\ wire' = wire
  BY <1>1, <1>4, Sends, Threads, Sides
<1>7. /\ \A d \in Conn \ {c} : io'[Sender(d)] = io[Sender(d)]
      /\ \A d \in Conn : io'[Client(d)] = io[Client(d)]
      /\ io'[Main] = io[Main]
  BY <1>5, Threads, SMTT(30) DEF Only
<1>8. /\ \A d \in Conn \ {fd} : wire'[d]["server"] = wire[d]["server"]
      /\ \A d \in Conn : wire'[d]["client"] = wire[d]["client"]
      /\ \A d \in Conn \ {fd} : d \in reset' <=> d \in reset
  BY <1>5, <1>6, Sides DEF Touch
<1>9. \A d \in Conn : (Alive(d)' <=> Alive(d)) /\ (Active(d)' <=> Active(d))
  BY DEF Alive, Active
<1>10. TypeOK'
  BY <1>5 DEF AckInv, TypeOK
<1>11. Calls'
  <2>1. \A p \in Thread : io'[p].rc = -1 => Returned(p)'
    BY <1>3, <1>5 DEF AckInv, Calls, Returned, Only
  <2> QED BY <1>3, <1>5, <1>7, <2>1 DEF AckInv, Calls
<1>12. Accepting'
  BY <1>9 DEF AckInv, Serving, Accepting
<1> SUFFICES ASSUME last \notin crowded PROVE AckInv' /\ Steady(Conn)
  <2>1. fd = last
    BY DEF AckInv, Serving, Accepting
  <2>2. \A d \in Conn \ {last} : \A s \in Side : wire'[d][s] = wire[d][s]
    BY <1>8, <2>1, Sides
  <2>3. \A d \in Conn : sender[d] = "none" => d # c
    BY <1>4
  <2> QED BY <1>5, <1>7, <1>8, <1>10, <1>11, <1>12, <2>1, <2>2, <2>3, Elsewhere
<1>13. fd = c
  BY <1>4 DEF AckInv, Serving, Accepting, Alone
<1>14. client[c] # "off" /\ (client[c] \in {"send", "recv"} => Alive(c))
  BY <1>4, <1>13, Sides, SMTT(30) DEF AckInv, Connected, Link, Serving, Accepting, Alone, Alive
<1>15. ASSUME Alive(c)
       PROVE  /\ reset' = reset
              /\ Between /\ flag = 0
              /\ (io'[Client(c)].got \o wire'[c]["server"]) \o io'[Sender(c)].out = Ack
  <2>1. open[c]["client"]
    BY <1>15 DEF AckInv, Connected, Link
  <2>2. /\ Between /\ flag = 0
        /\ (io[Client(c)].got \o wire[c]["server"]) \o io[Sender(c)].out = Ack
    BY <1>2, <1>15 DEF AckInv, Replying, Replies, Silent
  <2>3. io[Client(c)].got \in Seq(Unit)
    BY <1>1, Threads DEF StreamTypeOK
  <2> QED BY <1>6, <1>13, <1>7, <2>1, <2>2, <2>3
<1>16. Connected'
  <2> SUFFICES ASSUME NEW d \in Conn
               PROVE  Link(d)'
    BY DEF Connected
  <2>1. CASE d = c
    BY <1>5, <1>7, <1>9, <1>14, <1>15, <2>1 DEF AckInv, Connected, Link
  <2>2. CASE d # c
    BY <1>5, <1>7, <1>8, <1>13, <1>9, <2>2, Sides DEF AckInv, Connected, Link
  <2> QED BY <2>1, <2>2
<1>17. Serving'
  BY <1>12 DEF AckInv, Serving, Alone, Active
<1>18. Offered'
  BY <1>5, <1>7, <1>8, <1>13, <1>9, StillOffered DEF AckInv, MessageFramed, ServerFramed
<1>19. ServerFramed'
  BY <1>4, <1>13, <1>7, <1>8, <1>9
    
        DEF AckInv, MessageFramed, ServerFramed, HeadFramed, BodyFramed, Between,
            Drained, Upto, Comes
<1>20. Hearing'
  <2> SUFFICES ASSUME NEW d \in Conn \ crowded'
               PROVE  Hears(d)'
    BY DEF Hearing
  <2>1. CASE d = c
    <3>1. io'[Sender(c)].out \in Seq(Unit)
      BY <1>5, Threads DEF StreamTypeOK
    <3> QED BY <1>7, <1>14, <1>15, <2>1, <3>1 DEF AckInv, Hearing, Hears
  <2>2. CASE d # c
    BY <1>7, <1>8, <1>13, <2>2 DEF AckInv, Hearing, Hears
  <2> QED BY <2>1, <2>2
<1>21. Replying'
  <2> SUFFICES ASSUME NEW d \in Conn, Alive(d)
               PROVE  Replies(d)'
    BY <1>9 DEF Replying
  <2>1. Between' <=> Between
    BY <1>4, <1>13, <1>7, <1>8, <1>9 DEF Between, Drained
  <2>2. CASE d = c
    BY <1>3, <1>4, <1>13, <1>9, <1>15, <2>1, <2>2 DEF Replies
  <2>3. CASE d # c
    BY <1>7, <1>8, <1>13, <1>9, <2>1, <2>3 DEF AckInv, Replying, Replies, Silent
  <2> QED BY <2>2, <2>3
<1>22. Steady(Conn)
  <2>1. Between' <=> Between
    BY <1>4, <1>13, <1>7, <1>8, <1>9 DEF Between, Drained
  <2> QED BY <1>7, <1>9, <2>1, SteadyStage DEF AckInv, TypeOK, Steady
<1> QED
  BY <1>10, <1>11, <1>16, <1>17, <1>18, <1>19, <1>20, <1>21, <1>22
     DEF AckInv, MessageFramed, ServerFramed
-------------------------------------------------------------------------------
LEMMA AckInit == Init => AckInv
<1> SUFFICES ASSUME Init PROVE AckInv
  OBVIOUS
<1>1. /\ wire = [c \in Conn |-> [s \in Side |-> <<>>]]
      /\ open = [c \in Conn |-> [s \in Side |-> FALSE]] /\ reset = {}
      /\ io = [p \in Thread |-> NoCall]
      /\ client = [c \in Conn |-> "off"] /\ main = "accept" /\ fd = 0 /\ flag = 0
      /\ sender = [c \in Conn |-> "none"] /\ last = 0 /\ crowded = {}
  BY DEF Init, StreamInit
<1>2. TypeOK
  <2>1. <<>> \in Seq(Unit)
    BY EmptySeq
  <2> QED BY <1>1, <2>1, NoCalls DEF TypeOK, StreamTypeOK, Call
<1>3. \A p \in Thread : io[p] = NoCall
  BY <1>1
<1>4. Calls
  BY <1>1, <1>3, NoCalls, Threads DEF Calls
<1>5. \A c \in Conn : ~Alive(c) /\ ~Active(c)
  BY <1>1 DEF Alive, Active
<1>6. Connected /\ Serving
  BY <1>1, <1>5, AckAssumption DEF Connected, Link, Serving, Accepting, Alone
<1>7. MessageFramed
  BY <1>1, Sides DEF MessageFramed, ServerFramed, Offered, HeadFramed, BodyFramed
<1>8. Hearing /\ Replying
  BY <1>1, <1>5 DEF Hearing, Hears, Replying
<1> QED BY <1>2, <1>4, <1>6, <1>7, <1>8 DEF AckInv

\* What a step may do to the turns.
Turning ==
    \/ Steady(Conn)
    \/ \E c \in Conn : \/ Passes(c, "ask", "serve") \/ Passes(c, "serve", "answer")
                       \/ Passes(c, "answer", "ask")
                       \/ Stage(c)' = "closed" /\ Steady(Conn \ {c})
    \/ \A c \in Conn : Stage(c)' = "closed"

LEMMA AckStutter ==
  ASSUME AckInv, UNCHANGED vars
  PROVE  AckInv' /\ Turning
<1>1. UNCHANGED <<wire, open, reset, io, client, main, fd, flag, sender, last, crowded>>
  BY DEF vars, streamVars, acceptVars
<1>2. \A c \in Conn : (Alive(c)' <=> Alive(c)) /\ (Active(c)' <=> Active(c))
  BY <1>1 DEF Alive, Active
<1>3. TypeOK' /\ Calls' /\ Connected'
  BY <1>1 DEF AckInv, TypeOK, StreamTypeOK, Calls, Returned, Connected, Link, Alive
<1>4. Serving'
  BY <1>1 DEF AckInv, Serving, Accepting, Alone, Active, Alive
<1>5. Offered'
  BY <1>1, <1>2, StillOffered DEF AckInv, MessageFramed, ServerFramed
<1>6. Between' <=> Between
  BY <1>1 DEF Between, Drained, Alive
<1>7. last \notin crowded => ServerFramed'
  BY <1>1, <1>6
     DEF AckInv, MessageFramed, ServerFramed, HeadFramed, BodyFramed, Drained, Upto, Comes, Alive
<1>8. Hearing'
  BY <1>1, StillHearing DEF AckInv
<1>9. Replying'
  BY <1>1, <1>2, <1>6 DEF AckInv, Replying, Replies, Silent
<1>10. Turning
  BY <1>1, <1>2, <1>6, SteadyStage DEF AckInv, TypeOK, Steady, Turning
<1> QED BY <1>1, <1>3, <1>4, <1>5, <1>7, <1>8, <1>9, <1>10
    DEF AckInv, MessageFramed, ServerFramed

LEMMA AckStep ==
  ASSUME AckInv, [Next]_vars
  PROVE  AckInv' /\ Turning
<1>1. CASE UNCHANGED vars
  BY <1>1, AckStutter
<1>2. ASSUME NEW c \in Conn, ClientStep(c) \/ Kill(c)
      PROVE  AckInv' /\ Turning
  <2>1. CASE /\ Transfer(Client(c), c, "client")
             /\ UNCHANGED <<client, main, fd, flag, sender, last, crowded>>
    BY <2>1, KeepsClientSends, KeepsClientReceives, KeepsClientFails DEF Transfer, Turning
  <2>2. CASE GiveUp(c) \/ Kill(c)
    BY <2>2, KeepsLeave DEF GiveUp, Kill, Turning
  <2>3. CASE Connect(c) \/ Refused(c) \/ AwaitAck(c) \/ TakeAck(c)
    BY <2>3, KeepsConnect, KeepsRefused, KeepsAwaitAck, KeepsTakeAck DEF Turning
  <2>4. UNCHANGED acceptVars => UNCHANGED <<last, crowded>>
    BY DEF acceptVars
  <2> QED BY <1>2, <2>1, <2>2, <2>3, <2>4 DEF ClientStep
<1>3. ASSUME NEW p \in {Main} \union {Sender(c) : c \in Conn}, ServerTransfer(p)
      PROVE  AckInv' /\ Steady(Conn)
  <2>1. UNCHANGED <<client, main, fd, flag, sender, last, crowded>>
    BY <1>3 DEF ServerTransfer, acceptVars
  <2>2. CASE IF fd = 0 THEN Fail(p) ELSE SendFails(p, fd, "server") \/ RecvFails(p, fd, "server")
    BY <2>1, <2>2, KeepsServerFails
  <2>3. CASE fd # 0 /\ RecvSome(p, fd, "server")
    <3>1. io[p].want > 0 /\ io[p].want # 0
      BY <2>3 DEF RecvSome
    <3>2. p = Main
      BY <3>1 DEF AckInv, Calls
    <3> QED BY <2>1, <2>3, <3>2, KeepsServerReceives
  <2>4. CASE fd # 0 /\ SendSome(p, fd, "server")
    <3>1. io[p].out # <<>>
      BY <2>4 DEF SendSome
    <3>2. PICK c \in Conn : p = Sender(c)
      BY <3>1 DEF AckInv, Calls
    <3> QED BY <2>1, <2>4, <3>2, KeepsServerSends
  <2> QED BY <1>3, <2>2, <2>3, <2>4 DEF ServerTransfer, Transfer, acceptVars
<1>4. ASSUME NEW c \in Conn, SenderStep(c)
      PROVE  AckInv' /\ Turning
  BY <1>3, <1>4, KeepsSeeFlag, KeepsTakeFlag, KeepsSent, KeepsSendFailed DEF SenderStep, Turning
<1>5. ASSUME MainStep
      PROVE  AckInv' /\ Turning
  BY <1>3, <1>5, KeepsAccept, KeepsClearFlag, KeepsSpawn, KeepsHeadReceived, KeepsBodyReceived,
     KeepsRequestAck, KeepsRecvFailed, KeepsCloseConnection, KeepsRequestEnd
     DEF MainStep, EndConnection, Turning
<1>6. ASSUME Crash
      PROVE  AckInv' /\ Turning
  BY <1>6, KeepsCrash DEF Turning
<1> QED BY <1>1, <1>2, <1>4, <1>5, <1>6 DEF Next

LEMMA AckInvariant ==
  Spec => []AckInv
<1>1. AckInv /\ [Next]_vars => AckInv'
  BY AckStep
<1> QED BY <1>1, AckInit, PTL DEF Spec

\* The calls made and the data received stay of their type.
THEOREM TypeCorrect ==
  Spec => []TypeOK
<1>1. AckInv => TypeOK
  BY DEF AckInv
<1> QED BY <1>1, AckInvariant, PTL

LEMMA Frames == AckInv => InFrame
<1> SUFFICES ASSUME AckInv PROVE InFrame
  OBVIOUS
<1>1. main = "head" /\ Succeeded(Main) /\ last \notin crowded =>
        io[Main].got \in {Header(n) : n \in Lengths}
  BY HeadWhole
<1>2. main = "body" /\ Succeeded(Main) /\ last \notin crowded =>
        io[Main].got \in {Item("text", n) : n \in Lengths}
  BY BodyDrained
<1>3. \A c \in Conn \ crowded : client[c] = "recv" /\ Succeeded(Client(c)) =>
        io[Client(c)].got = Ack
  BY AckTaken
<1> QED BY <1>1, <1>2, <1>3 DEF InFrame

\* Neither side of a connection runs its reads and writes into each other: what a
\* successful recv() returns is a whole header, the text the header announces or the
\* acknowledgement, however the kernel cuts the stream (socket_server/main.cpp:146 and
\* 168, socket_client/main.cpp:83, socket_class.cpp:243-298).  This is said of the
\* connections accepted when no older SendThread was left (main.cpp:126).
THEOREM FramesKept ==
  Spec => []InFrame
<1> QED BY AckInvariant, Frames, PTL
-------------------------------------------------------------------------------
\* The turns of the refinement mapping are these.
LEMMA TurnIsStage == AckInv => \A c \in Conn : Turn(c) = Stage(c)
<1> SUFFICES ASSUME AckInv, NEW c \in Conn PROVE Turn(c) = Stage(c)
  OBVIOUS
<1>1. client[c] \in {"off", "send", "recv", "gone"}
  BY DEF AckInv, TypeOK
<1>2. CASE client[c] = "gone" \/ main = "dead" \/ c \in crowded
  BY <1>2 DEF Turn, Stage, Waiting, Alive
<1>3. CASE client[c] = "off" /\ main # "dead" /\ c \notin crowded
  BY <1>3 DEF Turn, Stage, Waiting, Alive
<1>4. CASE Alive(c)
  <2>1. io[Client(c)].rc = 0
    BY <1>4 DEF AckInv, Connected, Link
  <2>2. Waiting(c) <=> io[Client(c)].out = <<>>
    BY <1>4, <2>1 DEF AckInv, Calls, Waiting, Succeeded, Returned, Alive
  <2>3. CASE ~(Active(c) /\ Between)
    <3>1. /\ Silent(c) /\ (sender[c] # "none" => flag = 0 /\ sender[c] # "clear")
      BY <1>4, <2>3 DEF AckInv, Replying, Replies
    <3>2. ~AckDue(c)
      BY <3>1 DEF AckInv, Calls, AckDue, Silent, Returned
    <3> QED BY <1>4, <2>2, <2>3, <3>2 DEF Turn, Stage, Alive
  <2>4. CASE Active(c) /\ Between
    <3>1. fd = c
      BY <1>4, <2>4 DEF AckInv, Connected, Link, Active
    <3>2. io[Client(c)].out = <<>>
      BY <1>4, <2>4, <3>1, AckAssumption DEF Between, Drained
    <3>3. AckDue(c)
      <4>1. CASE Silent(c) /\ flag = 1
        BY <2>4, <4>1 DEF AckDue, Active
      <4>2. CASE (io[Client(c)].got \o wire[c]["server"]) \o io[Sender(c)].out = Ack
        <5>1. io[Client(c)].got # <<>> \/ wire[c]["server"] # <<>> \/ io[Sender(c)].out # <<>>
          <6>1. (<<>> \o <<>>) \o <<>> = <<>>
            BY EmptySeq, ConcatEmptySeq
          <6> QED BY <4>2, <6>1, Messages
        <5> QED BY <5>1 DEF AckInv, Calls, AckDue, Returned
      <4> QED BY <1>4, <2>4, <4>1, <4>2 DEF AckInv, Replying, Replies
    <3> QED BY <1>4, <2>2, <2>4, <3>2, <3>3 DEF Turn, Stage, Alive
  <2> QED BY <2>3, <2>4
<1> QED BY <1>1, <1>2, <1>3, <1>4 DEF Alive

\* The server and its clients implement the requests and replies of RequestReply: on a
\* connection accepted when no older SendThread was left (main.cpp:126) nothing is
\* acknowledged twice or without a message.
THEOREM RefinesRequestReply ==
  Spec => IsRequestReply
<1> DEFINE turn == [c \in Conn |-> Turn(c)]
<1>1. Init => turn = [c \in Conn |-> "ask"]
  <2> SUFFICES ASSUME Init, NEW c \in Conn PROVE Turn(c) = "ask"
    OBVIOUS
  <2>1. Stage(c) = "ask"
    BY DEF Init, Stage, Alive
  <2> QED BY <2>1, AckInit, TurnIsStage
<1>2. (AckInv => \A c \in Conn : Turn(c) = Stage(c))'
  BY TurnIsStage, PTL
<1>3. AckInv /\ AckInv' /\ [Next]_vars => [RR!Next]_turn
  <2> SUFFICES ASSUME AckInv, AckInv', [Next]_vars
               PROVE  RR!Next \/ turn' = turn
    BY Zenon
  <2>1. \A c \in Conn : Turn(c) = Stage(c) /\ Turn(c)' = Stage(c)'
    BY <1>2, TurnIsStage
  <2>2. Turning
    BY AckStep
  <2>3. CASE Steady(Conn)
    BY <2>1, <2>3 DEF Steady
  <2>4. ASSUME NEW c \in Conn, NEW from, NEW to, Passes(c, from, to)
        PROVE  RR!Pass(c, from, to)
    BY <2>1, <2>4 DEF Passes, Steady, RR!Pass
  <2>5. ASSUME NEW c \in Conn, Stage(c)' = "closed", Steady(Conn \ {c})
        PROVE  RR!Next
    <3>1. RR!Hangup({c})
      BY <2>1, <2>5 DEF Steady, RR!Hangup
    <3> QED BY <3>1 DEF RR!Next
  <2>6. CASE \A c \in Conn : Stage(c)' = "closed"
    <3>1. RR!Hangup(Conn)
      BY <2>1, <2>6 DEF RR!Hangup
    <3> QED BY <3>1 DEF RR!Next
  <2>7. ASSUME NEW c \in Conn, \/ Passes(c, "ask", "serve") \/ Passes(c, "serve", "answer")
                               \/ Passes(c, "answer", "ask")
        PROVE  RR!Next
    <3>1. RR!Ask(c) \/ RR!Serve(c) \/ RR!Answer(c)
      BY <2>4, <2>7 DEF RR!Ask, RR!Serve, RR!Answer
    <3> QED BY <3>1 DEF RR!Next
  <2> QED BY <2>2, <2>3, <2>5, <2>6, <2>7 DEF Turning
<1> QED BY <1>1, <1>3, AckInvariant, PTL DEF Spec, IsRequestReply, RR!Spec, RR!Init, turn
===============================================================================
