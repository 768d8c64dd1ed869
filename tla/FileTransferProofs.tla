---------------------------- MODULE FileTransferProofs --------------------------
(***************************************************************************)
(* What holds of FileTransfer for any number of clients and connections,   *)
(* any names and sizes of files, any chunk, buffer and window, and whoever *)
(* leaves or is killed when: every call of Recv returns what the other     *)
(* side sent for it (InFrame), what a put that returned 0 has sent reaches *)
(* the server (PutArrives), and a transfer that no other one disturbs      *)
(* copies the file (CopyExact).                                            *)
(*                                                                         *)
(* A request and a reply are described by position: Requests(...)[i] is    *)
(* the set of the units that may stand at position i, and Along says that  *)
(* a sequence stands there from some position on.  The inductive invariant *)
(* Inv then says how far each side has come (Begun, Sent, Taken, Given)    *)
(* and that whatever is received, on the wire or still to be sent stands   *)
(* between the two, in this order (Request, Reply).  ServerFile and        *)
(* ClientFile tell what has been written or read of the file at that       *)
(* point; Clash names the uploads that may disturb each other.             *)
(*                                                                         *)
(* Each lemma ...Keeps shows of one step that Inv still holds.             *)
(***************************************************************************)
EXTENDS FileTransfer, SequenceTheorems, FiniteSetTheorems, TLAPS

(***************************************************************************)
(* The inductive invariant.                                                *)
(***************************************************************************)
\* The stages of a thread in which it reads a request, and those of a get that has
\* sent its request.
Early == {"none", "prot", "get_url", "put_name", "put_prot", "put_length", "put_data"}
GetAt == {"get_name", "get_file", "get_file_name", "get_data"}

\* Client u has a connection and no call of it has failed.
Live(u) == cl[u].at \notin {"new", "failed", "gone"} /\ io[Client(u)].rc = 0

\* The units a stage asks for; the call of p has asked for n.
ServerAsks(k) ==
    CASE srv[k].at \in {"prot", "put_prot"} -> 2
      [] srv[k].at \in {"get_url", "put_name", "put_length"} -> 1
      [] srv[k].at = "put_data" -> FileChunk(srv[k].left)
      [] OTHER -> 0
ClientAsks(u) ==
    CASE cl[u].at = "get_file" -> 2
      [] cl[u].at = "get_file_name" -> 1
      [] cl[u].at = "get_data" -> FileChunk(cl[u].left)
      [] OTHER -> 0
Asked(p, n) ==
    IF n = 0 THEN io[p].want = 0
             ELSE io[p].want = n - Len(io[p].got) /\ io[p].out = <<>>

\* What is asked for; a call fails before its thread has read a request
\* only when the client is gone and was in no put that returned 0.
ServerCalls(k) ==
    /\ Failed(Server(k)) => io[Server(k)] = [NoCall EXCEPT !.rc = -1]
    /\ io[Server(k)].rc = 0 => Asked(Server(k), ServerAsks(k))
    /\ srv[k].at \notin Reading => io[Server(k)].out = <<>>
    /\ srv[k].at = "none" => io[Server(k)] = NoCall
    /\ srv[k].at = "done" => io[Server(k)].rc = 0
    /\ srv[k].at = "leaked" => Failed(Server(k))
    /\ srv[k].at \in Early \union Reading \union {"leaked"} /\ Failed(Server(k)) =>
         ~open[k]["client"] /\ k \notin put
ClientCalls(u) ==
    /\ Failed(Client(u)) => io[Client(u)] = [NoCall EXCEPT !.rc = -1]
    /\ cl[u].at = "failed" => Returned(Client(u))
    /\ cl[u].at \in {"new", "gone"} => io[Client(u)] = NoCall
    /\ cl[u].at \in {"put_prot", "get_prot"} => cl[u].name \in Name
    /\ cl[u].at = "prompt" => io[Client(u)].rc = 0
    /\ Live(u) =>
         /\ Asked(Client(u), ClientAsks(u))
         /\ cl[u].at = "prompt" => io[Client(u)].out = <<>>
         /\ ClientAsks(u) = 0 /\ cl[u].at # "prompt" => io[Client(u)].got = <<>>

\* Who has which connection, and what is open.
ClientLink(u) ==
    /\ cl[u].at \notin {"new", "gone"} => cl[u].conn # 0 /\ open[cl[u].conn]["client"]
    /\ cl[u].at \in {"new", "gone"} /\ cl[u].conn # 0 => ~open[cl[u].conn]["client"]
    /\ cl[u].conn # 0 => ~Free(cl[u].conn)
    /\ \A v \in User : cl[u].conn = cl[v].conn /\ cl[u].conn # 0 => u = v
ServerLink(k) ==
    /\ Free(k) => /\ k \notin put /\ k \notin shared
                  /\ src[k] = Unopened /\ wire[k]["client"] = <<>>
    /\ srv[k].at \in Early => wire[k]["server"] = <<>> /\ k \notin reset
    /\ srv[k].at \in Reading /\ open[k]["client"] => k \notin reset
    /\ srv[k].at \in {"ended", "leaked"} => ~open[k]["server"]
    /\ srv[k].at \notin {"none", "ended", "leaked"} => open[k]["server"]
    /\ open[k]["client"] /\ srv[k].at = "none" => open[k]["server"]

\* Chunk number j of a file, from 0, comes after Block(j) pieces.
Block(j) == j * FILE_BUFF_SIZE

\* Unit i of a connection whose first command has this type and this name, and puts
\* file F, can be x; what follows the command can be anything.
Requested(F, type, nm, i, x) ==
    /\ i \in {1, 2} => x = Prot(type)[i]
    /\ i = 3 => x = NameUnit(nm)[1] /\ nm \in Name
    /\ type = MSG_PUT =>
         /\ i \in {4, 5} => x = FileProt(Len(F))[i - 3] /\ F # Unopened
         /\ \A j \in Nat : Block(j) < Len(F) =>
              /\ i = 6 + Block(j) + j => x = ChunkLength(FileChunk(Len(F) - Block(j)))[1]
              /\ \A r \in 1 .. FileChunk(Len(F) - Block(j)) :
                   i = 6 + Block(j) + j + r => x = Data(F)[Block(j) + r]
Requests(F, type, nm) == [i \in Nat |-> {x \in Unit : Requested(F, type, nm, i, x)}]

\* The first p units hold all of a put of file F.
Whole(F, p) ==
    /\ p >= 5
    /\ \A j \in Nat : Block(j) < Len(F) =>
         p >= 6 + Block(j) + j + FileChunk(Len(F) - Block(j))

\* The units of s can follow the first a units of what R describes.
Along(R, s, a) == \A i \in 1 .. Len(s) : s[i] \in R[a + i]

\* The call of thread k began after the first a units; the call of client u
\* will have sent the first b units.
Begun(k, type, nm, a) ==
    \/ srv[k].at \in {"none", "prot"} /\ a = 0
    \/ srv[k].at = "get_url" /\ type = MSG_GET /\ a = 2
    \/ srv[k].at = "put_name" /\ type = MSG_PUT /\ a = 2
    \/ srv[k].at = "put_prot" /\ type = MSG_PUT /\ nm = srv[k].name /\ a = 3
    \/ \E j \in Nat :
         /\ srv[k].off = Block(j) /\ type = MSG_PUT /\ nm = srv[k].name
         /\ \/ srv[k].at = "put_length" /\ a = 5 + Block(j) + j
            \/ srv[k].at = "put_data" /\ a = 6 + Block(j) + j
Sent(u, F, type, nm, b) ==
    \/ cl[u].at = "prompt" /\ b = 0
    \/ /\ nm = cl[u].name /\ type = MSG_GET
       /\ \/ cl[u].at = "get_prot" /\ b = 2
          \/ cl[u].at \in GetAt /\ b = 3
    \/ /\ nm = cl[u].name /\ type = MSG_PUT
       /\ \/ cl[u].at = "put_prot" /\ b = 2
          \/ cl[u].at = "put_name" /\ b = 3
          \/ cl[u].at \in {"put_file", "put_data"} /\ cl[u].file = NoFile /\ Whole(F, b)
          \/ \E j \in Nat :
               /\ Len(F) - Len(cl[u].file) = Block(j) /\ cl[u].file # NoFile
               /\ \/ cl[u].at \in {"put_file", "put_data"} /\ b = 5 + Block(j) + j
                  \/ cl[u].at = "put_length" /\ b = 6 + Block(j) + j

\* What is on its way to thread k, and what its client has still to send, continue the
\* request.
Incoming(k) == io[Server(k)].got \o wire[k]["client"]
Request(k) ==
    open[k]["server"] /\ srv[k].at \in Early /\ io[Server(k)].rc = 0 =>
      \E type \in {MSG_PUT, MSG_GET}, nm \in Nat, a \in Nat :
        LET R == Requests(src[k], type, nm)
            m == a + Len(Incoming(k))
        IN
        /\ Begun(k, type, nm, a) /\ Along(R, Incoming(k), a)
        /\ k \in put => type = MSG_PUT /\ Whole(src[k], m)
        /\ \A u \in User : cl[u].conn = k /\ Live(u) /\ cl[u].first =>
             /\ Along(R, io[Client(u)].out, m)
             /\ Sent(u, src[k], type, nm, m + Len(io[Client(u)].out))

\* Unit i of the reply of connection k to a get of file nm that found F can be x; when two
\* had the file open, k is in S and the pieces can be any.
Replied(k, S, F, nm, i, x) ==
    /\ i \in {1, 2} => x = FileProt(Len(F))[i]
    /\ i = 3 => x = NameUnit(nm)[1]
    /\ i > 3 => i - 3 <= Len(F) /\ x[1] = "data" /\ (k \notin S => x = Data(F)[i - 3])
Replies(k, S, F, nm) == [i \in Nat |-> {x \in Unit : Replied(k, S, F, nm, i, x)}]

Taken(u) ==
    CASE cl[u].at = "get_file_name" -> 2
      [] cl[u].at = "get_data" -> 3 + Len(cl[u].file)
      [] OTHER -> 0
Given(k) ==
    CASE srv[k].at = "get_prot" -> 2
      [] srv[k].at = "get_name" -> 3
      [] OTHER -> 3 + srv[k].off
Outgoing(u, k) == io[Client(u)].got \o wire[k]["server"] \o io[Server(k)].out

\* The first command of a connection, when it is a get, has its reply; there is no
\* other reply.
Reply(u) ==
    LET k == cl[u].conn IN
    Live(u) =>
      IF cl[u].first /\ cl[u].at \in GetAt
      THEN /\ Along(Replies(k, shared, src[k], cl[u].name), Outgoing(u, k), Taken(u))
           /\ srv[k].at \in Reading =>
                /\ Taken(u) + Len(Outgoing(u, k)) = Given(k)
                /\ srv[k].name = cl[u].name
           /\ srv[k].at \in Early =>
                cl[u].at \in {"get_name", "get_file"} /\ io[Client(u)].got = <<>>
      ELSE /\ wire[k]["server"] = <<>> /\ io[Server(k)].out = <<>>
           /\ cl[u].at # "prompt" => io[Client(u)].got = <<>>
           /\ srv[k].at \in Reading => ~cl[u].first /\ srv[k].at # "get_prot" /\ srv[k].left = 0
           /\ ~cl[u].first /\ k \notin put => srv[k].at \notin Early
           /\ cl[u].at \notin {"get_file_name", "get_data"}

\* What client c has of its file F, which it puts or gets, and a thread of its own.
PutFile(c, F) ==
    /\ c.at \in {"prompt", "put_prot", "put_name"} => F = Unopened
    /\ c.at \in {"put_file", "put_length", "put_data"} =>
         /\ F # Unopened /\ Len(c.file) <= Len(F)
         /\ \A i \in 1 .. Len(c.file) : c.file[i] = F[Len(F) - Len(c.file) + i]
GotFile(c, F, S) ==
    /\ c.at = "get_file_name" => c.left = Len(F)
    /\ c.at = "get_data" =>
         /\ c.left > 0 /\ c.left + Len(c.file) = Len(F)
         /\ c.conn \notin S => \A i \in 1 .. Len(c.file) : c.file[i] = F[i]
ClientFile(u) ==
    Live(u) /\ cl[u].first =>
      PutFile(cl[u], src[cl[u].conn]) /\ GotFile(cl[u], src[cl[u].conn], shared)
ServerFile(k) ==
    LET s == srv[k] IN
    /\ s.at \in Writing \union Reading => s.name \in DOMAIN store /\ s.off + s.left = Len(src[k])
    /\ s.at \in (Early \ Writing) \union {"get_prot", "get_name"} => s.off = 0
    /\ s.at \in Writing => s.left > 0 /\ src[k] # Unopened
    /\ s.at \in Writing \union {"put_prot"} => s.name \in Name
    /\ s.at \in Reading => k \notin put
    /\ k \notin shared =>
         /\ s.at \in Writing => store[s.name] = SubSeq(src[k], 1, s.off)
         /\ s.at \in Reading => store[s.name] = src[k]
Clash(j, k) ==
    j # k /\ srv[k].at \in Writing /\ srv[j].at \in Writing \union Reading
          /\ srv[j].name = srv[k].name => {j, k} \subseteq shared

Inv ==
    /\ TypeOK
    /\ \A k \in Conn : ServerCalls(k) /\ ServerLink(k) /\ Request(k) /\ ServerFile(k)
    /\ \A u \in User : ClientCalls(u) /\ ClientLink(u) /\ Reply(u) /\ ClientFile(u)
    /\ \A j, k \in Conn : Clash(j, k)
-------------------------------------------------------------------------------
(* Sequences. *)

\* Part of a sequence is taken, and the rest is left.
LEMMA Cut ==
  ASSUME NEW s \in Seq(Unit), NEW n \in 1 .. Len(s)
  PROVE  /\ SubSeq(s, 1, n) \in Seq(Unit) /\ SubSeq(s, n + 1, Len(s)) \in Seq(Unit)
         /\ SubSeq(s, 1, n) # <<>> /\ Len(SubSeq(s, 1, n)) = n
         /\ SubSeq(s, 1, n) \o SubSeq(s, n + 1, Len(s)) = s
<1>1. Len(s) \in Nat /\ s \in [1 .. Len(s) -> Unit]
  BY LenProperties
<1>2. SubSeq(s, 1, n) \in Seq(Unit) /\ Len(SubSeq(s, 1, n)) = n
  <2>1. \A i \in 1 .. n : s[i] \in Unit
    BY <1>1
  <2> QED BY <1>1, <2>1, SubSeqProperties
<1>3. SubSeq(s, n + 1, Len(s)) \in Seq(Unit)
  <2>1. \A i \in n + 1 .. Len(s) : s[i] \in Unit
    BY <1>1
  <2>2. n + 1 \in Int /\ Len(s) \in Int
    BY <1>1
  <2> QED BY <2>1, <2>2, SubSeqProperties
<1>4. SubSeq(s, 1, n) # <<>>
  BY <1>2, EmptySeq
<1>5. SubSeq(s, 1, n) \o SubSeq(s, n + 1, Len(s)) = s
  <2>1. SubSeq(s, 1, n) \o SubSeq(s, n + 1, Len(s)) = SubSeq(s, 1, Len(s))
    <3>1. 1 \in 1 .. Len(s) + 1 /\ n \in 1 - 1 .. Len(s) /\ Len(s) \in n .. Len(s)
      BY <1>1
    <3> QED BY <3>1, ConcatAdjacentSubSeq
  <2> QED BY <2>1, SubSeqFull
<1> QED BY <1>2, <1>3, <1>4, <1>5

\* Concatenation under a name of its own, which keeps the provers from unfolding it.
Cat(s, t) == s \o t

\* Appending, hidden behind Cat, associates.
LEMMA Assoc ==
  ASSUME NEW s \in Seq(Unit), NEW t \in Seq(Unit), NEW u \in Seq(Unit)
  PROVE  Cat(s, t) \in Seq(Unit) /\ Cat(Cat(s, t), u) = Cat(s, Cat(t, u))
  BY ConcatAssociative, ConcatProperties DEF Cat

\* The length of two sequences of units appended.
LEMMA Concat ==
  ASSUME NEW s \in Seq(Unit), NEW t \in Seq(Unit)
  PROVE  s \o t \in Seq(Unit) /\ Len(s \o t) = Len(s) + Len(t)
  BY ConcatProperties

\* What moves from the front of one sequence to the end of the one before it stays
\* where it was in both together.
LEMMA Moved ==
  ASSUME NEW g \in Seq(Unit), NEW s \in Seq(Unit), NEW n \in 1 .. Len(s)
  PROVE  (g \o SubSeq(s, 1, n)) \o SubSeq(s, n + 1, Len(s)) = g \o s
<1> DEFINE f == SubSeq(s, 1, n)
           r == SubSeq(s, n + 1, Len(s))
<1>1. f \in Seq(Unit) /\ r \in Seq(Unit) /\ f \o r = s
  BY Cut
<1> HIDE DEF f, r
<1>2. Cat(Cat(g, f), r) = Cat(g, Cat(f, r))
  BY <1>1, Assoc
<1>3. (g \o f) \o r = g \o s
  BY <1>1, <1>2, Zenon DEF Cat
<1> QED BY <1>3, Zenon DEF f, r

-------------------------------------------------------------------------------
(* Threads and their calls. *)

\* The two ends of a connection.
LEMMA Sides == /\ Side = {"client", "server"}
               /\ Peer("client") = "server" /\ Peer("server") = "client"
  BY DEF Side, Peer

\* Every client and every thread of the server has calls of its own.
LEMMA Threads ==
  /\ \A u \in User : Client(u) \in Thread
  /\ \A k \in Conn : Server(k) \in Thread
  /\ \A u, v \in User : Client(u) = Client(v) => u = v
  /\ \A j, k \in Conn : Server(j) = Server(k) => j = k
  /\ \A u \in User, k \in Conn : Client(u) # Server(k)
  BY DEF Thread, Client, Server

Call == [rc : {0, -1}, out : Seq(Unit), want : Nat, got : Seq(Unit)]

\* A thread that is in no call.
LEMMA NoCalls == NoCall \in Call /\ NoCall.rc = 0 /\ NoCall.out = <<>> /\ NoCall.want = 0
                   /\ NoCall.got = <<>>
  BY EmptySeq DEF NoCall, Call

\* Only the call of p changes, and of the wires only that of connection c from side s.
Only(p) == \A q \in Thread : q # p => io'[q] = io[q]
Touch(c, s) == \A d \in Conn, t \in Side : d # c \/ t # s => wire'[d][t] = wire[d][t]

\* A recv() that returns: units move from the wire to the receiver, in order.
LEMMA Receives ==
  ASSUME StreamTypeOK(Thread, Unit), NEW p \in Thread, NEW c \in Conn, NEW s \in Side,
         NEW t \in Side, t = Peer(s), RecvSome(p, c, s)
  PROVE  /\ StreamTypeOK(Thread, Unit)' /\ UNCHANGED <<open, reset>>
         /\ Only(p) /\ Touch(c, t)
         /\ io[p].want > 0 /\ open[c][s]
         /\ io'[p].rc = io[p].rc /\ io'[p].out = io[p].out
         /\ io'[p].want + Len(io'[p].got) = io[p].want + Len(io[p].got)
         /\ io'[p].got \o wire'[c][t] = io[p].got \o wire[c][t]
         /\ wire[c][t] # <<>> /\ io'[p].got # <<>>
<1> DEFINE in == wire[c][t]
<1>1. /\ io \in [Thread -> Call] /\ wire \in [Conn -> [Side -> Seq(Unit)]]
      /\ io[p] \in Call /\ in \in Seq(Unit) /\ Len(in) \in Nat
  BY LenProperties DEF StreamTypeOK, Call
<1>2. io[p].want \in Nat /\ io[p].want > 0 /\ open[c][s] /\ io[p].got \in Seq(Unit)
  BY <1>1 DEF RecvSome, Call
<1>3. PICK n \in 1 .. Min({Chunk(io[p].want), Len(in)}) :
           /\ io' = [io EXCEPT ![p].want = @ - n, ![p].got = @ \o SubSeq(in, 1, n)]
           /\ wire' = [wire EXCEPT ![c][t] = SubSeq(@, n + 1, Len(@))]
  BY DEF RecvSome
<1>4. n \in 1 .. Len(in) /\ n <= io[p].want
  <2>1. ASSUME NEW a \in Nat, NEW b \in Nat PROVE Min({a, b}) = IF a <= b THEN a ELSE b
    BY DEF Min
  <2>2. Chunk(io[p].want) \in Nat /\ Chunk(io[p].want) <= io[p].want
    BY <1>2, <2>1, SocketAssumption DEF Chunk
  <2>3. PICK a \in Nat, b \in Nat : a = Chunk(io[p].want) /\ b = Len(in) /\ a <= io[p].want
    BY <1>1, <2>2
  <2>4. Min({a, b}) = IF a <= b THEN a ELSE b
    BY <2>1
  <2>5. n \in 1 .. (IF a <= b THEN a ELSE b)
    BY <2>3, <2>4
  <2>6. n \in 1 .. b /\ n <= a
    BY <2>5
  <2> QED BY <1>2, <2>3, <2>6
<1> DEFINE f == SubSeq(in, 1, n)
           r == SubSeq(in, n + 1, Len(in))
<1>5. f \in Seq(Unit) /\ r \in Seq(Unit) /\ f # <<>> /\ Len(f) = n /\ in # <<>>
  <2>1. in # <<>>
    BY <1>1, <1>4
  <2> QED BY <1>1, <1>4, <2>1, Cut
<1>6. (io[p].got \o f) \o r = io[p].got \o in
  BY <1>1, <1>2, <1>4, Moved
<1>7. /\ io[p].got \o f \in Seq(Unit) /\ Len(io[p].got \o f) = Len(io[p].got) + n
      /\ Len(io[p].got) \in Nat
  BY <1>2, <1>5, Concat, LenProperties
<1>8. io[p].got \o f # <<>>
  <2>1. Len(io[p].got \o f) # 0
    BY <1>4, <1>7
  <2> QED BY <1>7, <2>1, EmptySeq
<1>9. /\ io' = [io EXCEPT ![p].want = io[p].want - n, ![p].got = io[p].got \o f]
      /\ wire' = [wire EXCEPT ![c][t] = r]
  BY <1>3
<1>10. UNCHANGED <<open, reset>>
  BY DEF RecvSome
<1> HIDE DEF f, r, in
<1>11. /\ io'[p].want = io[p].want - n /\ io'[p].got = io[p].got \o f
       /\ io'[p].rc = io[p].rc /\ io'[p].out = io[p].out
       /\ \A q \in Thread : q # p => io'[q] = io[q]
  BY <1>1, <1>9 DEF Call
<1>12. /\ wire'[c][t] = r
       /\ \A d \in Conn, u \in Side : d # c \/ u # t => wire'[d][u] = wire[d][u]
  BY <1>1, <1>9
<1>13. StreamTypeOK(Thread, Unit)'
  <2>1. io' \in [Thread -> Call]
    BY <1>1, <1>2, <1>4, <1>7, <1>9 DEF Call
  <2>2. wire' \in [Conn -> [Side -> Seq(Unit)]]
    BY <1>1, <1>5, <1>9
  <2> QED BY <1>10, <2>1, <2>2 DEF StreamTypeOK, Call
<1>14. io[p].want - n + Len(io[p].got \o f) = io[p].want + Len(io[p].got)
  BY <1>2, <1>4, <1>7
<1> QED
  BY <1>2, <1>5, <1>6, <1>8, <1>10, <1>11, <1>12, <1>13, <1>14 DEF Only, Touch, in

\* A send() that returns: units move from the sender to the wire, in order, as long
\* as the peer is there.
SentOver(p, c, s, t) ==
    /\ StreamTypeOK(Thread, Unit)' /\ UNCHANGED open
    /\ Only(p) /\ Touch(c, s)
    /\ io[p].out # <<>> /\ open[c][s] /\ c \notin reset
    /\ io'[p].rc = io[p].rc /\ io'[p].want = io[p].want /\ io'[p].got = io[p].got
    /\ \/ /\ open[c][t] /\ reset' = reset /\ wire'[c][s] # <<>>
          /\ \A g \in Seq(Unit) :
               (g \o wire'[c][s]) \o io'[p].out = (g \o wire[c][s]) \o io[p].out
       \/ ~open[c][t] /\ reset' = reset \union {c} /\ wire' = wire

\* One send() of the loop in Send: a prefix of what is left goes onto the wire.
LEMMA Sends ==
  ASSUME StreamTypeOK(Thread, Unit), NEW p \in Thread, NEW c \in Conn, NEW s \in Side,
         NEW t \in Side, t = Peer(s), SendSome(p, c, s)
  PROVE  SentOver(p, c, s, t)
<1> DEFINE out == io[p].out
           on  == wire[c][s]
<1>1. /\ io \in [Thread -> Call] /\ wire \in [Conn -> [Side -> Seq(Unit)]]
      /\ io[p] \in Call /\ on \in Seq(Unit) /\ out \in Seq(Unit) /\ reset \subseteq Conn
  BY DEF StreamTypeOK, Call
<1>2. out # <<>> /\ open[c][s] /\ c \notin reset /\ UNCHANGED open
  BY DEF SendSome
<1>3. PICK n \in 1 .. Len(out) :
           /\ io' = [io EXCEPT ![p].out = SubSeq(@, n + 1, Len(@))]
           /\ \/ /\ open[c][t]
                 /\ wire' = [wire EXCEPT ![c][s] = @ \o SubSeq(out, 1, n)]
                 /\ UNCHANGED reset
              \/ /\ ~open[c][t]
                 /\ reset' = reset \union {c} /\ UNCHANGED wire
  BY DEF SendSome
<1> DEFINE f == SubSeq(out, 1, n)
           r == SubSeq(out, n + 1, Len(out))
<1>4. f \in Seq(Unit) /\ r \in Seq(Unit) /\ f # <<>> /\ Len(f) = n /\ f \o r = out
  BY <1>1, Cut
<1>5. ASSUME NEW g \in Seq(Unit)
      PROVE  (g \o (on \o f)) \o r = (g \o on) \o out
  <2> HIDE DEF f, r, on, out
  <2>1. g \in Seq(Unit) /\ on \in Seq(Unit) /\ f \in Seq(Unit) /\ r \in Seq(Unit)
    BY <1>1, <1>4
  <2>2. Cat(Cat(g, Cat(on, f)), r) = Cat(Cat(g, on), Cat(f, r))
    BY ONLY <2>1, Assoc
  <2> QED BY <1>4, <2>2, Zenon DEF Cat
<1>6. on \o f \in Seq(Unit) /\ on \o f # <<>>
  <2>1. on \o f \in Seq(Unit) /\ Len(on \o f) = Len(on) + n /\ Len(on) \in Nat
    BY <1>1, <1>4, Concat, LenProperties
  <2>2. Len(on \o f) # 0
    BY <2>1
  <2> QED BY <2>1, <2>2, EmptySeq
<1>7. /\ io' = [io EXCEPT ![p].out = r]
      /\ \/ open[c][t] /\ wire' = [wire EXCEPT ![c][s] = on \o f] /\ UNCHANGED reset
         \/ ~open[c][t] /\ reset' = reset \union {c} /\ UNCHANGED wire
  BY <1>3
<1> HIDE DEF f, r, out, on
<1>8. /\ io'[p].want = io[p].want /\ io'[p].got = io[p].got
      /\ io'[p].rc = io[p].rc /\ io'[p].out = r
      /\ \A q \in Thread : q # p => io'[q] = io[q]
      /\ io' \in [Thread -> Call]
  BY <1>1, <1>4, <1>7 DEF Call
<1>9. CASE open[c][t] /\ wire' = [wire EXCEPT ![c][s] = on \o f] /\ UNCHANGED reset
  <2>1. /\ wire'[c][s] = on \o f
        /\ \A d \in Conn, u \in Side : d # c \/ u # s => wire'[d][u] = wire[d][u]
        /\ wire' \in [Conn -> [Side -> Seq(Unit)]]
    BY <1>1, <1>6, <1>9
  <2>2. StreamTypeOK(Thread, Unit)'
    BY <1>2, <1>8, <1>9, <2>1 DEF StreamTypeOK, Call
  <2> QED BY <1>2, <1>5, <1>6, <1>8, <1>9, <2>1, <2>2, ZenonT(60) DEF SentOver, Only, Touch, on, out
<1>10. CASE ~open[c][t] /\ reset' = reset \union {c} /\ UNCHANGED wire
  <2>1. StreamTypeOK(Thread, Unit)'
    BY <1>1, <1>2, <1>8, <1>10 DEF StreamTypeOK, Call
  <2> QED BY <1>2, <1>8, <1>10, <2>1 DEF SentOver, Only, Touch, out
<1> QED BY <1>7, <1>9, <1>10

\* A call that fails, one that begins and one that nobody makes.
LEMMA FailsCall ==
  ASSUME StreamTypeOK(Thread, Unit), NEW p \in Thread, Fail(p)
  PROVE  /\ StreamTypeOK(Thread, Unit)' /\ UNCHANGED <<wire, open, reset>> /\ Only(p)
         /\ io'[p].rc = -1 /\ io'[p].out = <<>> /\ io'[p].want = 0 /\ io'[p].got = <<>>
         /\ ~Returned(p)
<1>1. io' = [io EXCEPT ![p] = [NoCall EXCEPT !.rc = -1]] /\ UNCHANGED <<wire, open, reset>>
  BY DEF Fail
<1>2. io \in [Thread -> Call]
  BY DEF StreamTypeOK, Call
<1>3. /\ [NoCall EXCEPT !.rc = -1] \in Call
      /\ [NoCall EXCEPT !.rc = -1].rc = -1 /\ [NoCall EXCEPT !.rc = -1].out = <<>>
      /\ [NoCall EXCEPT !.rc = -1].want = 0 /\ [NoCall EXCEPT !.rc = -1].got = <<>>
  BY NoCalls DEF Call, NoCall
<1>4. io' \in [Thread -> Call] /\ io'[p] = [NoCall EXCEPT !.rc = -1] /\ Only(p)
  BY <1>1, <1>2, <1>3 DEF Only
<1> QED BY <1>1, <1>3, <1>4 DEF StreamTypeOK, Call, Fail

\* A call of Send has everything still to send.
LEMMA BeginsSend ==
  ASSUME StreamTypeOK(Thread, Unit), NEW p \in Thread, NEW u \in Seq(Unit), BeginSend(p, u)
  PROVE  /\ io' \in [Thread -> Call] /\ Only(p)
         /\ io'[p].rc = 0 /\ io'[p].out = u /\ io'[p].want = 0 /\ io'[p].got = <<>>
<1>1. io' = [io EXCEPT ![p] = [NoCall EXCEPT !.out = u]] /\ io \in [Thread -> Call]
  BY DEF BeginSend, StreamTypeOK, Call
<1>2. /\ [NoCall EXCEPT !.out = u] \in Call
      /\ [NoCall EXCEPT !.out = u].rc = 0 /\ [NoCall EXCEPT !.out = u].out = u
      /\ [NoCall EXCEPT !.out = u].want = 0 /\ [NoCall EXCEPT !.out = u].got = <<>>
  BY NoCalls DEF Call, NoCall
<1>3. io'[p] = [NoCall EXCEPT !.out = u] /\ Only(p) /\ io' \in [Thread -> Call]
  BY <1>1, <1>2 DEF Only
<1> QED BY <1>2, <1>3

\* A call of Recv has everything still to receive.
LEMMA BeginsRecv ==
  ASSUME StreamTypeOK(Thread, Unit), NEW p \in Thread, NEW n \in Nat, BeginRecv(p, n)
  PROVE  /\ io' \in [Thread -> Call] /\ Only(p)
         /\ io'[p].rc = 0 /\ io'[p].out = <<>> /\ io'[p].want = n /\ io'[p].got = <<>>
<1>1. io' = [io EXCEPT ![p] = [NoCall EXCEPT !.want = n]] /\ io \in [Thread -> Call]
  BY DEF BeginRecv, StreamTypeOK, Call
<1>2. /\ [NoCall EXCEPT !.want = n] \in Call
      /\ [NoCall EXCEPT !.want = n].rc = 0 /\ [NoCall EXCEPT !.want = n].out = <<>>
      /\ [NoCall EXCEPT !.want = n].want = n /\ [NoCall EXCEPT !.want = n].got = <<>>
  BY NoCalls DEF Call, NoCall
<1>3. io'[p] = [NoCall EXCEPT !.want = n] /\ Only(p) /\ io' \in [Thread -> Call]
  BY <1>1, <1>2 DEF Only
<1> QED BY <1>2, <1>3

\* close() takes from the other side's wire what was not read.
LEMMA Closes ==
  ASSUME StreamTypeOK(Thread, Unit), NEW c \in Conn, NEW s \in Side, NEW t \in Side,
         t = Peer(s), Close(c, s)
  PROVE  /\ wire' \in [Conn -> [Side -> Seq(Unit)]] /\ open' \in [Conn -> [Side -> BOOLEAN]]
         /\ reset' \subseteq Conn
         /\ Touch(c, t) /\ wire'[c][t] = <<>>
         /\ \A d \in Conn, u \in Side : d # c \/ u # s => open'[d][u] = open[d][u]
         /\ ~open'[c][s]
         /\ \A d \in Conn : d # c => (d \in reset' <=> d \in reset)
<1>1. /\ open' = [open EXCEPT ![c][s] = FALSE] /\ wire' = [wire EXCEPT ![c][t] = <<>>]
      /\ reset' = reset \/ reset' = reset \union {c}
      /\ wire \in [Conn -> [Side -> Seq(Unit)]] /\ open \in [Conn -> [Side -> BOOLEAN]]
      /\ reset \subseteq Conn
  BY DEF Close, StreamTypeOK
<1>2. <<>> \in Seq(Unit)
  BY EmptySeq
<1>3. /\ wire' \in [Conn -> [Side -> Seq(Unit)]] /\ wire'[c][t] = <<>> /\ Touch(c, t)
  BY <1>1, <1>2 DEF Touch
<1>4. /\ open' \in [Conn -> [Side -> BOOLEAN]] /\ ~open'[c][s]
      /\ \A d \in Conn, u \in Side : d # c \/ u # s => open'[d][u] = open[d][u]
  BY <1>1
<1> QED BY <1>1, <1>3, <1>4

-------------------------------------------------------------------------------
(* Numbers: the chunks of a file and where they are in a request. *)

\* The length of the next chunk of a file with n units left: the buffer or what is left.
LEMMA Chunks ==
  ASSUME NEW n \in Nat
  PROVE  /\ FileChunk(n) \in Nat /\ FileChunk(n) <= n /\ FileChunk(n) <= FILE_BUFF_SIZE
         /\ FileChunk(n) = n \/ FileChunk(n) = FILE_BUFF_SIZE
         /\ n > 0 => FileChunk(n) > 0
         /\ n <= FILE_BUFF_SIZE => FileChunk(n) = n
         /\ n > FILE_BUFF_SIZE => FileChunk(n) = FILE_BUFF_SIZE
<1>1. ASSUME NEW a \in Nat, NEW b \in Nat PROVE Min({a, b}) = IF a <= b THEN a ELSE b
  BY DEF Min
<1>2. FILE_BUFF_SIZE \in Nat \ {0}
  BY FileAssumption
<1> QED BY <1>1, <1>2 DEF FileChunk

\* Where the chunks of a file begin.
LEMMA Blocks ==
  /\ Block(0) = 0
  /\ \A j \in Nat : Block(j) \in Nat /\ Block(j + 1) = Block(j) + FILE_BUFF_SIZE
  /\ \A j \in Nat, i \in Nat : j < i => Block(j) + FILE_BUFF_SIZE <= Block(i)
<1>1. FILE_BUFF_SIZE \in Nat /\ FILE_BUFF_SIZE > 0
  BY FileAssumption
<1>2. Block(0) = 0
  BY <1>1 DEF Block
<1>3. ASSUME NEW j \in Nat PROVE Block(j) \in Nat /\ Block(j + 1) = Block(j) + FILE_BUFF_SIZE
  BY <1>1 DEF Block
<1>4. ASSUME NEW j \in Nat, NEW i \in Nat, j < i PROVE Block(j) + FILE_BUFF_SIZE <= Block(i)
  <2> DEFINE d == i - (j + 1)
  <2>1. d \in Nat /\ i = (j + 1) + d
    BY <1>4
  <2> HIDE DEF d
  <2>2. ((j + 1) + d) * FILE_BUFF_SIZE = (j * FILE_BUFF_SIZE + FILE_BUFF_SIZE) + d * FILE_BUFF_SIZE
    BY <1>1, <2>1
  <2>3. d * FILE_BUFF_SIZE \in Nat /\ j * FILE_BUFF_SIZE \in Nat
    BY <1>1, <2>1
  <2>4. Block(i) = (j * FILE_BUFF_SIZE + FILE_BUFF_SIZE) + d * FILE_BUFF_SIZE
    BY <2>1, <2>2, Zenon DEF Block
  <2>5. Block(j) = j * FILE_BUFF_SIZE
    BY DEF Block
  <2> HIDE DEF Block
  <2> QED BY <1>1, <2>3, <2>4, <2>5
<1> QED BY <1>2, <1>3, <1>4

\* A position after the fifth belongs to one chunk at most.
LEMMA OneChunk ==
  ASSUME NEW j \in Nat, NEW r \in 0 .. FILE_BUFF_SIZE, NEW i \in Nat, NEW q \in 0 .. FILE_BUFF_SIZE,
         6 + Block(j) + j + r = 6 + Block(i) + i + q
  PROVE  i = j /\ q = r
<1>1. FILE_BUFF_SIZE \in Nat /\ Block(j) \in Nat /\ Block(i) \in Nat
  BY FileAssumption, Blocks
<1>2. CASE i < j
  <2>1. Block(i) + FILE_BUFF_SIZE <= Block(j)
    BY <1>2, Blocks
  <2> QED BY <1>1, <1>2, <2>1
<1>3. CASE j < i
  <2>1. Block(j) + FILE_BUFF_SIZE <= Block(i)
    BY <1>3, Blocks
  <2> QED BY <1>1, <1>3, <2>1
<1>4. CASE i = j
  BY <1>1, <1>4
<1> QED BY <1>2, <1>3, <1>4

\* The sequences of a protocol.
LEMMA Units ==
  ASSUME NEW n \in Nat
  PROVE  /\ Prot(n) \in Seq(Unit) /\ Len(Prot(n)) = 2
         /\ Prot(n)[1] = <<"type", n>> /\ Prot(n)[2] = <<"length", 1>>
         /\ FileProt(n) \in Seq(Unit) /\ Len(FileProt(n)) = 2
         /\ FileProt(n)[1] = <<"name_length", 1>> /\ FileProt(n)[2] = <<"file_length", n>>
         /\ NameUnit(n) \in Seq(Unit) /\ Len(NameUnit(n)) = 1
         /\ NameUnit(n)[1] = <<"name", n>>
         /\ ChunkLength(n) \in Seq(Unit) /\ Len(ChunkLength(n)) = 1
         /\ ChunkLength(n)[1] = <<"chunk_length", n>>
<1>1. /\ <<"type", n>> \in Unit /\ <<"length", 1>> \in Unit /\ <<"name_length", 1>> \in Unit
      /\ <<"file_length", n>> \in Unit /\ <<"name", n>> \in Unit
      /\ <<"chunk_length", n>> \in Unit
  BY DEF Unit
<1>2. \A x \in Unit, y \in Unit : <<x, y>> \in Seq(Unit) /\ Len(<<x, y>>) = 2
  OBVIOUS
<1>3. \A x \in Unit : <<x>> \in Seq(Unit) /\ Len(<<x>>) = 1
  OBVIOUS
<1>4. Prot(n) \in Seq(Unit) /\ Len(Prot(n)) = 2
  BY <1>1, <1>2 DEF Prot
<1>5. FileProt(n) \in Seq(Unit) /\ Len(FileProt(n)) = 2
  BY <1>1, <1>2 DEF FileProt
<1>6. /\ NameUnit(n) \in Seq(Unit) /\ Len(NameUnit(n)) = 1
      /\ ChunkLength(n) \in Seq(Unit) /\ Len(ChunkLength(n)) = 1
  BY <1>1, <1>3 DEF NameUnit, ChunkLength
<1>7. /\ Prot(n)[1] = <<"type", n>> /\ Prot(n)[2] = <<"length", 1>>
      /\ FileProt(n)[1] = <<"name_length", 1>> /\ FileProt(n)[2] = <<"file_length", n>>
      /\ NameUnit(n)[1] = <<"name", n>> /\ ChunkLength(n)[1] = <<"chunk_length", n>>
  BY DEF Prot, FileProt, NameUnit, ChunkLength
<1> QED BY <1>4, <1>5, <1>6, <1>7

\* The units of a file, one by one.
LEMMA Datas ==
  ASSUME NEW f \in File
  PROVE  /\ Data(f) \in Seq(Unit) /\ Len(Data(f)) = Len(f)
         /\ \A i \in 1 .. Len(f) : Data(f)[i] = <<"data", f[i]>>
<1>1. Len(f) \in Nat /\ f \in [1 .. Len(f) -> Nat] /\ DOMAIN f = 1 .. Len(f)
  BY LenProperties DEF File
<1>2. Data(f) \in [1 .. Len(f) -> Unit]
  BY <1>1 DEF Data, Unit
<1>3. Data(f) \in Seq(Unit)
  BY <1>1, <1>2, SeqDef
<1>4. DOMAIN Data(f) = 1 .. Len(f)
  BY <1>2
<1>5. Len(Data(f)) = Len(f)
  BY <1>1, <1>3, <1>4, LenProperties
<1> QED BY <1>1, <1>3, <1>5 DEF Data

\* The pieces of a file that a sequence of units carries, one by one.
LEMMA Contents ==
  ASSUME NEW s \in Seq(Unit)
  PROVE  /\ Pieces(s) \in File /\ Len(Pieces(s)) = Len(s)
         /\ \A i \in 1 .. Len(s) : Pieces(s)[i] = s[i][2] /\ s[i] \in Unit /\ s[i][2] \in Nat
<1>1. Len(s) \in Nat /\ s \in [1 .. Len(s) -> Unit] /\ DOMAIN s = 1 .. Len(s)
  BY LenProperties
<1>2. \A x \in Unit : x[2] \in Nat
  BY DEF Unit
<1>3. Pieces(s) \in [1 .. Len(s) -> Nat]
  BY <1>1, <1>2 DEF Pieces
<1>4. Pieces(s) \in File
  BY <1>1, <1>3, SeqDef DEF File
<1>5. Len(Pieces(s)) = Len(s)
  BY <1>1, <1>3, <1>4, LenProperties DEF File
<1> QED BY <1>1, <1>2, <1>4, <1>5 DEF Pieces

\* A part of a file.
LEMMA Parts ==
  ASSUME NEW f \in File, NEW m \in Nat, NEW n \in Nat, m <= n, n <= Len(f)
  PROVE  /\ SubSeq(f, m + 1, n) \in File /\ Len(SubSeq(f, m + 1, n)) = n - m
         /\ \A i \in 1 .. n - m : SubSeq(f, m + 1, n)[i] = f[m + i]
<1>1. Len(f) \in Nat /\ f \in [1 .. Len(f) -> Nat]
  BY LenProperties DEF File
<1>2. \A i \in m + 1 .. n : f[i] \in Nat
  BY <1>1
<1>3. m + 1 \in Int /\ n \in Int
  OBVIOUS
<1>4. /\ SubSeq(f, m + 1, n) \in Seq(Nat)
      /\ Len(SubSeq(f, m + 1, n)) = IF m + 1 <= n THEN n - (m + 1) + 1 ELSE 0
      /\ \A i \in 1 .. n - (m + 1) + 1 : SubSeq(f, m + 1, n)[i] = f[(m + 1) + i - 1]
  BY <1>2, <1>3, SubSeqProperties
<1>5. Len(SubSeq(f, m + 1, n)) = n - m
  BY <1>4
<1>6. ASSUME NEW i \in 1 .. n - m PROVE SubSeq(f, m + 1, n)[i] = f[m + i]
  <2>1. i \in 1 .. n - (m + 1) + 1 /\ (m + 1) + i - 1 = m + i
    OBVIOUS
  <2> QED BY <1>4, <2>1
<1> QED BY <1>4, <1>5, <1>6 DEF File

\* A part is along what the whole is.
LEMMA AlongJoin ==
  ASSUME NEW R, NEW x \in Seq(Unit), NEW y \in Seq(Unit), NEW a \in Nat
  PROVE  Along(R, x \o y, a) <=> Along(R, x, a) /\ Along(R, y, a + Len(x))
<1>1. /\ Len(x) \in Nat /\ Len(y) \in Nat /\ Len(x \o y) = Len(x) + Len(y)
      /\ \A i \in 1 .. Len(x) + Len(y) : (x \o y)[i] = IF i <= Len(x) THEN x[i] ELSE y[i - Len(x)]
  BY ConcatProperties, LenProperties
<1>2. ASSUME Along(R, x \o y, a) PROVE Along(R, x, a)
  BY <1>1, <1>2 DEF Along
<1>3. ASSUME Along(R, x \o y, a) PROVE Along(R, y, a + Len(x))
  <2> SUFFICES ASSUME NEW i \in 1 .. Len(y) PROVE y[i] \in R[a + Len(x) + i]
    BY DEF Along
  <2>1. Len(x) + i \in 1 .. Len(x \o y) /\ a + (Len(x) + i) = a + Len(x) + i
    BY <1>1
  <2>2. (x \o y)[Len(x) + i] \in R[a + (Len(x) + i)]
    BY <1>3, <2>1 DEF Along
  <2>3. (x \o y)[Len(x) + i] = y[i]
    BY <1>1, <2>1
  <2> QED BY <2>1, <2>2, <2>3
<1>4. ASSUME Along(R, x, a), Along(R, y, a + Len(x)) PROVE Along(R, x \o y, a)
  <2> SUFFICES ASSUME NEW i \in 1 .. Len(x \o y) PROVE (x \o y)[i] \in R[a + i]
    BY DEF Along
  <2>1. CASE i <= Len(x)
    BY <1>1, <1>4, <2>1 DEF Along
  <2>2. CASE i > Len(x)
    <3>1. i - Len(x) \in 1 .. Len(y) /\ a + Len(x) + (i - Len(x)) = a + i
      BY <1>1, <2>2
    <3>2. y[i - Len(x)] \in R[a + Len(x) + (i - Len(x))]
      BY <1>4, <3>1 DEF Along
    <3> QED BY <1>1, <2>2, <3>1, <3>2
  <2> QED BY <1>1, <2>1, <2>2
<1> QED BY <1>2, <1>3, <1>4

\* Nothing stands anywhere.
LEMMA AlongNothing ==
  ASSUME NEW R, NEW a
  PROVE  Along(R, <<>>, a) /\ Len(<<>>) = 0
  BY DEF Along

-------------------------------------------------------------------------------
(* What R = Requests(F, type, nm) and Replies(F, nm, exact) allow. *)

\* The units that may stand at position i of a request.
LEMMA RequestIs ==
  ASSUME NEW F, NEW type, NEW nm, NEW i \in Nat, NEW x
  PROVE  x \in Requests(F, type, nm)[i] <=> x \in Unit /\ Requested(F, type, nm, i, x)
  BY DEF Requests

\* A chunk stands behind the header of its transfer.
LEMMA Later ==
  ASSUME NEW j \in Nat
  PROVE  /\ Block(j) \in Nat /\ 6 + Block(j) + j > 5
         /\ \A n \in Nat : \A r \in 1 .. n : 6 + Block(j) + j + r > 5
<1>1. Block(j) \in Nat
  BY Blocks
<1> QED BY <1>1

\* The chunk that begins at Block(j) lies inside the file.
LEMMA ChunkOf ==
  ASSUME NEW F \in File, NEW j \in Nat, Block(j) < Len(F)
  PROVE  /\ Len(F) \in Nat /\ Len(F) - Block(j) \in Nat
         /\ FileChunk(Len(F) - Block(j)) \in 1 .. FILE_BUFF_SIZE
         /\ Block(j) + FileChunk(Len(F) - Block(j)) <= Len(F)
<1>1. Len(F) \in Nat /\ Block(j) \in Nat /\ FILE_BUFF_SIZE \in Nat
  BY FileAssumption, Blocks, LenProperties DEF File
<1>2. Len(F) - Block(j) \in Nat /\ Len(F) - Block(j) > 0
  BY <1>1
<1>3. /\ FileChunk(Len(F) - Block(j)) \in Nat /\ FileChunk(Len(F) - Block(j)) > 0
      /\ FileChunk(Len(F) - Block(j)) <= FILE_BUFF_SIZE
      /\ FileChunk(Len(F) - Block(j)) <= Len(F) - Block(j)
  BY <1>2, Chunks
<1> QED BY <1>1, <1>2, <1>3

\* The header, the name, the file's length, and what follows a get.
LEMMA RequestBegins ==
  ASSUME NEW F \in File, NEW type \in {MSG_PUT, MSG_GET}, NEW nm, NEW x \in Unit, NEW i \in Nat,
         i <= 5 \/ type = MSG_GET,
         i \in {1, 2} => x = Prot(type)[i],
         i = 3 => x = NameUnit(nm)[1] /\ nm \in Name,
         i \in {4, 5} /\ type = MSG_PUT => x = FileProt(Len(F))[i - 3] /\ F # Unopened
  PROVE  x \in Requests(F, type, nm)[i]
<1>1. ASSUME type = MSG_PUT, NEW j \in Nat, Block(j) < Len(F)
      PROVE  /\ i # 6 + Block(j) + j
             /\ \A r \in 1 .. FileChunk(Len(F) - Block(j)) : i # 6 + Block(j) + j + r
  <2>1. i <= 5
    BY <1>1 DEF MSG_PUT, MSG_GET
  <2>2. FileChunk(Len(F) - Block(j)) \in Nat
    BY <1>1, ChunkOf
  <2>3. \A n \in Nat : \A r \in 1 .. n : 6 + Block(j) + j + r > 5
    BY Later
  <2>4. Block(j) \in Nat /\ 6 + Block(j) + j > 5
    BY Later
  <2> QED BY <2>1, <2>2, <2>3, <2>4
<1>2. Requested(F, type, nm, i, x)
  BY <1>1 DEF Requested
<1> QED BY <1>2, RequestIs

\* The rest of a put.
LEMMA RequestGoesOn ==
  ASSUME NEW F \in File, NEW nm, NEW j \in Nat, Block(j) < Len(F),
         NEW r \in 0 .. FileChunk(Len(F) - Block(j)), NEW x \in Unit,
         x = IF r = 0 THEN ChunkLength(FileChunk(Len(F) - Block(j)))[1] ELSE Data(F)[Block(j) + r]
  PROVE  x \in Requests(F, MSG_PUT, nm)[6 + Block(j) + j + r]
<1> DEFINE p == 6 + Block(j) + j + r
<1>1. Block(j) \in Nat /\ FileChunk(Len(F) - Block(j)) \in 1 .. FILE_BUFF_SIZE /\ FILE_BUFF_SIZE \in Nat
  BY ChunkOf, Later, FileAssumption
<1>2. r \in 0 .. FILE_BUFF_SIZE /\ p \in Nat /\ p > 5
  BY <1>1, SMTT(30)
<1>3. ASSUME NEW i \in Nat, Block(i) < Len(F), NEW q \in 0 .. FileChunk(Len(F) - Block(i)),
             p = 6 + Block(i) + i + q
      PROVE  i = j /\ q = r
  <2>1. q \in 0 .. FILE_BUFF_SIZE
    <3>1. FileChunk(Len(F) - Block(i)) \in 1 .. FILE_BUFF_SIZE
      BY <1>3, ChunkOf
    <3> QED BY <1>1, <3>1
  <2> QED BY <1>2, <1>3, <2>1, OneChunk
<1>4. ASSUME NEW i \in Nat, Block(i) < Len(F), p = 6 + Block(i) + i
      PROVE  i = j /\ 0 = r
  <2>1. FileChunk(Len(F) - Block(i)) \in 1 .. FILE_BUFF_SIZE /\ Block(i) \in Nat
    BY <1>4, ChunkOf, Later
  <2>2. 0 \in 0 .. FileChunk(Len(F) - Block(i)) /\ p = 6 + Block(i) + i + 0
    BY <1>1, <1>4, <2>1, SMTT(30)
  <2> QED BY <1>3, <1>4, <2>2
<1>5. ASSUME NEW i \in Nat, Block(i) < Len(F), NEW q \in 1 .. FileChunk(Len(F) - Block(i)),
             p = 6 + Block(i) + i + q
      PROVE  i = j /\ q = r /\ r # 0
  <2>1. FileChunk(Len(F) - Block(i)) \in 1 .. FILE_BUFF_SIZE
    BY <1>5, ChunkOf
  <2>2. q \in 0 .. FileChunk(Len(F) - Block(i)) /\ q # 0
    BY <1>1, <2>1
  <2> QED BY <1>3, <1>5, <2>2
<1> HIDE DEF p
<1>6. Requested(F, MSG_PUT, nm, p, x)
  BY <1>2, <1>4, <1>5 DEF Requested
<1>7. x \in Requests(F, MSG_PUT, nm)[p]
  BY <1>2, <1>6, RequestIs
<1> QED BY <1>7 DEF p

\* Anything follows a whole put.
LEMMA RequestEnds ==
  ASSUME NEW F \in File, NEW nm, NEW b \in Nat, Whole(F, b), NEW i \in Nat, i > b, NEW x \in Unit
  PROVE  x \in Requests(F, MSG_PUT, nm)[i]
<1>1. i > 5
  BY DEF Whole
<1>2. ASSUME NEW j \in Nat, Block(j) < Len(F)
      PROVE  /\ i # 6 + Block(j) + j
             /\ \A r \in 1 .. FileChunk(Len(F) - Block(j)) : i # 6 + Block(j) + j + r
  <2>1. b >= 6 + Block(j) + j + FileChunk(Len(F) - Block(j))
    BY <1>2 DEF Whole
  <2>2. FileChunk(Len(F) - Block(j)) \in Nat /\ Block(j) \in Nat
    BY <1>2, ChunkOf, Later, SMTT(30)
  <2>3. i > 6 + Block(j) + j + FileChunk(Len(F) - Block(j))
    BY <2>1, <2>2
  <2> HIDE DEF FileChunk
  <2> QED BY <2>2, <2>3
<1>3. Requested(F, MSG_PUT, nm, i, x)
  BY <1>1, <1>2 DEF Requested
<1> QED BY <1>3, RequestIs

\* Where the end of a request lies; kept apart for its arithmetic.
LEMMA Summed ==
  \A a, b, c, i, j, l \in Nat :
    i <= j /\ b + c <= l /\ l - a \in Nat => 6 + a + j + (l - a) >= 6 + b + i + c
  OBVIOUS

\* A put is whole when its last chunk is.
LEMMA LastChunk ==
  ASSUME NEW F \in File, NEW j \in Nat, Block(j) < Len(F), Len(F) <= Block(j) + FILE_BUFF_SIZE
  PROVE  Whole(F, 6 + Block(j) + j + FileChunk(Len(F) - Block(j)))
<1>1. Len(F) \in Nat /\ Block(j) \in Nat /\ FILE_BUFF_SIZE \in Nat /\ Len(F) - Block(j) \in Nat
  BY ChunkOf, Later, FileAssumption
<1>2. FileChunk(Len(F) - Block(j)) = Len(F) - Block(j)
  <2>1. Len(F) - Block(j) <= FILE_BUFF_SIZE
    BY <1>1
  <2> QED BY <1>1, <2>1, Chunks
<1>3. ASSUME NEW i \in Nat, Block(i) < Len(F)
      PROVE  6 + Block(j) + j + FileChunk(Len(F) - Block(j)) >=
               6 + Block(i) + i + FileChunk(Len(F) - Block(i))
  <2>1. /\ FileChunk(Len(F) - Block(i)) \in 1 .. FILE_BUFF_SIZE /\ Block(i) \in Nat
        /\ Block(i) + FileChunk(Len(F) - Block(i)) <= Len(F)
    BY <1>3, ChunkOf, Later
  <2>2. i <= j
    <3>1. ASSUME j < i PROVE FALSE
      <4>1. Block(j) + FILE_BUFF_SIZE <= Block(i)
        BY <3>1, Blocks
      <4> QED BY <1>1, <1>3, <2>1, <4>1
    <3> QED BY <3>1
  <2>3. PICK l \in Nat, b \in Nat, c \in Nat :
          l = Len(F) /\ b = Block(i) /\ c = FileChunk(Len(F) - Block(i)) /\ b + c <= l
    BY <1>1, <2>1
  <2>4. PICK a \in Nat : a = Block(j) /\ l - a \in Nat
    BY <1>1, <2>3
  <2>5. 6 + a + j + (l - a) >= 6 + b + i + c
    BY <2>2, <2>3, <2>4, Summed
  <2> QED BY <1>2, <2>3, <2>4, <2>5, Zenon
<1>4. 6 + Block(j) + j + FileChunk(Len(F) - Block(j)) >= 5
  BY <1>1, <1>2
<1> QED BY <1>3, <1>4 DEF Whole

\* An empty file is whole before its first chunk.
LEMMA NoChunk ==
  ASSUME NEW F \in File, Len(F) = 0
  PROVE  Whole(F, 5)
<1>1. \A j \in Nat : Block(j) \in Nat
  BY Blocks
<1> QED BY <1>1 DEF Whole

\* The units that may stand at position i of a reply.
LEMMA ReplyIs ==
  ASSUME NEW k, NEW S, NEW F, NEW nm, NEW i \in Nat, NEW x
  PROVE  x \in Replies(k, S, F, nm)[i] <=> x \in Unit /\ Replied(k, S, F, nm, i, x)
  BY DEF Replies

\* What two share later may be anything.
LEMMA ReplyLoose ==
  ASSUME NEW k, NEW S, NEW T, S \subseteq T, NEW F, NEW nm, NEW s, NEW a \in Nat, Len(s) \in Nat,
         Along(Replies(k, S, F, nm), s, a)
  PROVE  Along(Replies(k, T, F, nm), s, a)
<1>1. ASSUME NEW i \in 1 .. Len(s) PROVE s[i] \in Replies(k, T, F, nm)[a + i]
  <2>1. a + i \in Nat /\ s[i] \in Replies(k, S, F, nm)[a + i]
    BY DEF Along
  <2>2. s[i] \in Unit /\ Replied(k, S, F, nm, a + i, s[i])
    BY <2>1, ReplyIs
  <2>3. Replied(k, T, F, nm, a + i, s[i])
    BY <2>2 DEF Replied
  <2> QED BY <2>1, <2>2, <2>3, ReplyIs
<1> QED BY <1>1 DEF Along
-------------------------------------------------------------------------------
(* What a step leaves alone stays as it was. *)

\* The parts of TypeOK that the steps use.
LEMMA Types ==
  ASSUME TypeOK
  PROVE  /\ StreamTypeOK(Thread, Unit) /\ io \in [Thread -> Call]
         /\ \A p \in Thread : io[p] \in Call
         /\ \A k \in Conn : /\ srv[k] \in [at : ServerAt, name : Nat, left : Nat, off : Nat]
                            /\ wire[k]["client"] \in Seq(Unit) /\ wire[k]["server"] \in Seq(Unit)
                            /\ src[k] \in File /\ Len(src[k]) \in Nat
         /\ \A u \in User : /\ cl[u] \in [at : ClientAt, conn : Conn \union {0}, first : BOOLEAN,
                                          name : Nat, left : Nat, file : File]
                            /\ Len(cl[u].file) \in Nat
         /\ 0 \notin Conn
<1>1. StreamTypeOK(Thread, Unit) /\ io \in [Thread -> Call]
  BY DEF TypeOK, StreamTypeOK, Call
<1>2. \A k \in Conn : /\ srv[k] \in [at : ServerAt, name : Nat, left : Nat, off : Nat]
                     /\ src[k] \in File
  BY DEF TypeOK
<1>3. \A k \in Conn : wire[k]["client"] \in Seq(Unit) /\ wire[k]["server"] \in Seq(Unit)
  BY <1>1, Sides DEF StreamTypeOK
<1>4. \A u \in User : cl[u] \in [at : ClientAt, conn : Conn \union {0}, first : BOOLEAN,
                                 name : Nat, left : Nat, file : File]
  BY DEF TypeOK
<1>5. \A f \in File : Len(f) \in Nat
  BY LenProperties DEF File
<1>6. 0 \notin Conn
  BY FileAssumption
<1>7. \A u \in User : cl[u].file \in File
  BY <1>4
<1> QED BY <1>1, <1>2, <1>3, <1>4, <1>5, <1>6, <1>7

\* A thread on connection k and the client u on connection k: all that their steps change.
ServerMoves(k) ==
    /\ UNCHANGED <<cl, put>> /\ Only(Server(k))
    /\ \A j \in Conn \ {k} :
         /\ srv'[j] = srv[j] /\ src'[j] = src[j] /\ (j \in reset' <=> j \in reset)
         /\ \A s \in Side : wire'[j][s] = wire[j][s] /\ open'[j][s] = open[j][s]
         /\ j \in shared' => j \in shared \/ srv[j].at # "none"
         /\ srv[j].at \in Writing \union Reading /\ j \notin shared' =>
              store'[srv[j].name] = store[srv[j].name]
    /\ open'[k]["client"] = open[k]["client"] /\ srv'[k].at # "none"
    /\ shared \subseteq shared' /\ DOMAIN store \subseteq DOMAIN store'
ClientMoves(u, k) ==
    /\ UNCHANGED <<srv, store, shared>> /\ Only(Client(u))
    /\ cl'[u].conn = k /\ \A v \in User \ {u} : cl'[v] = cl[v]
    /\ \A j \in Conn \ {k} :
         /\ src'[j] = src[j] /\ (j \in reset' <=> j \in reset) /\ (j \in put' <=> j \in put)
         /\ \A s \in Side : wire'[j][s] = wire[j][s] /\ open'[j][s] = open[j][s]

\* It depends on these only.
LEMMA StillServerCalls ==
  ASSUME NEW k \in Conn, ServerCalls(k), srv'[k] = srv[k], io'[Server(k)] = io[Server(k)],
         srv[k].at \in Early \union Reading \union {"leaked"} /\ Failed(Server(k)) =>
           ~open'[k]["client"] /\ k \notin put'
  PROVE  ServerCalls(k)'
  BY DEF ServerCalls, Failed, ServerAsks, Asked

\* ClientCalls is kept by a step that leaves the client and its call alone.
LEMMA StillClientCalls ==
  ASSUME NEW u \in User, ClientCalls(u), cl'[u] = cl[u], io'[Client(u)] = io[Client(u)]
  PROVE  ClientCalls(u)' /\ (Live(u)' <=> Live(u))
  BY DEF ClientCalls, Failed, ClientAsks, Asked, Live, Returned

\* Request is kept by a step that touches neither the connection nor its client.
LEMMA StillRequest ==
  ASSUME NEW k \in Conn, Request(k), srv'[k] = srv[k], io'[Server(k)] = io[Server(k)],
         src'[k] = src[k], wire'[k]["client"] = wire[k]["client"],
         open'[k]["server"] = open[k]["server"], k \in put' => k \in put,
         \A u \in User : cl'[u].conn = k /\ Live(u)' /\ cl'[u].first =>
           cl'[u] = cl[u] /\ io'[Client(u)] = io[Client(u)] /\ Live(u)
  PROVE  Request(k)'
<1> SUFFICES ASSUME open[k]["server"], srv[k].at \in Early, io[Server(k)].rc = 0
             PROVE  Request(k)'
  BY DEF Request
<1>1. PICK type \in {MSG_PUT, MSG_GET}, nm \in Nat, a \in Nat :
        /\ Begun(k, type, nm, a) /\ Along(Requests(src[k], type, nm), Incoming(k), a)
        /\ k \in put => type = MSG_PUT /\ Whole(src[k], a + Len(Incoming(k)))
        /\ \A u \in User : cl[u].conn = k /\ Live(u) /\ cl[u].first =>
             /\ Along(Requests(src[k], type, nm), io[Client(u)].out, a + Len(Incoming(k)))
             /\ Sent(u, src[k], type, nm, a + Len(Incoming(k)) + Len(io[Client(u)].out))
  BY DEF Request
<1>2. Begun(k, type, nm, a)' /\ Incoming(k)' = Incoming(k)
  BY <1>1 DEF Begun, Incoming
<1>3. ASSUME NEW u \in User, cl'[u].conn = k, Live(u)', cl'[u].first
      PROVE  /\ Along(Requests(src[k], type, nm), io'[Client(u)].out, a + Len(Incoming(k)))
             /\ Sent(u, src[k], type, nm, a + Len(Incoming(k)) + Len(io[Client(u)].out))'
  <2>1. cl'[u] = cl[u] /\ io'[Client(u)] = io[Client(u)] /\ Live(u)
    BY <1>3
  <2>2. /\ Along(Requests(src[k], type, nm), io[Client(u)].out, a + Len(Incoming(k)))
        /\ Sent(u, src[k], type, nm, a + Len(Incoming(k)) + Len(io[Client(u)].out))
    BY <1>1, <1>3, <2>1
  <2>3. PICK F, m, cu : /\ F = src[k] /\ src'[k] = F /\ cu = cl[u] /\ cl'[u] = cu
                        /\ m = a + Len(Incoming(k)) + Len(io[Client(u)].out)
                        /\ a + Len(Incoming(k)') + Len(io'[Client(u)].out) = m
    BY <1>2, <2>1
  <2>4. Sent(u, F, type, nm, m)
    BY <2>2, <2>3, Zenon
  <2>5. Sent(u, src[k], type, nm, a + Len(Incoming(k)) + Len(io[Client(u)].out))'
    BY ONLY <2>3, <2>4, Zenon DEF Sent
  <2> QED BY <2>1, <2>2, <2>5, <1>2, Zenon
<1> QED BY <1>1, <1>2, <1>3, ZenonT(60) DEF Request

\* ClientLink is kept by a step that leaves the client and its end alone.
LEMMA StillClientLink ==
  ASSUME NEW u \in User, ClientLink(u), cl' = cl,
         cl[u].conn # 0 => open'[cl[u].conn]["client"] = open[cl[u].conn]["client"] /\ ~Free(cl[u].conn)'
  PROVE  ClientLink(u)'
  BY DEF ClientLink

\* The length of what is received, on the wire and still to be sent.
LEMMA Out3 ==
  ASSUME NEW c \in Call, NEW w \in Seq(Unit), NEW d \in Call
  PROVE  /\ c.got \o w \o d.out \in Seq(Unit)
         /\ Len(c.got \o w \o d.out) \in Nat
         /\ Len(c.got \o w \o d.out) = Len(c.got) + Len(w) + Len(d.out)
<1>1. c.got \in Seq(Unit) /\ d.out \in Seq(Unit)
  BY DEF Call
<1>2. c.got \o w \in Seq(Unit) /\ Len(c.got \o w) = Len(c.got) + Len(w)
  BY <1>1, Concat
<1> DEFINE b == c.got \o w
<1> HIDE DEF b
<1>3. b \o d.out \in Seq(Unit) /\ Len(b \o d.out) = Len(b) + Len(d.out)
  BY <1>1, <1>2, Concat DEF b
<1>4. Len(b \o d.out) \in Nat
  BY <1>3, LenProperties
<1> QED BY <1>2, <1>3, <1>4 DEF b

\* Reply is kept by a step that touches neither the client nor its connection.
LEMMA StillReply ==
  ASSUME NEW u \in User, Reply(u), TypeOK, cl'[u] = cl[u], io'[Client(u)] = io[Client(u)],
         cl[u].conn \in Conn, srv'[cl[u].conn] = srv[cl[u].conn],
         io'[Server(cl[u].conn)] = io[Server(cl[u].conn)],
         src'[cl[u].conn] = src[cl[u].conn], cl[u].conn \in put => cl[u].conn \in put',
         wire'[cl[u].conn]["server"] = wire[cl[u].conn]["server"], shared \subseteq shared'
  PROVE  Reply(u)'
<1> DEFINE k == cl[u].conn
<1>1. SUFFICES ASSUME Live(u) PROVE Reply(u)'
  BY DEF Reply, Live
<1>2. Outgoing(u, k)' = Outgoing(u, k) /\ Taken(u)' = Taken(u) /\ Given(k)' = Given(k)
  BY DEF Outgoing, Taken, Given
<1>3. CASE cl[u].first /\ cl[u].at \in GetAt
  <2>1. /\ Along(Replies(k, shared, src[k], cl[u].name), Outgoing(u, k), Taken(u))
        /\ srv[k].at \in Reading =>
             Taken(u) + Len(Outgoing(u, k)) = Given(k) /\ srv[k].name = cl[u].name
        /\ srv[k].at \in Early => cl[u].at \in {"get_name", "get_file"} /\ io[Client(u)].got = <<>>
    BY <1>1, <1>3 DEF Reply
  <2>2. Len(Outgoing(u, k)) \in Nat /\ Taken(u) \in Nat
    <3>1. io[Client(u)] \in Call /\ io[Server(k)] \in Call /\ wire[k]["server"] \in Seq(Unit)
      BY Types, Threads
    <3>2. Outgoing(u, k) \in Seq(Unit) /\ Len(Outgoing(u, k)) \in Nat
      BY <3>1, Out3, Zenon DEF Outgoing
    <3>3. Len(cl[u].file) \in Nat /\ 3 + Len(cl[u].file) \in Nat
      BY Types
    <3> QED BY <3>2, <3>3 DEF Taken
  <2>3. Along(Replies(k, shared', src[k], cl[u].name), Outgoing(u, k), Taken(u))
    <3> DEFINE s == Outgoing(u, k)
               n == Taken(u)
               F == src[k]
               nm == cl[u].name
    <3> HIDE DEF s, n, F, nm
    <3>1. Along(Replies(k, shared, F, nm), s, n) /\ Len(s) \in Nat /\ n \in Nat
      BY <2>1, <2>2 DEF s, n, F, nm
    <3>2. Along(Replies(k, shared', F, nm), s, n)
      BY <3>1, ReplyLoose, Zenon
    <3> QED BY <3>2 DEF s, n, F, nm
  <2> QED BY <1>2, <1>3, <2>1, <2>3 DEF Reply
<1>4. CASE ~(cl[u].first /\ cl[u].at \in GetAt)
  BY <1>1, <1>4 DEF Reply
<1> QED BY <1>3, <1>4

\* ClientFile is kept by a step that leaves the client and its file alone.
LEMMA StillClientFile ==
  ASSUME NEW u \in User, ClientFile(u), cl'[u] = cl[u], Live(u)' => Live(u),
         Live(u) => src'[cl[u].conn] = src[cl[u].conn], shared \subseteq shared'
  PROVE  ClientFile(u)'
<1>1. CASE ~(Live(u) /\ cl[u].first)
  BY <1>1 DEF ClientFile
<1>2. CASE Live(u) /\ cl[u].first
  <2>1. src'[cl'[u].conn] = src[cl[u].conn] /\ cl'[u].conn = cl[u].conn
    BY <1>2
  <2>2. PutFile(cl[u], src[cl[u].conn]) /\ GotFile(cl[u], src[cl[u].conn], shared)
    BY <1>2 DEF ClientFile
  <2>3. GotFile(cl[u], src[cl[u].conn], shared')
    BY <2>2 DEF GotFile
  <2> QED BY <2>1, <2>2, <2>3 DEF ClientFile
<1> QED BY <1>1, <1>2

\* ServerFile is kept by a step that leaves the thread and its file alone.
LEMMA StillServerFile ==
  ASSUME NEW k \in Conn, ServerFile(k), srv'[k] = srv[k], src'[k] = src[k],
         srv[k].at \in Reading => k \notin put',
         shared \subseteq shared', DOMAIN store \subseteq DOMAIN store',
         srv[k].at \in Writing \union Reading /\ k \notin shared' =>
           store'[srv[k].name] = store[srv[k].name]
  PROVE  ServerFile(k)'
  BY DEF ServerFile

\* ServerLink is kept by a step that leaves the thread and its connection alone.
LEMMA StillServerLink ==
  ASSUME NEW k \in Conn, ServerLink(k), srv'[k] = srv[k], src'[k] = src[k],
         k \in reset' <=> k \in reset, k \in put' <=> k \in put,
         \A s \in Side : wire'[k][s] = wire[k][s] /\ open'[k][s] = open[k][s],
         k \in shared' => k \in shared \/ srv[k].at # "none"
  PROVE  ServerLink(k)'
  BY Sides DEF ServerLink, Free

\* What a step of thread k keeps.
LEMMA OthersServed ==
  ASSUME Inv, NEW k \in Conn, ServerMoves(k)
  PROVE  /\ \A j \in Conn \ {k} : ServerCalls(j)' /\ ServerLink(j)' /\ Request(j)' /\ ServerFile(j)'
         /\ \A u \in User : /\ ClientCalls(u)' /\ ClientLink(u)' /\ (Live(u)' <=> Live(u))
                            /\ cl[u].conn # k => Reply(u)' /\ ClientFile(u)'
         /\ \A i, j \in Conn \ {k} : Clash(i, j)'
<1>1. ASSUME NEW u \in User
      PROVE  /\ cl'[u] = cl[u] /\ io'[Client(u)] = io[Client(u)] /\ ClientCalls(u)'
             /\ Live(u)' <=> Live(u)
  <2>1. cl'[u] = cl[u] /\ io'[Client(u)] = io[Client(u)]
    BY Threads DEF ServerMoves, Only
  <2>2. ClientCalls(u)
    BY DEF Inv
  <2> QED BY <2>1, <2>2, StillClientCalls
<1>2. ASSUME NEW j \in Conn \ {k}
      PROVE  /\ srv'[j] = srv[j] /\ src'[j] = src[j] /\ io'[Server(j)] = io[Server(j)]
             /\ j \in reset' <=> j \in reset
             /\ j \in put' <=> j \in put
             /\ \A s \in Side : wire'[j][s] = wire[j][s] /\ open'[j][s] = open[j][s]
  BY Threads DEF ServerMoves, Only
<1>3. ASSUME NEW j \in Conn \ {k} PROVE ServerCalls(j)'
  <2>1. ServerCalls(j) /\ open'[j]["client"] = open[j]["client"]
    BY <1>2, Sides DEF Inv
  <2>2. srv[j].at \in Early \union Reading \union {"leaked"} /\ Failed(Server(j)) =>
          ~open[j]["client"] /\ j \notin put
    BY <2>1 DEF ServerCalls
  <2> QED BY <1>2, <2>1, <2>2, StillServerCalls
<1>4. ASSUME NEW j \in Conn \ {k} PROVE ServerLink(j)'
  <2>1. ServerLink(j) /\ (j \in shared' => j \in shared \/ srv[j].at # "none")
    BY DEF Inv, ServerMoves
  <2> QED BY <1>2, <2>1, StillServerLink
<1>5. ASSUME NEW j \in Conn \ {k} PROVE Request(j)'
  <2>1. Request(j) /\ wire'[j]["client"] = wire[j]["client"] /\ open'[j]["server"] = open[j]["server"]
    BY <1>2, Sides DEF Inv
  <2> QED BY <1>1, <1>2, <2>1, StillRequest
<1>6. ASSUME NEW j \in Conn \ {k} PROVE ServerFile(j)'
  <2>1. ServerFile(j)
    BY DEF Inv
  <2>2. srv[j].at \in Reading => j \notin put'
    BY <1>2, <2>1 DEF ServerFile
  <2>3. /\ shared \subseteq shared' /\ DOMAIN store \subseteq DOMAIN store'
        /\ srv[j].at \in Writing \union Reading /\ j \notin shared' =>
             store'[srv[j].name] = store[srv[j].name]
    BY DEF ServerMoves
  <2> QED BY <1>2, <2>1, <2>2, <2>3, StillServerFile
<1>7. ASSUME NEW u \in User PROVE ClientLink(u)'
  <2>1. ClientLink(u) /\ cl' = cl
    BY DEF Inv, ServerMoves
  <2>2. cl[u].conn # 0 => cl[u].conn \in Conn /\ ~Free(cl[u].conn)
    BY <2>1, Types DEF Inv, ClientLink
  <2>3. ASSUME cl[u].conn # 0
        PROVE  open'[cl[u].conn]["client"] = open[cl[u].conn]["client"] /\ ~Free(cl[u].conn)'
    <3>1. CASE cl[u].conn = k
      BY <3>1 DEF ServerMoves, Free
    <3>2. CASE cl[u].conn # k
      <4>1. cl[u].conn \in Conn \ {k} /\ ~Free(cl[u].conn)
        BY <2>2, <2>3, <3>2
      <4> QED BY <1>2, <2>1, <4>1, Sides DEF Free
    <3> QED BY <3>1, <3>2
  <2> QED BY <2>1, <2>3, StillClientLink
<1>8. ASSUME NEW u \in User, cl[u].conn # k PROVE Reply(u)' /\ ClientFile(u)'
  <2>1. Reply(u) /\ ClientFile(u) /\ shared \subseteq shared' /\ TypeOK
    BY DEF Inv, ServerMoves
  <2>2. CASE ~Live(u)
    BY <1>1, <2>2 DEF Reply, ClientFile
  <2>3. CASE Live(u)
    <3>1. cl[u].conn \in Conn \ {k}
      <4>1. cl[u].conn # 0
        BY <2>3 DEF Inv, ClientLink, Live
      <4> QED BY <1>8, <2>1, <4>1, Types
    <3>2. /\ srv'[cl[u].conn] = srv[cl[u].conn] /\ src'[cl[u].conn] = src[cl[u].conn]
          /\ io'[Server(cl[u].conn)] = io[Server(cl[u].conn)]
          /\ cl[u].conn \in put => cl[u].conn \in put'
          /\ wire'[cl[u].conn]["server"] = wire[cl[u].conn]["server"]
      BY <1>2, <3>1, Sides
    <3>3. Reply(u)'
      BY <1>1, <2>1, <3>1, <3>2, StillReply
    <3>4. ClientFile(u)'
      BY <1>1, <2>1, <3>2, StillClientFile
    <3> QED BY <3>3, <3>4
  <2> QED BY <2>2, <2>3
<1>9. ASSUME NEW i \in Conn \ {k}, NEW j \in Conn \ {k} PROVE Clash(i, j)'
  <2>1. Clash(i, j) /\ shared \subseteq shared' /\ srv'[i] = srv[i] /\ srv'[j] = srv[j]
    BY <1>2 DEF Inv, ServerMoves
  <2> QED BY <2>1 DEF Clash
<1> QED BY <1>1, <1>3, <1>4, <1>5, <1>6, <1>7, <1>8, <1>9

\* What a step of client u on connection k keeps.
LEMMA OthersAsk ==
  ASSUME Inv, NEW u \in User, NEW k \in Conn, ClientMoves(u, k),
         \A v \in User \ {u} : cl[v].conn # k
  PROVE  /\ \A j \in Conn \ {k} : ServerCalls(j)' /\ ServerLink(j)' /\ Request(j)' /\ ServerFile(j)'
         /\ \A v \in User \ {u} : ClientCalls(v)' /\ Reply(v)' /\ ClientFile(v)'
         /\ \A v \in User : v # u => ClientLink(v)'
         /\ \A v \in User : cl'[u].conn = cl'[v].conn /\ cl'[u].conn # 0 => u = v
         /\ \A i, j \in Conn : Clash(i, j)'
<1>1. ASSUME NEW v \in User \ {u}
      PROVE  /\ cl'[v] = cl[v] /\ io'[Client(v)] = io[Client(v)] /\ ClientCalls(v)'
             /\ Live(v)' <=> Live(v)
  <2>1. cl'[v] = cl[v] /\ io'[Client(v)] = io[Client(v)]
    BY Threads DEF ClientMoves, Only
  <2>2. ClientCalls(v)
    BY DEF Inv
  <2> QED BY <2>1, <2>2, StillClientCalls
<1>2. ASSUME NEW j \in Conn \ {k}
      PROVE  /\ srv'[j] = srv[j] /\ src'[j] = src[j] /\ io'[Server(j)] = io[Server(j)]
             /\ j \in reset' <=> j \in reset
             /\ j \in put' <=> j \in put
             /\ \A s \in Side : wire'[j][s] = wire[j][s] /\ open'[j][s] = open[j][s]
  BY Threads DEF ClientMoves, Only
<1>3. shared' = shared /\ store' = store /\ srv' = srv
  BY DEF ClientMoves
<1>4. ASSUME NEW j \in Conn \ {k} PROVE ServerCalls(j)'
  <2>1. ServerCalls(j) /\ open'[j]["client"] = open[j]["client"]
    BY <1>2, Sides DEF Inv
  <2>2. srv[j].at \in Early \union Reading \union {"leaked"} /\ Failed(Server(j)) =>
          ~open[j]["client"] /\ j \notin put
    BY <2>1 DEF ServerCalls
  <2> QED BY <1>2, <2>1, <2>2, StillServerCalls
<1>5. ASSUME NEW j \in Conn \ {k} PROVE ServerLink(j)'
  <2>1. ServerLink(j)
    BY DEF Inv
  <2> QED BY <1>2, <1>3, <2>1, StillServerLink
<1>6. ASSUME NEW j \in Conn \ {k} PROVE Request(j)'
  <2>1. Request(j) /\ wire'[j]["client"] = wire[j]["client"] /\ open'[j]["server"] = open[j]["server"]
    BY <1>2, Sides DEF Inv
  <2>2. \A v \in User : cl'[v].conn = j => v # u
    BY DEF ClientMoves
  <2> QED BY <1>1, <1>2, <2>1, <2>2, StillRequest
<1>7. ASSUME NEW j \in Conn \ {k} PROVE ServerFile(j)'
  <2>1. ServerFile(j)
    BY DEF Inv
  <2>2. srv[j].at \in Reading => j \notin put'
    BY <1>2, <2>1 DEF ServerFile
  <2> QED BY <1>2, <1>3, <2>1, <2>2, StillServerFile
<1>8. ASSUME NEW v \in User \ {u} PROVE Reply(v)' /\ ClientFile(v)'
  <2>1. Reply(v) /\ ClientFile(v) /\ TypeOK /\ cl[v].conn # k
    BY DEF Inv
  <2>2. CASE ~Live(v)
    BY <1>1, <2>2 DEF Reply, ClientFile
  <2>3. CASE Live(v)
    <3>1. cl[v].conn \in Conn \ {k}
      <4>1. cl[v].conn # 0
        BY <2>3 DEF Inv, ClientLink, Live
      <4> QED BY <2>1, <4>1, Types
    <3>2. /\ srv'[cl[v].conn] = srv[cl[v].conn] /\ src'[cl[v].conn] = src[cl[v].conn]
          /\ io'[Server(cl[v].conn)] = io[Server(cl[v].conn)]
          /\ cl[v].conn \in put => cl[v].conn \in put'
          /\ wire'[cl[v].conn]["server"] = wire[cl[v].conn]["server"]
      BY <1>2, <3>1, Sides
    <3>3. Reply(v)'
      BY <1>1, <1>3, <2>1, <3>1, <3>2, StillReply
    <3>4. ClientFile(v)'
      BY <1>1, <1>3, <2>1, <3>2, StillClientFile
    <3> QED BY <3>3, <3>4
  <2> QED BY <2>2, <2>3
<1>9. ASSUME NEW v \in User, v # u PROVE ClientLink(v)'
  <2>1. ClientLink(v) /\ cl'[v] = cl[v] /\ cl[v].conn # k /\ cl'[u].conn = k
    BY <1>1, <1>9 DEF Inv, ClientMoves
  <2>2. ASSUME cl[v].conn # 0
        PROVE  /\ open'[cl[v].conn]["client"] = open[cl[v].conn]["client"] /\ ~Free(cl[v].conn)'
    <3>0. cl[v].conn \in Conn \union {0}
      BY Types DEF Inv
    <3>1. cl[v].conn \in Conn \ {k}
      BY <2>1, <2>2, <3>0
    <3>2. ~Free(cl[v].conn)
      BY <2>1, <2>2 DEF ClientLink
    <3> QED BY <1>2, <2>1, <3>1, <3>2, Sides DEF Free
  <2>3. ASSUME NEW w \in User, cl'[v].conn = cl'[w].conn, cl'[v].conn # 0 PROVE v = w
    <3>1. w # u
      BY <2>1, <2>3
    <3>2. cl'[w] = cl[w]
      BY <1>1, <3>1
    <3> QED BY <2>1, <2>3, <3>2 DEF ClientLink
  <2> QED BY <2>1, <2>2, <2>3 DEF ClientLink
<1>10. ASSUME NEW v \in User, cl'[u].conn = cl'[v].conn PROVE u = v
  BY <1>1, <1>10 DEF ClientMoves
<1>11. ASSUME NEW i \in Conn, NEW j \in Conn PROVE Clash(i, j)'
  <2>1. Clash(i, j)
    BY DEF Inv
  <2> QED BY <1>3, <2>1 DEF Clash
<1> QED BY <1>1, <1>4, <1>5, <1>6, <1>7, <1>8, <1>9, <1>10, <1>11
-------------------------------------------------------------------------------
(* The steps of a thread. *)

\* What the invariant says of one connection.
LEMMA Served ==
  ASSUME Inv, NEW k \in Conn
  PROVE  /\ TypeOK /\ ServerCalls(k) /\ ServerLink(k) /\ Request(k) /\ ServerFile(k)
         /\ \A u \in User : ClientCalls(u) /\ ClientLink(u) /\ Reply(u) /\ ClientFile(u)
         /\ \A j \in Conn : Clash(j, k) /\ Clash(k, j)
         /\ srv[k] \in [at : ServerAt, name : Nat, left : Nat, off : Nat]
         /\ wire[k]["client"] \in Seq(Unit) /\ wire[k]["server"] \in Seq(Unit)
         /\ src[k] \in File /\ Len(src[k]) \in Nat
         /\ Server(k) \in Thread /\ io[Server(k)] \in Call
         /\ io[Server(k)].got \in Seq(Unit) /\ io[Server(k)].out \in Seq(Unit)
         /\ Len(io[Server(k)].got) \in Nat /\ io[Server(k)].want \in Nat
<1>1. TypeOK /\ io[Server(k)] \in Call /\ Server(k) \in Thread
  BY Types, Threads DEF Inv
<1>2. /\ io[Server(k)].got \in Seq(Unit) /\ io[Server(k)].out \in Seq(Unit)
      /\ io[Server(k)].want \in Nat
  BY <1>1 DEF Call
<1>3. Len(io[Server(k)].got) \in Nat
  BY <1>2, LenProperties
<1> QED BY <1>1, <1>2, <1>3, Types DEF Inv

\* A step of thread k keeps the invariant when it keeps these.
LEMMA ServerKeeps ==
  ASSUME Inv, NEW k \in Conn, ServerMoves(k), TypeOK',
         ServerCalls(k)', ServerLink(k)', Request(k)', ServerFile(k)',
         \A u \in User : cl[u].conn = k => Reply(u)' /\ ClientFile(u)',
         \A j \in Conn : Clash(j, k)' /\ Clash(k, j)'
  PROVE  Inv'
<1>1. \A j \in Conn : ServerCalls(j)' /\ ServerLink(j)' /\ Request(j)' /\ ServerFile(j)'
  BY OthersServed
<1>2. \A u \in User : ClientCalls(u)' /\ ClientLink(u)' /\ Reply(u)' /\ ClientFile(u)'
  BY OthersServed
<1>3. \A i, j \in Conn : Clash(i, j)'
  BY OthersServed
<1> QED BY <1>1, <1>2, <1>3 DEF Inv

\* What a client has sent depends on the client only.
LEMMA StillSent ==
  ASSUME NEW u \in User, cl'[u] = cl[u], io'[Client(u)] = io[Client(u)], NEW F, NEW type, NEW nm,
         NEW n, Sent(u, F, type, nm, n)
  PROVE  Sent(u, F, type, nm, n)'
<1>1. CASE \E j \in Nat :
             /\ Len(F) - Len(cl[u].file) = Block(j) /\ cl[u].file # NoFile
             /\ \/ cl[u].at \in {"put_file", "put_data"} /\ n = 5 + Block(j) + j
                \/ cl[u].at = "put_length" /\ n = 6 + Block(j) + j
  BY <1>1 DEF Sent
<1>2. CASE cl[u].at \in {"put_file", "put_data"} /\ cl[u].file = NoFile /\ Whole(F, n)
  BY <1>2 DEF Sent
<1> QED BY <1>1, <1>2 DEF Sent

\* What thread k has read of a request is followed by where it is in it now.
ReadOn(k, g) ==
    \A type \in {MSG_PUT, MSG_GET}, nm \in Nat, a \in Nat :
      Begun(k, type, nm, a) /\ Along(Requests(src[k], type, nm), g, a) =>
        Begun(k, type, nm, a + Len(g))'

\* A thread has read what it asked for and asks for more.
LEMMA Reads ==
  ASSUME Inv, NEW k \in Conn, NEW n \in Nat, NEW g \in Seq(Unit), io[Server(k)].got = g,
         srv[k].at \in Early, srv'[k].at \in Early \ {"none"},
         UNCHANGED <<wire, open, reset, src, cl, put>>, Succeeded(Server(k)), Only(Server(k)),
         io'[Server(k)].rc = 0, io'[Server(k)].out = <<>>, io'[Server(k)].got = <<>>,
         io'[Server(k)].want = n, ServerAsks(k)' = n, shared \subseteq shared',
         open[k]["server"],
         ReadOn(k, g)
  PROVE  /\ ServerCalls(k)' /\ ServerLink(k)' /\ Request(k)'
         /\ \A u \in User : cl[u].conn = k => Reply(u)' /\ ClientFile(u)'
<1>0. PICK w \in Seq(Unit) : w = wire[k]["client"]
  BY Served
<1>1. /\ TypeOK /\ ServerCalls(k) /\ ServerLink(k) /\ Request(k)
      /\ Len(g) \in Nat /\ Len(w) \in Nat
      /\ io[Server(k)].out = <<>> /\ io[Server(k)].rc = 0
  BY Served, LenProperties DEF Succeeded, Returned
<1>2. ServerCalls(k)'
  <2>1. ~Failed(Server(k))'
    BY DEF Failed
  <2>2. Asked(Server(k), ServerAsks(k))'
    BY AlongNothing DEF Asked
  <2> QED BY <2>1, <2>2 DEF ServerCalls, Early, Reading
<1>3. ServerLink(k)'
  BY <1>1 DEF ServerLink, Free, Early, Reading
<1>4. \A u \in User : /\ cl'[u] = cl[u] /\ io'[Client(u)] = io[Client(u)]
                      /\ Live(u)' <=> Live(u)
  BY Threads DEF Only, Live
<1>5. Request(k)'
  <2>1. PICK type \in {MSG_PUT, MSG_GET}, nm \in Nat, a \in Nat :
          /\ Begun(k, type, nm, a) /\ Along(Requests(src[k], type, nm), Incoming(k), a)
          /\ k \in put => type = MSG_PUT /\ Whole(src[k], a + Len(Incoming(k)))
          /\ \A u \in User : cl[u].conn = k /\ Live(u) /\ cl[u].first =>
               /\ Along(Requests(src[k], type, nm), io[Client(u)].out, a + Len(Incoming(k)))
               /\ Sent(u, src[k], type, nm, a + Len(Incoming(k)) + Len(io[Client(u)].out))
    BY <1>1 DEF Request
  <2>0. PICK b \in Nat : b = a + Len(g)
    BY <1>1
  <2> DEFINE R == Requests(src[k], type, nm)
  <2>2. Incoming(k)' = w /\ Incoming(k) = g \o w
    BY <1>0, ConcatEmptySeq DEF Incoming
  <2>3. /\ Along(R, g, a) /\ Along(R, w, b)
        /\ b + Len(w) = a + Len(Incoming(k))
    <3>1. Along(R, g \o w, a)
      BY <2>1, <2>2
    <3> HIDE DEF R
    <3>2. Along(R, g, a) /\ Along(R, w, b)
      BY <2>0, <3>1, AlongJoin
    <3>3. Len(Incoming(k)) = Len(g) + Len(w)
      BY <2>2, Concat
    <3> QED BY <1>1, <2>0, <3>2, <3>3
  <2>4. Begun(k, type, nm, b)'
    BY <1>0, <2>0, <2>1, <2>3 DEF ReadOn
  <2>5. ASSUME NEW u \in User, cl'[u].conn = k, Live(u)', cl'[u].first
        PROVE  /\ Along(R, io'[Client(u)].out, b + Len(w))
               /\ Sent(u, src[k], type, nm, b + Len(w) + Len(io[Client(u)].out))'
    <3>1. /\ Along(R, io[Client(u)].out, a + Len(Incoming(k)))
          /\ Sent(u, src[k], type, nm, a + Len(Incoming(k)) + Len(io[Client(u)].out))
      BY <1>4, <2>1, <2>5
    <3>2. Sent(u, src[k], type, nm, b + Len(w) + Len(io[Client(u)].out))
      BY <2>3, <3>1
    <3>3. Along(R, io'[Client(u)].out, b + Len(w))
      BY <1>4, <2>3, <3>1
    <3> QED BY <1>4, <3>2, <3>3, StillSent
  <2>6. k \in put' => type = MSG_PUT /\ Whole(src[k], b + Len(w))
    BY <2>1, <2>3
  <2> QED BY <2>1, <2>2, <2>3, <2>4, <2>5, <2>6 DEF Request
<1>6. ASSUME NEW u \in User, cl[u].conn = k PROVE Reply(u)' /\ ClientFile(u)'
  <2>1. Reply(u) /\ ClientFile(u)
    BY Served
  <2>2. ClientFile(u)'
    BY <1>4, <2>1, StillClientFile
  <2>3. CASE ~Live(u)
    BY <1>4, <1>6, <2>2, <2>3 DEF Reply
  <2>4. CASE Live(u) /\ cl[u].first /\ cl[u].at \in GetAt
    <3>1. Outgoing(u, k)' = Outgoing(u, k) /\ Taken(u)' = Taken(u)
      BY <1>1, <1>4 DEF Outgoing, Taken
    <3>2. Along(Replies(k, shared, src[k], cl[u].name), Outgoing(u, k), Taken(u))
      BY <1>6, <2>1, <2>4 DEF Reply
    <3>3. Len(Outgoing(u, k)) \in Nat /\ Taken(u) \in Nat
      <4>1. io[Client(u)] \in Call /\ io[Server(k)] \in Call /\ wire[k]["server"] \in Seq(Unit)
        BY <1>1, Types, Threads
      <4>2. Len(Outgoing(u, k)) \in Nat
        BY <4>1, Out3, Zenon DEF Outgoing
      <4>3. Len(cl[u].file) \in Nat /\ 3 + Len(cl[u].file) \in Nat
        BY <1>1, Types
      <4> QED BY <4>2, <4>3 DEF Taken
    <3>4. Along(Replies(k, shared', src[k], cl[u].name), Outgoing(u, k), Taken(u))
      BY <3>2, <3>3, ReplyLoose, Zenon
    <3>5. cl[u].at \in {"get_name", "get_file"} /\ io[Client(u)].got = <<>>
      BY <1>6, <2>1, <2>4 DEF Reply
    <3>6. srv'[k].at \notin Reading
      BY DEF Early, Reading
    <3> QED BY <1>4, <1>6, <2>2, <2>4, <3>1, <3>4, <3>5, <3>6 DEF Reply
  <2>5. CASE Live(u) /\ ~(cl[u].first /\ cl[u].at \in GetAt)
    <3>1. /\ wire[k]["server"] = <<>>
          /\ cl[u].at # "prompt" => io[Client(u)].got = <<>>
          /\ ~cl[u].first => k \in put
          /\ cl[u].at \notin {"get_file_name", "get_data"}
      BY <1>6, <2>1, <2>5 DEF Reply
    <3>2. srv'[k].at \notin Reading
      BY DEF Early, Reading
    <3> QED BY <1>4, <1>6, <2>2, <2>5, <3>1, <3>2 DEF Reply
  <2> QED BY <2>2, <2>3, <2>4, <2>5
<1> QED BY <1>2, <1>3, <1>5, <1>6

\* A thread is done with its request.
LEMMA Leaves ==
  ASSUME Inv, NEW k \in Conn, srv'[k].at \in {"done", "close", "ended", "leaked"},
         UNCHANGED <<src, cl>>, Only(Server(k)),
         io[Server(k)].out = <<>>, io'[Server(k)].out = <<>>,
         wire'[k]["server"] = wire[k]["server"], shared \subseteq shared'
  PROVE  /\ Request(k)' /\ ServerFile(k)' /\ \A j \in Conn : Clash(j, k)' /\ Clash(k, j)'
         /\ \A u \in User : cl[u].conn = k => Reply(u)' /\ ClientFile(u)'
<1>1. srv'[k].at \notin Early \union Reading /\ Writing \subseteq Early
  BY DEF Early, Reading, Writing
<1>2. Request(k)' /\ ServerFile(k)'
  BY <1>1, Zenon DEF Request, ServerFile
<1>3. \A j \in Conn : Clash(j, k)' /\ Clash(k, j)'
  BY <1>1, Zenon DEF Clash
<1>4. \A u \in User : /\ cl'[u] = cl[u] /\ io'[Client(u)] = io[Client(u)]
                      /\ Live(u)' <=> Live(u)
  BY Threads DEF Only, Live
<1>6. ASSUME NEW u \in User, cl[u].conn = k PROVE Reply(u)' /\ ClientFile(u)'
  <2>1. Reply(u) /\ ClientFile(u)
    BY Served
  <2>2. ClientFile(u)'
    BY <1>4, <2>1, StillClientFile
  <2>3. CASE ~Live(u)
    BY <1>4, <1>6, <2>2, <2>3 DEF Reply
  <2>4. CASE Live(u) /\ cl[u].first /\ cl[u].at \in GetAt
    <3>1. Outgoing(u, k)' = Outgoing(u, k) /\ Taken(u)' = Taken(u)
      BY <1>1, <1>4 DEF Outgoing, Taken
    <3>2. Along(Replies(k, shared, src[k], cl[u].name), Outgoing(u, k), Taken(u))
      BY <1>6, <2>1, <2>4 DEF Reply
    <3>3. Len(Outgoing(u, k)) \in Nat /\ Taken(u) \in Nat
      <4>1. io[Client(u)] \in Call /\ io[Server(k)] \in Call /\ wire[k]["server"] \in Seq(Unit)
        BY Served, Types, Threads
      <4>2. Len(Outgoing(u, k)) \in Nat
        BY <4>1, Out3, Zenon DEF Outgoing
      <4>3. Len(cl[u].file) \in Nat /\ 3 + Len(cl[u].file) \in Nat
        BY Served, Types
      <4> QED BY <4>2, <4>3 DEF Taken
    <3>4. Along(Replies(k, shared', src[k], cl[u].name), Outgoing(u, k), Taken(u))
      BY <3>2, <3>3, ReplyLoose, Zenon
    <3> QED BY <1>1, <1>4, <1>6, <2>2, <2>4, <3>1, <3>4 DEF Reply
  <2>5. CASE Live(u) /\ ~(cl[u].first /\ cl[u].at \in GetAt)
    <3>1. /\ wire[k]["server"] = <<>>
          /\ cl[u].at # "prompt" => io[Client(u)].got = <<>>
          /\ cl[u].at \notin {"get_file_name", "get_data"}
      BY <1>6, <2>1, <2>5 DEF Reply
    <3> QED BY <1>1, <1>4, <1>6, <2>2, <2>5, <3>1 DEF Reply
  <2> QED BY <2>2, <2>3, <2>4, <2>5
<1> QED BY <1>2, <1>3, <1>6
\* A step of thread k sets its own record only.
Record == [at : ServerAt, name : Nat, left : Nat, off : Nat]
Steps(k) == srv' \in [Conn -> Record] /\ \A j \in Conn \ {k} : srv'[j] = srv[j]

\* SrvGoto changes the stage of one thread and nothing else of it.
LEMMA Goes ==
  ASSUME TypeOK, NEW k \in Conn, NEW at \in ServerAt, SrvGoto(k, at)
  PROVE  /\ Steps(k) /\ srv'[k].at = at /\ srv'[k].name = srv[k].name
         /\ srv'[k].left = srv[k].left /\ srv'[k].off = srv[k].off
<1>1. srv \in [Conn -> Record] /\ srv' = [srv EXCEPT ![k].at = at]
  BY DEF TypeOK, SrvGoto, Record
<1>2. srv[k] \in Record
  BY <1>1
<1>3. srv'[k] = [srv[k] EXCEPT !.at = at] /\ \A j \in Conn \ {k} : srv'[j] = srv[j]
  BY <1>1
<1> QED BY <1>1, <1>2, <1>3 DEF Steps, Record

\* TypeOK is kept by a step of the server that keeps the types of what it changes.
LEMMA TypesKept ==
  ASSUME TypeOK, io' \in [Thread -> Call], UNCHANGED <<wire, open, reset, cl, put>>,
         srv' \in [Conn -> Record],
         DOMAIN store' \subseteq Name /\ \A nm \in DOMAIN store' : store'[nm] \in File,
         src' \in [Conn -> File], shared' \subseteq Conn
  PROVE  TypeOK'
<1>1. StreamTypeOK(Thread, Unit)'
  BY DEF TypeOK, StreamTypeOK, Call
<1> QED BY <1>1 DEF TypeOK, Record

\* A step that leaves the files alone.
LEMMA QuietMoves ==
  ASSUME TypeOK, NEW k \in Conn, Steps(k), srv'[k].at # "none", io' \in [Thread -> Call],
         Only(Server(k)), UNCHANGED <<wire, open, reset, store, src, shared, cl, put>>
  PROVE  TypeOK' /\ ServerMoves(k)
<1>1. ServerMoves(k)
  BY DEF ServerMoves, Steps
<1>2. /\ src \in [Conn -> File] /\ shared \subseteq Conn
      /\ DOMAIN store \subseteq Name /\ \A nm \in DOMAIN store : store[nm] \in File
  BY DEF TypeOK
<1>3. srv' \in [Conn -> Record]
  BY DEF Steps
<1> QED BY <1>1, <1>2, <1>3, TypesKept

\* A thread that has not reached its file.
LEMMA NoFileYet ==
  ASSUME Inv, NEW k \in Conn, srv'[k].at \in {"prot", "get_url", "put_name", "put_prot"},
         srv'[k].off = 0, srv'[k].at = "put_prot" => srv'[k].name \in Name
  PROVE  ServerFile(k)' /\ \A j \in Conn : Clash(j, k)' /\ Clash(k, j)'
<1>1. srv'[k].at \notin Writing \union Reading
  BY DEF Writing, Reading
<1>2. srv'[k].at \notin {"get_prot", "get_name"}
  OBVIOUS
<1> QED BY <1>1, <1>2 DEF ServerFile, Clash

\* The listening thread accepts a connection and starts a thread for it.
LEMMA AcceptKeeps ==
  ASSUME Inv, NEW k \in Conn, Accept(k)
  PROVE  Inv'
<1>1. TypeOK /\ StreamTypeOK(Thread, Unit) /\ Server(k) \in Thread
  BY Served, Types
<1>2. /\ srv[k].at = "none" /\ open[k]["server"] /\ BeginRecv(Server(k), 2)
      /\ SrvGoto(k, "prot") /\ UNCHANGED <<wire, open, reset, store, src, shared, cl, put>>
  BY DEF Accept, kernel, history, clientSide
<1>3. /\ io' \in [Thread -> Call] /\ Only(Server(k))
      /\ io'[Server(k)].rc = 0 /\ io'[Server(k)].out = <<>> /\ io'[Server(k)].want = 2
      /\ io'[Server(k)].got = <<>>
  BY <1>1, <1>2, BeginsRecv
<1>4. /\ Steps(k) /\ srv'[k].at = "prot" /\ srv'[k].name = srv[k].name
      /\ srv'[k].left = srv[k].left /\ srv'[k].off = srv[k].off
  BY <1>1, <1>2, Goes DEF ServerAt
<1>5. TypeOK' /\ ServerMoves(k)
  BY <1>1, <1>2, <1>3, <1>4, QuietMoves
<1>6. io[Server(k)] = NoCall /\ srv[k].off = 0
  BY <1>2, Served DEF ServerCalls, ServerFile, Early, Writing
<1>7. Succeeded(Server(k)) /\ io[Server(k)].got = <<>> /\ <<>> \in Seq(Unit)
  BY <1>6, NoCalls, EmptySeq DEF Succeeded, Returned
<1>8. ASSUME NEW type \in {MSG_PUT, MSG_GET}, NEW nm \in Nat, NEW a \in Nat, Begun(k, type, nm, a)
      PROVE  Begun(k, type, nm, a + Len(<<>>))'
  BY <1>2, <1>4, <1>8 DEF Begun
<1>9. /\ ServerCalls(k)' /\ ServerLink(k)' /\ Request(k)'
      /\ \A u \in User : cl[u].conn = k => Reply(u)' /\ ClientFile(u)'
  <2>1. ServerAsks(k)' = 2 /\ srv[k].at \in Early /\ srv'[k].at \in Early \ {"none"}
    BY <1>2, <1>4 DEF ServerAsks, Early
  <2>2. ReadOn(k, <<>>)
    BY <1>8 DEF ReadOn
  <2> QED BY <1>2, <1>3, <1>7, <2>1, <2>2, Reads
<1>10. ServerFile(k)' /\ \A j \in Conn : Clash(j, k)' /\ Clash(k, j)'
  BY <1>4, <1>6, NoFileYet
<1> QED BY <1>5, <1>9, <1>10, ServerKeeps

\* What was asked for has come, and the end of the connection is open.
LEMMA HasRead ==
  ASSUME Inv, NEW k \in Conn, Succeeded(Server(k)), srv[k].at \in Early \ {"none"}
  PROVE  /\ Len(io[Server(k)].got) = ServerAsks(k) /\ ServerAsks(k) \in Nat
         /\ open[k]["server"] /\ io[Server(k)].rc = 0 /\ io[Server(k)].out = <<>>
         /\ TypeOK /\ StreamTypeOK(Thread, Unit) /\ Server(k) \in Thread
         /\ \E g \in Seq(Unit), type \in {MSG_PUT, MSG_GET}, nm \in Nat, a \in Nat :
              /\ g = io[Server(k)].got /\ Begun(k, type, nm, a)
              /\ Along(Requests(src[k], type, nm), g, a)
              /\ k \in put => type = MSG_PUT
              /\ \A u \in User : cl[u].conn = k /\ Live(u) /\ cl[u].first =>
                   \E b \in Nat : b >= a + Len(g) /\ Sent(u, src[k], type, nm, b)
<1>0. PICK g \in Seq(Unit), w \in Seq(Unit) : g = io[Server(k)].got /\ w = wire[k]["client"]
  BY Served
<1>1. /\ TypeOK /\ ServerCalls(k) /\ ServerLink(k) /\ Request(k) /\ Server(k) \in Thread
      /\ Len(g) \in Nat /\ Len(w) \in Nat /\ StreamTypeOK(Thread, Unit)
      /\ io[Server(k)].rc = 0 /\ io[Server(k)].out = <<>> /\ io[Server(k)].want = 0
      /\ srv[k].left \in Nat
  BY Served, Types, LenProperties DEF Succeeded, Returned
<1>2. open[k]["server"]
  BY <1>1 DEF ServerLink, Early
<1>3. ServerAsks(k) \in Nat
  BY <1>1, Chunks DEF ServerAsks
<1>4. Len(g) = ServerAsks(k)
  <2>1. CASE srv[k].at # "put_data"
    <3>1. ServerAsks(k) \in {1, 2}
      BY <2>1 DEF ServerAsks, Early
    <3>2. Asked(Server(k), ServerAsks(k))
      BY <1>1 DEF ServerCalls
    <3> QED BY <1>0, <1>1, <3>1, <3>2 DEF Asked
  <2>2. CASE srv[k].at = "put_data"
    <3>1. ServerAsks(k) = FileChunk(srv[k].left) /\ srv[k].left > 0
      BY <2>2, Served DEF ServerAsks, ServerFile, Writing
    <3>2. ServerAsks(k) > 0
      BY <1>1, <3>1, Chunks
    <3>3. Asked(Server(k), ServerAsks(k))
      BY <1>1 DEF ServerCalls
    <3> QED BY <1>0, <1>1, <1>3, <3>2, <3>3 DEF Asked
  <2> QED BY <2>1, <2>2
<1>5. PICK type \in {MSG_PUT, MSG_GET}, nm \in Nat, a \in Nat :
        /\ Begun(k, type, nm, a) /\ Along(Requests(src[k], type, nm), Incoming(k), a)
        /\ k \in put => type = MSG_PUT /\ Whole(src[k], a + Len(Incoming(k)))
        /\ \A u \in User : cl[u].conn = k /\ Live(u) /\ cl[u].first =>
             /\ Along(Requests(src[k], type, nm), io[Client(u)].out, a + Len(Incoming(k)))
             /\ Sent(u, src[k], type, nm, a + Len(Incoming(k)) + Len(io[Client(u)].out))
  BY <1>1, <1>2 DEF Request
<1>6. /\ Incoming(k) = g \o w /\ Along(Requests(src[k], type, nm), g, a)
      /\ Len(Incoming(k)) = Len(g) + Len(w)
  <2>1. Incoming(k) = g \o w
    BY <1>0 DEF Incoming
  <2> QED BY <1>5, <2>1, AlongJoin, Concat
<1>7. ASSUME NEW u \in User, cl[u].conn = k, Live(u), cl[u].first
      PROVE  \E b \in Nat : b >= a + Len(g) /\ Sent(u, src[k], type, nm, b)
  <2> DEFINE b == a + Len(Incoming(k)) + Len(io[Client(u)].out)
  <2>1. Len(io[Client(u)].out) \in Nat
    BY <1>1, Types, Threads, LenProperties DEF Call
  <2>2. b \in Nat /\ b >= a + Len(g)
    BY <1>1, <1>6, <2>1, SMTT(30)
  <2>3. Sent(u, src[k], type, nm, b)
    BY <1>5, <1>7
  <2> QED BY <2>2, <2>3
<1> QED BY <1>0, <1>1, <1>2, <1>3, <1>4, <1>5, <1>6, <1>7

\* A unit of a request.
LEMMA ComesNext ==
  ASSUME NEW F, NEW type, NEW nm, NEW s \in Seq(Unit), NEW a \in Nat, NEW i \in 1 .. Len(s),
         Along(Requests(F, type, nm), s, a)
  PROVE  s[i] \in Unit /\ Requested(F, type, nm, a + i, s[i]) /\ a + i \in Nat
<1>1. a + i \in Nat /\ s[i] \in Requests(F, type, nm)[a + i]
  BY LenProperties DEF Along
<1> QED BY <1>1, RequestIs

\* run() has read the header and dispatches on its type.
LEMMA ProtReceivedKeeps ==
  ASSUME Inv, NEW k \in Conn, ProtReceived(k)
  PROVE  Inv'
<1>1. srv[k].at = "prot" /\ Succeeded(Server(k)) /\ srv[k].at \in Early \ {"none"}
  BY DEF ProtReceived, SrvCalled, Early
<1>2. /\ Len(io[Server(k)].got) = 2 /\ open[k]["server"]
      /\ TypeOK /\ StreamTypeOK(Thread, Unit) /\ Server(k) \in Thread
  BY <1>1, HasRead DEF ServerAsks
<1>3. PICK g \in Seq(Unit), type \in {MSG_PUT, MSG_GET}, nm \in Nat, a \in Nat :
        /\ g = io[Server(k)].got /\ Begun(k, type, nm, a)
        /\ Along(Requests(src[k], type, nm), g, a)
  BY <1>1, HasRead
<1>4. ASSUME NEW t \in {MSG_PUT, MSG_GET}, NEW n \in Nat, NEW b \in Nat, Begun(k, t, n, b),
             Along(Requests(src[k], t, n), g, b)
      PROVE  b = 0 /\ g[1] = <<"type", t>> /\ g[2] = <<"length", 1>>
  <2>1. b = 0
    BY <1>1, <1>4 DEF Begun
  <2>2. g[1] = Prot(t)[1] /\ g[2] = Prot(t)[2]
    <3>0. Len(g) = 2
      BY <1>2, <1>3
    <3>1. 1 \in 1 .. Len(g) /\ 2 \in 1 .. Len(g)
      BY <3>0
    <3>2. Requested(src[k], t, n, 0 + 1, g[1]) /\ Requested(src[k], t, n, 0 + 2, g[2])
      BY <1>4, <2>1, <3>1, ComesNext
    <3> QED BY <3>2 DEF Requested
  <2>3. t \in Nat
    BY DEF MSG_PUT, MSG_GET
  <2> QED BY <2>1, <2>2, <2>3, Units
<1>5. g[1] = <<"type", type>> /\ g[2] = <<"length", 1>>
  BY <1>3, <1>4
<1>6. Received(Server(k), 1) = type /\ Received(Server(k), 2) = 1
  BY <1>3, <1>5 DEF Received
<1> DEFINE at == IF type = MSG_GET THEN "get_url" ELSE "put_name"
<1>7. /\ SrvGoto(k, at) /\ BeginRecv(Server(k), 1)
      /\ UNCHANGED <<wire, open, reset, store, src, shared, cl, put>>
  BY <1>6 DEF ProtReceived, kernel, history, clientSide
<1>8. /\ io' \in [Thread -> Call] /\ Only(Server(k))
      /\ io'[Server(k)].rc = 0 /\ io'[Server(k)].out = <<>> /\ io'[Server(k)].want = 1
      /\ io'[Server(k)].got = <<>>
  BY <1>2, <1>7, BeginsRecv
<1>9. at \in ServerAt /\ at \in {"get_url", "put_name"}
  BY DEF ServerAt
<1>10. /\ Steps(k) /\ srv'[k].at = at /\ srv'[k].name = srv[k].name
       /\ srv'[k].left = srv[k].left /\ srv'[k].off = srv[k].off
  <2> HIDE DEF at
  <2> QED BY <1>2, <1>7, <1>9, Goes
<1>11. TypeOK' /\ ServerMoves(k)
  <2>1. srv'[k].at # "none"
    BY <1>9, <1>10
  <2> QED BY <1>2, <1>7, <1>8, <1>10, <2>1, QuietMoves
<1>12. ASSUME NEW t \in {MSG_PUT, MSG_GET}, NEW n \in Nat, NEW b \in Nat, Begun(k, t, n, b),
              Along(Requests(src[k], t, n), g, b)
       PROVE  Begun(k, t, n, b + Len(g))'
  <2>1. b = 0 /\ t = type
    BY <1>4, <1>5, <1>12
  <2>2. b + Len(g) = 2
    BY <1>2, <1>3, <2>1
  <2>3. Begun(k, t, n, 2)'
    BY <1>10, <2>1 DEF Begun, MSG_PUT, MSG_GET
  <2> QED BY <2>2, <2>3
<1>13. /\ ServerCalls(k)' /\ ServerLink(k)' /\ Request(k)'
       /\ \A u \in User : cl[u].conn = k => Reply(u)' /\ ClientFile(u)'
  <2>1. ServerAsks(k)' = 1 /\ srv[k].at \in Early /\ srv'[k].at \in Early \ {"none"}
    BY <1>1, <1>9, <1>10 DEF ServerAsks, Early
  <2>2. ReadOn(k, g)
    BY <1>12 DEF ReadOn
  <2> QED BY <1>1, <1>2, <1>3, <1>7, <1>8, <2>1, <2>2, Reads
<1>14. ServerFile(k)' /\ \A j \in Conn : Clash(j, k)' /\ Clash(k, j)'
  <2>1. srv[k].off = 0
    BY <1>1, Served DEF ServerFile, Early, Writing
  <2> QED BY <1>9, <1>10, <2>1, NoFileYet
<1> QED BY <1>11, <1>13, <1>14, ServerKeeps
\* runPut() has read the name of the file.
LEMMA PutNameReceivedKeeps ==
  ASSUME Inv, NEW k \in Conn, PutNameReceived(k)
  PROVE  Inv'
<1>1. srv[k].at = "put_name" /\ Succeeded(Server(k)) /\ srv[k].at \in Early \ {"none"}
  BY DEF PutNameReceived, SrvCalled, Early
<1>2. /\ Len(io[Server(k)].got) = 1 /\ open[k]["server"]
      /\ TypeOK /\ StreamTypeOK(Thread, Unit) /\ Server(k) \in Thread
  BY <1>1, HasRead DEF ServerAsks
<1>3. PICK g \in Seq(Unit), type \in {MSG_PUT, MSG_GET}, nm \in Nat, a \in Nat :
        /\ g = io[Server(k)].got /\ Begun(k, type, nm, a) /\ Len(g) = 1
        /\ Along(Requests(src[k], type, nm), g, a)
  BY <1>1, <1>2, HasRead
<1>4. ASSUME NEW t \in {MSG_PUT, MSG_GET}, NEW n \in Nat, NEW b \in Nat, Begun(k, t, n, b),
             Along(Requests(src[k], t, n), g, b)
      PROVE  t = MSG_PUT /\ b = 2 /\ n \in Name /\ g[1] = <<"name", n>>
  <2>1. b = 2 /\ t = MSG_PUT
    BY <1>1, <1>4 DEF Begun
  <2>2. g[1] = NameUnit(n)[1] /\ n \in Name
    <3>1. 1 \in 1 .. Len(g)
      BY <1>3
    <3>2. Requested(src[k], t, n, 2 + 1, g[1])
      BY <1>4, <2>1, <3>1, ComesNext
    <3> QED BY <3>2 DEF Requested
  <2> QED BY <2>1, <2>2, Units
<1>5. nm \in Name /\ Received(Server(k), 1) = nm
  BY <1>3, <1>4 DEF Received
<1>7. /\ srv' = [srv EXCEPT ![k].at = "put_prot", ![k].name = nm] /\ BeginRecv(Server(k), 2)
      /\ UNCHANGED <<wire, open, reset, store, src, shared, cl, put>>
  BY <1>5 DEF PutNameReceived, kernel, history, clientSide
<1>8. /\ io' \in [Thread -> Call] /\ Only(Server(k))
      /\ io'[Server(k)].rc = 0 /\ io'[Server(k)].out = <<>> /\ io'[Server(k)].want = 2
      /\ io'[Server(k)].got = <<>>
  BY <1>2, <1>7, BeginsRecv
<1>10. /\ Steps(k) /\ srv'[k].at = "put_prot" /\ srv'[k].name = nm
       /\ srv'[k].left = srv[k].left /\ srv'[k].off = srv[k].off
  <2>1. srv \in [Conn -> Record] /\ srv[k] \in Record
    BY <1>2 DEF TypeOK, Record
  <2>2. /\ srv'[k] = [srv[k] EXCEPT !.at = "put_prot", !.name = nm]
        /\ \A j \in Conn \ {k} : srv'[j] = srv[j]
    BY <1>7, <2>1
  <2>3. srv' \in [Conn -> Record]
    BY <1>7, <2>1 DEF Record, ServerAt
  <2> QED BY <2>1, <2>2, <2>3 DEF Steps, Record
<1>11. TypeOK' /\ ServerMoves(k)
  BY <1>2, <1>7, <1>8, <1>10, QuietMoves
<1>12. ASSUME NEW t \in {MSG_PUT, MSG_GET}, NEW n \in Nat, NEW b \in Nat, Begun(k, t, n, b),
              Along(Requests(src[k], t, n), g, b)
       PROVE  Begun(k, t, n, b + Len(g))'
  <2>1. t = MSG_PUT /\ b = 2 /\ n = nm
    <3>1. t = MSG_PUT /\ b = 2 /\ g[1] = <<"name", n>>
      BY <1>4, <1>12
    <3>2. g[1] = <<"name", nm>>
      BY <1>3, <1>4
    <3> QED BY <3>1, <3>2
  <2>2. b + Len(g) = 3
    BY <1>3, <2>1
  <2>3. Begun(k, t, n, 3)'
    BY <1>10, <2>1 DEF Begun
  <2> QED BY <2>2, <2>3
<1>13. /\ ServerCalls(k)' /\ ServerLink(k)' /\ Request(k)'
       /\ \A u \in User : cl[u].conn = k => Reply(u)' /\ ClientFile(u)'
  <2>1. ServerAsks(k)' = 2 /\ srv[k].at \in Early /\ srv'[k].at \in Early \ {"none"}
    BY <1>1, <1>10 DEF ServerAsks, Early
  <2>2. ReadOn(k, g)
    BY <1>12 DEF ReadOn
  <2> QED BY <1>1, <1>2, <1>3, <1>7, <1>8, <2>1, <2>2, Reads
<1>14. ServerFile(k)' /\ \A j \in Conn : Clash(j, k)' /\ Clash(k, j)'
  <2>1. srv[k].off = 0
    BY <1>1, Served DEF ServerFile, Early, Writing
  <2> QED BY <1>5, <1>10, <2>1, NoFileYet
<1> QED BY <1>11, <1>13, <1>14, ServerKeeps

\* runPut() has read the length of the next chunk.
LEMMA PutLengthReceivedKeeps ==
  ASSUME Inv, NEW k \in Conn, PutLengthReceived(k)
  PROVE  Inv'
<1>1. srv[k].at = "put_length" /\ Succeeded(Server(k)) /\ srv[k].at \in Early \ {"none"}
  BY DEF PutLengthReceived, SrvCalled, Early
<1>2. /\ Len(io[Server(k)].got) = 1 /\ open[k]["server"]
      /\ TypeOK /\ StreamTypeOK(Thread, Unit) /\ Server(k) \in Thread
      /\ srv[k].left \in Nat /\ srv[k].off \in Nat /\ src[k] \in File /\ Len(src[k]) \in Nat
  <2>1. /\ Len(io[Server(k)].got) = 1 /\ open[k]["server"]
        /\ TypeOK /\ StreamTypeOK(Thread, Unit) /\ Server(k) \in Thread
    BY <1>1, HasRead DEF ServerAsks
  <2> QED BY <2>1, Served
<1>3. PICK g \in Seq(Unit), type \in {MSG_PUT, MSG_GET}, nm \in Nat, a \in Nat :
        /\ g = io[Server(k)].got /\ Begun(k, type, nm, a) /\ Len(g) = 1
        /\ Along(Requests(src[k], type, nm), g, a)
  BY <1>1, <1>2, HasRead
<1> DEFINE c == FileChunk(srv[k].left)
<1>20. c \in Nat
  BY <1>2, Chunks
<1>21. srv[k].off + srv[k].left = Len(src[k]) /\ srv[k].left > 0
  BY <1>1, Served DEF ServerFile, Writing
<1>4. ASSUME NEW t \in {MSG_PUT, MSG_GET}, NEW n \in Nat, NEW b \in Nat, Begun(k, t, n, b),
             Along(Requests(src[k], t, n), g, b)
      PROVE  /\ t = MSG_PUT /\ n = srv[k].name /\ g[1] = <<"chunk_length", c>>
             /\ \E j \in Nat : srv[k].off = Block(j) /\ b = 5 + Block(j) + j
  <2>1. PICK j \in Nat : srv[k].off = Block(j) /\ t = MSG_PUT /\ n = srv[k].name
                         /\ b = 5 + Block(j) + j
    BY <1>1, <1>4 DEF Begun
  <2>2. Block(j) < Len(src[k]) /\ Len(src[k]) - Block(j) = srv[k].left /\ Block(j) \in Nat
    BY <1>2, <1>21, <2>1, SMTT(30)
  <2>3. g[1] = ChunkLength(FileChunk(Len(src[k]) - Block(j)))[1]
    <3>1. 1 \in 1 .. Len(g)
      BY <1>3
    <3>2. Requested(src[k], t, n, b + 1, g[1])
      BY <1>4, <3>1, ComesNext
    <3>3. b + 1 = 6 + Block(j) + j
      BY <2>1, <2>2
    <3> QED BY <2>1, <2>2, <3>2, <3>3 DEF Requested
  <2>4. g[1] = <<"chunk_length", c>>
    BY <1>20, <2>2, <2>3, Units
  <2> QED BY <2>1, <2>4
<1>5. Received(Server(k), 1) = c
  <2>1. g[1] = <<"chunk_length", c>>
    BY <1>3, <1>4
  <2>2. Received(Server(k), 1) = g[1][2]
    BY <1>3 DEF Received
  <2> HIDE DEF c
  <2>3. (<<"chunk_length", c>>)[2] = c
    BY <1>20
  <2> QED BY <2>1, <2>2, <2>3, Zenon
<1>7. /\ SrvGoto(k, "put_data") /\ BeginRecv(Server(k), c)
      /\ UNCHANGED <<wire, open, reset, store, src, shared, cl, put>>
  BY <1>5 DEF PutLengthReceived, kernel, history, clientSide
<1>8. /\ io' \in [Thread -> Call] /\ Only(Server(k))
      /\ io'[Server(k)].rc = 0 /\ io'[Server(k)].out = <<>> /\ io'[Server(k)].want = c
      /\ io'[Server(k)].got = <<>>
  <2> HIDE DEF c
  <2> QED BY <1>2, <1>7, <1>20, BeginsRecv
<1>10. /\ Steps(k) /\ srv'[k].at = "put_data" /\ srv'[k].name = srv[k].name
       /\ srv'[k].left = srv[k].left /\ srv'[k].off = srv[k].off
  BY <1>2, <1>7, Goes DEF ServerAt
<1>11. TypeOK' /\ ServerMoves(k)
  BY <1>2, <1>7, <1>8, <1>10, QuietMoves
<1>12. ASSUME NEW t \in {MSG_PUT, MSG_GET}, NEW n \in Nat, NEW b \in Nat, Begun(k, t, n, b),
              Along(Requests(src[k], t, n), g, b)
       PROVE  Begun(k, t, n, b + Len(g))'
  <2>1. PICK j \in Nat : /\ t = MSG_PUT /\ n = srv[k].name
                         /\ srv[k].off = Block(j) /\ b = 5 + Block(j) + j
    BY <1>4, <1>12
  <2>2. b + Len(g) = 6 + Block(j) + j
    <3>1. Len(g) = 1
      BY <1>3
    <3>2. b = 5 + Block(j) + j /\ Block(j) \in Nat
      BY <2>1, Blocks
    <3> QED BY <3>1, <3>2
  <2>3. Begun(k, t, n, 6 + Block(j) + j)'
    BY <1>10, <2>1 DEF Begun
  <2> QED BY <2>2, <2>3
<1>13. /\ ServerCalls(k)' /\ ServerLink(k)' /\ Request(k)'
       /\ \A u \in User : cl[u].conn = k => Reply(u)' /\ ClientFile(u)'
  <2>1. ServerAsks(k)' = c /\ srv[k].at \in Early /\ srv'[k].at \in Early \ {"none"}
    BY <1>1, <1>10 DEF ServerAsks, Early
  <2> HIDE DEF c
  <2>2. ReadOn(k, g)
    BY <1>12 DEF ReadOn
  <2> QED BY <1>1, <1>2, <1>3, <1>7, <1>8, <1>20, <2>1, <2>2, Reads
<1>14. ServerFile(k)' /\ \A j \in Conn : Clash(j, k)' /\ Clash(k, j)'
  <2>1. ServerFile(k) /\ src' = src /\ shared' = shared /\ store' = store /\ put' = put
    BY <1>7, Served
  <2>2. ServerFile(k)'
    BY <1>1, <1>10, <2>1 DEF ServerFile, Writing, Reading, Early
  <2>3. ASSUME NEW j \in Conn, j # k PROVE Clash(j, k)' /\ Clash(k, j)'
    <3>1. Clash(j, k) /\ Clash(k, j) /\ srv'[j] = srv[j]
      BY <1>10, <2>3, Served DEF Steps
    <3> QED BY <1>1, <1>10, <2>1, <3>1 DEF Clash, Writing, Reading
  <2>4. Clash(k, k)'
    BY DEF Clash
  <2> QED BY <2>2, <2>3, <2>4
<1> QED BY <1>11, <1>13, <1>14, ServerKeeps

\* A step of thread k away from its request, on the same end of the connection.
LEMMA StopsKeep ==
  ASSUME Inv, NEW k \in Conn, NEW at \in {"done", "close"}, SrvGoto(k, at), srv[k].at # "none",
         io[Server(k)].out = <<>>, io[Server(k)].want = 0, at = "done" => io[Server(k)].rc = 0,
         open[k]["server"],
         UNCHANGED <<wire, open, reset, io, store, src, shared, cl, put>>
  PROVE  Inv'
<1>1. TypeOK /\ ServerCalls(k) /\ ServerLink(k) /\ at \in ServerAt /\ io \in [Thread -> Call]
  BY Served, Types DEF ServerAt
<1>2. /\ Steps(k) /\ srv'[k].at = at /\ srv'[k].name = srv[k].name
      /\ srv'[k].left = srv[k].left /\ srv'[k].off = srv[k].off
  BY <1>1, Goes
<1>3. TypeOK' /\ ServerMoves(k)
  BY <1>1, <1>2, QuietMoves DEF Only
<1>4. ServerCalls(k)'
  <2>1. at \notin Reading /\ at \notin Early \union {"leaked", "none"}
    BY DEF Reading, Early
  <2>2. Asked(Server(k), ServerAsks(k))'
    BY <1>2 DEF Asked, ServerAsks
  <2>3. Failed(Server(k))' => io'[Server(k)] = [NoCall EXCEPT !.rc = -1]
    BY <1>1 DEF ServerCalls, Failed
  <2> QED BY <1>2, <2>1, <2>2, <2>3 DEF ServerCalls
<1>5. ServerLink(k)'
  BY <1>1, <1>2 DEF ServerLink, Free, Early, Reading
<1>6. /\ Request(k)' /\ ServerFile(k)' /\ \A j \in Conn : Clash(j, k)' /\ Clash(k, j)'
      /\ \A u \in User : cl[u].conn = k => Reply(u)' /\ ClientFile(u)'
  BY <1>2, Leaves DEF Only
<1> QED BY <1>3, <1>4, <1>5, <1>6, ServerKeeps

\* The transfer of a thread ends, well or with an error.
LEMMA StopKeeps ==
  ASSUME Inv, NEW k \in Conn, GetDone(k) \/ StoreError(k) \/ SrvCallFails(k)
  PROVE  Inv'
<1>1. /\ TypeOK /\ ServerCalls(k) /\ ServerLink(k)
      /\ UNCHANGED <<wire, open, reset, io, store, src, shared, cl, put>>
  BY Served DEF GetDone, StoreError, SrvCallFails, history, clientSide, streamVars
<1>2. CASE GetDone(k) \/ StoreError(k)
  <2>1. Succeeded(Server(k)) /\ srv[k].at \notin {"none", "ended", "leaked"}
    BY <1>2 DEF GetDone, StoreError, SrvCalled
  <2>2. open[k]["server"]
    BY <1>1, <2>1 DEF ServerLink
  <2>3. SrvGoto(k, "done") \/ SrvGoto(k, "close")
    BY <1>2 DEF GetDone, StoreError
  <2> QED BY <1>1, <2>1, <2>2, <2>3, StopsKeep DEF Succeeded, Returned
<1>3. CASE SrvCallFails(k)
  <2>1. /\ Failed(Server(k)) /\ srv[k].at \notin {"prot", "close", "ended", "leaked"}
        /\ SrvGoto(k, "close")
    BY <1>3 DEF SrvCallFails
  <2>2. io[Server(k)] = [NoCall EXCEPT !.rc = -1] /\ srv[k].at # "none"
    <3>1. io[Server(k)] = [NoCall EXCEPT !.rc = -1]
      BY <1>1, <2>1 DEF ServerCalls
    <3>2. srv[k].at # "none"
      BY <1>1, <2>1, NoCalls DEF ServerCalls, Failed
    <3> QED BY <3>1, <3>2
  <2>3. io[Server(k)].out = <<>> /\ io[Server(k)].want = 0
    BY <2>2 DEF NoCall
  <2>4. open[k]["server"]
    BY <1>1, <2>1, <2>2 DEF ServerLink
  <2> QED BY <1>1, <2>1, <2>2, <2>3, <2>4, StopsKeep
<1> QED BY <1>2, <1>3
\* A thread closes its connection.
LEMMA EndsKeep ==
  ASSUME Inv, NEW k \in Conn, NEW at \in {"ended", "leaked"}, SrvGoto(k, at), Close(k, "server"),
         io' \in [Thread -> Call], Only(Server(k)), io[Server(k)].out = <<>>,
         io'[Server(k)].out = <<>>, ServerCalls(k)', UNCHANGED <<store, src, shared, cl, put>>
  PROVE  Inv'
<1>1. TypeOK /\ StreamTypeOK(Thread, Unit) /\ ServerLink(k) /\ at \in ServerAt
  BY Served, Types DEF ServerAt
<1>2. /\ Steps(k) /\ srv'[k].at = at /\ srv'[k].name = srv[k].name
      /\ srv'[k].left = srv[k].left /\ srv'[k].off = srv[k].off
  BY <1>1, Goes
<1>3. /\ wire' \in [Conn -> [Side -> Seq(Unit)]] /\ open' \in [Conn -> [Side -> BOOLEAN]]
      /\ reset' \subseteq Conn
      /\ Touch(k, "client") /\ wire'[k]["client"] = <<>>
      /\ \A d \in Conn, u \in Side : d # k \/ u # "server" => open'[d][u] = open[d][u]
      /\ ~open'[k]["server"]
      /\ \A d \in Conn : d # k => (d \in reset' <=> d \in reset)
  BY <1>1, Closes, Sides
<1>4. TypeOK'
  <2>1. StreamTypeOK(Thread, Unit)'
    BY <1>3 DEF StreamTypeOK, Call
  <2>2. /\ cl \in [User -> [at : ClientAt, conn : Conn \union {0}, first : BOOLEAN,
                            name : Nat, left : Nat, file : File]]
        /\ DOMAIN store \subseteq Name /\ \A nm \in DOMAIN store : store[nm] \in File
        /\ src \in [Conn -> File] /\ {shared, put} \subseteq SUBSET Conn
    BY <1>1 DEF TypeOK
  <2> QED BY <1>2, <2>1, <2>2 DEF TypeOK, Steps, Record
<1>5. ServerMoves(k)
  <2>1. \A j \in Conn \ {k}, s \in Side : wire'[j][s] = wire[j][s] /\ open'[j][s] = open[j][s]
    BY <1>3 DEF Touch
  <2>2. open'[k]["client"] = open[k]["client"] /\ srv'[k].at # "none"
    BY <1>2, <1>3, Sides
  <2> QED BY <1>2, <1>3, <2>1, <2>2 DEF ServerMoves, Steps
<1>6. wire'[k]["server"] = wire[k]["server"]
  BY <1>3, Sides DEF Touch
<1>7. ServerLink(k)'
  BY <1>2, <1>3, Sides DEF ServerLink, Free, Early, Reading
<1>8. /\ Request(k)' /\ ServerFile(k)' /\ \A j \in Conn : Clash(j, k)' /\ Clash(k, j)'
      /\ \A u \in User : cl[u].conn = k => Reply(u)' /\ ClientFile(u)'
  BY <1>2, <1>6, Leaves
<1> QED BY <1>4, <1>5, <1>7, <1>8, ServerKeeps

\* The thread of a connection ends and closes it, or leaves it open.
LEMMA EndKeeps ==
  ASSUME Inv, NEW k \in Conn, RunFails(k) \/ EndThread(k)
  PROVE  Inv'
<1>1. TypeOK /\ io \in [Thread -> Call] /\ ServerCalls(k) /\ Server(k) \in Thread
  BY Served, Types
<1>2. CASE RunFails(k)
  <2>1. /\ srv[k].at = "prot" /\ Failed(Server(k)) /\ Close(k, "server") /\ SrvGoto(k, "leaked")
        /\ UNCHANGED <<io, store, src, shared, cl, put>>
    BY <1>2 DEF RunFails, history, clientSide
  <2>2. /\ io[Server(k)] = [NoCall EXCEPT !.rc = -1]
        /\ ~open[k]["client"] /\ k \notin put
    BY <1>1, <2>1 DEF ServerCalls, Early
  <2>3. io[Server(k)].out = <<>> /\ io[Server(k)].want = 0 /\ io[Server(k)].rc = -1
    BY <2>2 DEF NoCall
  <2>4. srv'[k].at = "leaked"
    BY <1>1, <2>1, Goes DEF ServerAt
  <2>5. ~open'[k]["client"]
    <3>1. StreamTypeOK(Thread, Unit)
      BY <1>1, Types
    <3>2. \A d \in Conn, u \in Side : d # k \/ u # "server" => open'[d][u] = open[d][u]
      BY <2>1, <3>1, Closes, Sides
    <3> QED BY <2>2, <3>2, Sides
  <2>6. ServerCalls(k)'
    BY <2>1, <2>2, <2>3, <2>4, <2>5 DEF ServerCalls, Failed, Reading, Early
  <2> QED BY <1>1, <2>1, <2>3, <2>6, EndsKeep DEF Only
<1>3. CASE EndThread(k)
  <2>1. /\ srv[k].at \in {"done", "close"} /\ Close(k, "server") /\ SrvGoto(k, "ended")
        /\ io' = [io EXCEPT ![Server(k)] = NoCall]
        /\ UNCHANGED <<store, src, shared, cl, put>>
    BY <1>3 DEF EndThread, history, clientSide
  <2>2. srv'[k].at = "ended"
    BY <1>1, <2>1, Goes DEF ServerAt
  <2>3. io' \in [Thread -> Call] /\ Only(Server(k)) /\ io'[Server(k)] = NoCall
    BY <1>1, <2>1, NoCalls DEF Only
  <2>4. io[Server(k)].out = <<>> /\ io'[Server(k)].out = <<>>
    BY <1>1, <2>1, <2>3, NoCalls DEF ServerCalls, Reading
  <2>5. ServerCalls(k)'
    <3>1. io'[Server(k)].rc = 0 /\ io'[Server(k)].want = 0
      BY <2>3, NoCalls
    <3>2. Asked(Server(k), ServerAsks(k))'
      BY <2>2, <3>1 DEF Asked, ServerAsks
    <3>3. ~Failed(Server(k))'
      BY <3>1 DEF Failed
    <3> QED BY <2>2, <2>3, <2>4, <3>1, <3>2, <3>3 DEF ServerCalls, Reading, Early
  <2> QED BY <2>1, <2>3, <2>4, <2>5, EndsKeep
<1> QED BY <1>2, <1>3
\* Who opens a file joins those that have it open.
LEMMA Joins ==
  ASSUME Inv, NEW k \in Conn, NEW nm, NEW writes \in BOOLEAN, OpenShared(k, nm, writes)
  PROVE  /\ shared \subseteq shared' /\ shared' \subseteq Conn
         /\ \A j \in Conn \ {k} :
              /\ j \in shared' => j \in shared \/ srv[j].at # "none"
              /\ srv[j].name = nm /\ srv[j].at \in Writing => {j, k} \subseteq shared'
              /\ srv[j].name = nm /\ srv[j].at \in Reading /\ writes => {j, k} \subseteq shared'
<1> DEFINE C == Conflicts(k, nm, writes)
<1>1. shared' = (IF C = {} THEN shared ELSE shared \union C \union {k}) /\ shared \subseteq Conn
  BY Served DEF OpenShared, TypeOK
<1>2. C \subseteq Conn \ {k} /\ \A j \in C : srv[j].at # "none"
  BY DEF Conflicts, Writing, Reading
<1>3. \A j \in Conn \ {k} : /\ srv[j].name = nm /\ srv[j].at \in Writing => j \in C
                            /\ srv[j].name = nm /\ srv[j].at \in Reading /\ writes => j \in C
  BY DEF Conflicts
<1> HIDE DEF C
<1> QED BY <1>1, <1>2, <1>3

\* runGet() opens the file and sends its header.
LEMMA GetOpenFileKeeps ==
  ASSUME Inv, NEW k \in Conn, GetOpenFile(k)
  PROVE  Inv'
<1>1. srv[k].at = "get_url" /\ Succeeded(Server(k)) /\ srv[k].at \in Early \ {"none"}
  BY DEF GetOpenFile, SrvCalled, Early
<1>2. /\ Len(io[Server(k)].got) = 1 /\ open[k]["server"] /\ io[Server(k)].out = <<>>
      /\ TypeOK /\ StreamTypeOK(Thread, Unit) /\ Server(k) \in Thread
      /\ wire[k]["server"] = <<>> /\ k \notin reset
  <2>1. /\ Len(io[Server(k)].got) = 1 /\ open[k]["server"] /\ io[Server(k)].out = <<>>
        /\ TypeOK /\ StreamTypeOK(Thread, Unit) /\ Server(k) \in Thread
    BY <1>1, HasRead DEF ServerAsks
  <2> QED BY <1>1, <2>1, Served DEF ServerLink
<1>3. PICK g \in Seq(Unit), type \in {MSG_PUT, MSG_GET}, nm \in Nat, a \in Nat :
        /\ g = io[Server(k)].got /\ Begun(k, type, nm, a) /\ Len(g) = 1
        /\ Along(Requests(src[k], type, nm), g, a)
        /\ k \in put => type = MSG_PUT
        /\ \A u \in User : cl[u].conn = k /\ Live(u) /\ cl[u].first =>
             \E b \in Nat : b >= a + Len(g) /\ Sent(u, src[k], type, nm, b)
  <2>1. \E g \in Seq(Unit), type \in {MSG_PUT, MSG_GET}, nm \in Nat, a \in Nat :
          /\ g = io[Server(k)].got /\ Begun(k, type, nm, a)
          /\ Along(Requests(src[k], type, nm), g, a)
          /\ k \in put => type = MSG_PUT
          /\ \A u \in User : cl[u].conn = k /\ Live(u) /\ cl[u].first =>
               \E b \in Nat : b >= a + Len(g) /\ Sent(u, src[k], type, nm, b)
    BY <1>1, HasRead
  <2> QED BY <1>2, <2>1
<1>4. type = MSG_GET /\ a = 2 /\ k \notin put
  <2>1. Begun(k, type, nm, a) /\ (k \in put => type = MSG_PUT)
    BY <1>3
  <2>2. type = MSG_GET /\ a = 2
    BY <1>1, <2>1 DEF Begun
  <2> QED BY <2>1, <2>2 DEF MSG_PUT, MSG_GET
<1>5. g[1] = <<"name", nm>> /\ nm \in Name
  <2>1. g[1] = NameUnit(nm)[1] /\ nm \in Name
    <3>1. 1 \in 1 .. Len(g)
      BY <1>3
    <3>2. Requested(src[k], type, nm, 2 + 1, g[1])
      BY <1>3, <1>4, <3>1, ComesNext
    <3> QED BY <3>2 DEF Requested
  <2> QED BY <2>1, Units
<1>6. Received(Server(k), 1) = nm
  BY <1>3, <1>5 DEF Received
<1>7. PICK F \in File, n \in Nat : F = store[nm] /\ n = Len(F)
  <2>1. nm \in DOMAIN store
    BY <1>6 DEF GetOpenFile
  <2> QED BY <1>2, <2>1, LenProperties DEF TypeOK, File
<1>8. /\ BeginSend(Server(k), FileProt(n)) /\ nm \in DOMAIN store
      /\ srv' = [srv EXCEPT ![k].at = "get_prot", ![k].name = nm, ![k].left = n]
      /\ src' = [src EXCEPT ![k] = F] /\ OpenShared(k, nm, FALSE)
      /\ UNCHANGED <<wire, open, reset, store, cl, put>>
  BY <1>6, <1>7 DEF GetOpenFile, kernel, clientSide
<1>9. FileProt(n) \in Seq(Unit) /\ Len(FileProt(n)) = 2
  BY <1>7, Units
<1>10. /\ io' \in [Thread -> Call] /\ Only(Server(k))
       /\ io'[Server(k)].rc = 0 /\ io'[Server(k)].out = FileProt(n) /\ io'[Server(k)].want = 0
       /\ io'[Server(k)].got = <<>>
  <2> QED BY <1>2, <1>8, <1>9, BeginsSend
<1>11. /\ Steps(k) /\ srv'[k].at = "get_prot" /\ srv'[k].name = nm
       /\ srv'[k].left = n /\ srv'[k].off = srv[k].off
  <2>1. srv \in [Conn -> Record] /\ srv[k] \in Record
    BY <1>2 DEF TypeOK, Record
  <2>2. /\ srv'[k] = [srv[k] EXCEPT !.at = "get_prot", !.name = nm, !.left = n]
        /\ \A j \in Conn \ {k} : srv'[j] = srv[j]
    BY <1>8, <2>1
  <2>3. srv' \in [Conn -> Record]
    BY <1>7, <1>8, <2>1 DEF Record, ServerAt
  <2> QED BY <1>7, <2>1, <2>2, <2>3 DEF Steps, Record
<1>12. src' \in [Conn -> File] /\ src'[k] = F /\ \A j \in Conn \ {k} : src'[j] = src[j]
  BY <1>2, <1>7, <1>8 DEF TypeOK
<1>13. /\ shared \subseteq shared' /\ shared' \subseteq Conn
       /\ \A j \in Conn \ {k} :
            /\ j \in shared' => j \in shared \/ srv[j].at # "none"
            /\ srv[j].name = nm /\ srv[j].at \in Writing => {j, k} \subseteq shared'
  BY <1>8, Joins
<1>14. TypeOK'
  <2>1. DOMAIN store \subseteq Name /\ \A m \in DOMAIN store : store[m] \in File
    BY <1>2 DEF TypeOK
  <2> QED BY <1>2, <1>8, <1>10, <1>11, <1>12, <1>13, <2>1, TypesKept DEF Steps
<1>15. ServerMoves(k)
  BY <1>8, <1>10, <1>11, <1>12, <1>13 DEF ServerMoves, Steps
<1>16. ServerCalls(k)'
  <2>1. Asked(Server(k), ServerAsks(k))'
    BY <1>10, <1>11 DEF Asked, ServerAsks
  <2>2. ~Failed(Server(k))' /\ srv'[k].at \in Reading /\ srv'[k].at \notin {"none", "done", "leaked"}
    <3>1. ~Failed(Server(k))'
      BY <1>10 DEF Failed
    <3> QED BY <1>11, <3>1 DEF Reading
  <2> QED BY <2>1, <2>2, Zenon DEF ServerCalls
<1>17. ServerLink(k)'
  BY <1>2, <1>8, <1>11 DEF ServerLink, Free, Early
<1>18. Request(k)'
  BY <1>11 DEF Request, Early
<1>19. ServerFile(k)'
  <2>1. srv[k].off = 0
    BY <1>1, Served DEF ServerFile, Early, Writing
  <2>2. srv'[k].off = 0 /\ srv'[k].off + srv'[k].left = Len(src'[k])
    <3>1. srv'[k].off = 0 /\ srv'[k].left = n
      BY <1>11, <2>1
    <3>2. Len(src'[k]) = n /\ 0 + n = n
      BY <1>7, <1>12
    <3> QED BY <3>1, <3>2
  <2>3. /\ srv'[k].name \in DOMAIN store' /\ k \notin put' /\ store'[srv'[k].name] = src'[k]
        /\ srv'[k].at \notin Writing \union {"put_prot"}
    BY <1>4, <1>7, <1>8, <1>11, <1>12 DEF Writing
  <2> QED BY <2>2, <2>3, Zenon DEF ServerFile
<1>20. \A j \in Conn : Clash(j, k)' /\ Clash(k, j)'
  BY <1>11, <1>13 DEF Clash, Steps, Writing, Reading
<1>21. ASSUME NEW u \in User, cl[u].conn = k PROVE Reply(u)' /\ ClientFile(u)'
  <2>1. /\ cl'[u] = cl[u] /\ io'[Client(u)] = io[Client(u)] /\ (Live(u)' <=> Live(u))
        /\ io[Client(u)] \in Call
    BY <1>2, <1>8, <1>10, Threads, Types DEF Only, Live
  <2>2. CASE ~Live(u)
    BY <2>1, <2>2 DEF Reply, ClientFile
  <2>3. CASE Live(u)
    <3>1. Reply(u)
      BY Served
    <3>2. cl[u].first
      BY <1>1, <1>4, <1>21, <2>3, <3>1 DEF Reply, Early
    <3>3. PICK b \in Nat : b >= a + Len(g) /\ Sent(u, src[k], type, nm, b)
      BY <1>3, <1>21, <2>3, <3>2
    <3>4. cl[u].at \in GetAt /\ cl[u].name = nm
      <4>1. b >= 3
        BY <1>3, <1>4, <3>3
      <4>2. /\ b # 0 /\ b # 2 /\ type = MSG_GET /\ type # MSG_PUT /\ Sent(u, src[k], type, nm, b)
        BY <1>4, <3>3, <4>1 DEF MSG_PUT, MSG_GET
      <4> QED BY <4>2, Zenon DEF Sent
    <3>5. cl[u].at \in {"get_name", "get_file"} /\ io[Client(u)].got = <<>>
      BY <1>1, <1>21, <2>3, <3>1, <3>2, <3>4 DEF Reply, Early
    <3>6. Outgoing(u, k)' = FileProt(n) /\ Taken(u)' = 0 /\ Given(k)' = 2
      <4>1. Outgoing(u, k)' = (<<>> \o <<>>) \o FileProt(n)
        BY <1>2, <1>8, <1>10, <2>1, <3>5 DEF Outgoing
      <4>2. <<>> \in Seq(Unit)
        BY EmptySeq
      <4>3. (<<>> \o <<>>) \o FileProt(n) = FileProt(n)
        BY <1>9, <4>2, ConcatEmptySeq
      <4> QED BY <1>11, <2>1, <3>5, <4>1, <4>3 DEF Taken, Given
    <3>7. Along(Replies(k, shared', F, nm), FileProt(n), 0)
      <4>1. ASSUME NEW i \in 1 .. 2 PROVE FileProt(n)[i] \in Replies(k, shared', F, nm)[0 + i]
        <5>1. FileProt(n)[i] \in Unit
          BY <1>9, LenProperties
        <5>2. Replied(k, shared', F, nm, i, FileProt(n)[i])
          BY <1>7 DEF Replied
        <5> QED BY <5>1, <5>2, ReplyIs
      <4> QED BY <1>9, <4>1 DEF Along
    <3>8. Reply(u)'
      <4>1. Taken(u)' + Len(Outgoing(u, k)') = Given(k)' /\ srv'[k].name = cl'[u].name
        <5>1. Taken(u)' = 0 /\ Len(Outgoing(u, k)') = 2 /\ Given(k)' = 2
          BY <1>9, <3>6
        <5>2. srv'[k].name = cl'[u].name
          BY <1>11, <2>1, <3>4
        <5> QED BY <5>1, <5>2
      <4>2. srv'[k].at \notin Early
        BY <1>11 DEF Early
      <4>3. Along(Replies(k, shared', src'[k], cl'[u].name), Outgoing(u, k)', Taken(u)')
        BY <1>12, <2>1, <3>4, <3>6, <3>7
      <4> QED BY <1>21, <2>1, <3>2, <3>4, <4>1, <4>2, <4>3 DEF Reply
    <3>9. ClientFile(u)'
      BY <2>1, <3>5 DEF ClientFile, PutFile, GotFile
    <3> QED BY <3>8, <3>9
  <2> QED BY <2>2, <2>3
<1> QED BY <1>14, <1>15, <1>16, <1>17, <1>18, <1>19, <1>20, <1>21, ServerKeeps
\* Thread k sends the next piece s of its reply, after p units.
SendsOn(k, s, p) ==
    /\ srv[k].at \in Reading /\ srv'[k].at \in Reading \ {"get_prot"}
    /\ srv'[k].name = srv[k].name /\ (srv[k].at = "get_prot" \/ srv[k].left # 0)
    /\ UNCHANGED <<wire, open, reset, src, shared, cl, put>> /\ Succeeded(Server(k))
    /\ Only(Server(k)) /\ io'[Server(k)].rc = 0 /\ io'[Server(k)].out = s
    /\ io'[Server(k)].got = <<>> /\ io'[Server(k)].want = 0
    /\ Given(k) = p /\ Given(k)' = p + Len(s)
    /\ Along(Replies(k, shared, src[k], srv[k].name), s, p)

\* The server goes on sending its reply: what it sends stands behind what it has sent.
LEMMA RepliesMore ==
  ASSUME Inv, NEW k \in Conn, NEW s \in Seq(Unit), NEW p \in Nat, SendsOn(k, s, p)
  PROVE  /\ ServerCalls(k)' /\ ServerLink(k)' /\ Request(k)'
         /\ \A u \in User : cl[u].conn = k => Reply(u)' /\ ClientFile(u)'
<1>0. /\ srv[k].at \in Reading /\ srv'[k].at \in Reading \ {"get_prot"}
      /\ srv'[k].name = srv[k].name
      /\ UNCHANGED <<wire, open, reset, src, shared, cl, put>> /\ Succeeded(Server(k))
      /\ Only(Server(k)) /\ io'[Server(k)].out = s
      /\ io'[Server(k)].got = <<>>
  BY DEF SendsOn
<1>00. io'[Server(k)].rc = 0 /\ io'[Server(k)].want = 0
  BY DEF SendsOn
<1>1. /\ TypeOK /\ ServerCalls(k) /\ ServerLink(k) /\ io[Server(k)].out = <<>>
      /\ srv[k].at \notin Early /\ srv'[k].at \notin Early /\ srv'[k].at \in Reading
      /\ Len(s) \in Nat
  BY <1>0, Served, LenProperties DEF Succeeded, Returned, Early, Reading
<1>2. ServerCalls(k)'
  <2>1. ~Failed(Server(k))'
    BY <1>00 DEF Failed
  <2>2. ServerAsks(k)' = 0 /\ srv'[k].at \notin {"none", "done", "leaked"}
    BY <1>0 DEF ServerAsks, Reading
  <2>3. Asked(Server(k), ServerAsks(k))'
    BY <1>00, <2>2 DEF Asked
  <2> QED BY <1>1, <2>1, <2>2, <2>3, Zenon DEF ServerCalls
<1>3. ServerLink(k)'
  <2>1. srv[k].at \notin {"none", "ended", "leaked"} /\ srv'[k].at \notin {"none", "ended", "leaked"}
    BY <1>0, <1>1 DEF Reading
  <2> QED BY <1>0, <1>1, <2>1 DEF ServerLink, Free
<1>4. Request(k)'
  BY <1>1 DEF Request
<1>5. ASSUME NEW u \in User, cl[u].conn = k PROVE Reply(u)' /\ ClientFile(u)'
  <2>1. /\ cl'[u] = cl[u] /\ io'[Client(u)] = io[Client(u)] /\ (Live(u)' <=> Live(u))
        /\ io[Client(u)] \in Call /\ Reply(u) /\ ClientFile(u) /\ Len(cl[u].file) \in Nat
    BY <1>0, <1>1, Threads, Types, Served DEF Only, Live
  <2>2. ClientFile(u)'
    BY <1>0, <2>1, StillClientFile
  <2>3. CASE ~Live(u)
    BY <2>1, <2>2, <2>3 DEF Reply
  <2>4. CASE Live(u)
    <3>1. cl[u].first /\ cl[u].at \in GetAt
      BY <1>0, <1>5, <2>1, <2>4 DEF Reply, SendsOn
    <3>2. /\ Along(Replies(k, shared, src[k], cl[u].name), Outgoing(u, k), Taken(u))
          /\ Taken(u) + Len(Outgoing(u, k)) = p
          /\ srv[k].name = cl[u].name
      BY <1>0, <1>5, <2>1, <2>4, <3>1 DEF Reply, SendsOn
    <3>3. PICK g \in Seq(Unit), w \in Seq(Unit) :
            /\ g = io[Client(u)].got /\ w = wire[k]["server"]
      BY <2>1, Served DEF Call
    <3>4. PICK o \in Seq(Unit) : o = g \o w
      BY Concat
    <3>5. Outgoing(u, k) = o /\ Outgoing(u, k)' = o \o s
      <4>1. Outgoing(u, k) = o \o <<>>
        BY <1>1, <3>3, <3>4 DEF Outgoing
      <4> QED BY <1>0, <2>1, <3>3, <3>4, <4>1, ConcatEmptySeq DEF Outgoing
    <3>6. Taken(u) \in Nat /\ Taken(u)' = Taken(u) /\ Len(o) \in Nat
      <4>1. 3 + Len(cl[u].file) \in Nat /\ Len(o) \in Nat
        BY <2>1, LenProperties
      <4> QED BY <2>1, <4>1 DEF Taken
    <3>7. Along(Replies(k, shared, src[k], cl[u].name), o \o s, Taken(u))
      <4> DEFINE R == Replies(k, shared, src[k], cl[u].name)
      <4>1. Along(R, o, Taken(u)) /\ Along(R, s, Taken(u) + Len(o))
        BY <3>2, <3>5 DEF SendsOn
      <4> DEFINE a == Taken(u)
      <4>2. a \in Nat /\ Along(R, o, a) /\ Along(R, s, a + Len(o))
        BY <3>6, <4>1
      <4> HIDE DEF R, a
      <4>3. Along(R, o \o s, a)
        BY <4>2, AlongJoin
      <4> QED BY <4>3 DEF a, R
    <3>8. Taken(u) + Len(o \o s) = p + Len(s)
      <4>1. Len(o \o s) = Len(o) + Len(s)
        BY Concat
      <4>2. Taken(u) + Len(o) = p
        BY <3>2, <3>5
      <4>3. PICK n \in Nat, lo \in Nat, ls \in Nat : n = Taken(u) /\ lo = Len(o) /\ ls = Len(s)
        BY <3>6, LenProperties
      <4>4. n + (lo + ls) = p + ls
        <5>1. n + lo = p
          BY <4>2, <4>3
        <5>2. (n + lo) + ls = p + ls
          BY <5>1, Zenon
        <5> QED BY <5>2
      <4> QED BY <4>1, <4>3, <4>4
    <3>9. /\ Taken(u)' + Len(Outgoing(u, k)') = Given(k)' /\ srv'[k].name = cl'[u].name
      BY <1>0, <2>1, <3>2, <3>5, <3>6, <3>8 DEF SendsOn
    <3>10. Along(Replies(k, shared', src'[k], cl'[u].name), Outgoing(u, k)', Taken(u)')
      BY <1>0, <2>1, <3>5, <3>6, <3>7
    <3> QED BY <1>1, <1>5, <2>1, <2>2, <3>1, <3>9, <3>10 DEF Reply
  <2> QED BY <2>3, <2>4
<1> QED BY <1>2, <1>3, <1>4, <1>5

\* A thread that reads its file goes on reading it.
LEMMA StillReading ==
  ASSUME Inv, NEW k \in Conn, Steps(k), srv[k].at \in Reading, srv'[k].at \in {"get_name", "get_data"},
         srv'[k].name = srv[k].name, srv'[k].off + srv'[k].left = Len(src[k]),
         srv'[k].at = "get_name" => srv'[k].off = 0,
         UNCHANGED <<store, src, shared, put>>
  PROVE  ServerFile(k)' /\ \A j \in Conn : Clash(j, k)' /\ Clash(k, j)'
<1>1. /\ ServerFile(k) /\ srv[k].at \notin Writing /\ srv'[k].at \notin Writing \union Early
      /\ srv'[k].at \in Reading
  BY Served DEF Writing, Reading, Early
<1>2. ServerFile(k)'
  <2>1. /\ srv[k].name \in DOMAIN store /\ k \notin put
        /\ k \notin shared => store[srv[k].name] = src[k]
    BY <1>1 DEF ServerFile
  <2>2. srv'[k].at \notin {"put_prot", "get_prot"}
    OBVIOUS
  <2> QED BY <1>1, <2>1, <2>2 DEF ServerFile
<1>3. ASSUME NEW j \in Conn PROVE Clash(j, k)' /\ Clash(k, j)'
  <2>1. Clash(j, k) /\ Clash(k, j) /\ (j # k => srv'[j] = srv[j])
    BY Served DEF Steps
  <2> QED BY <1>1, <2>1 DEF Clash
<1> QED BY <1>2, <1>3

\* runGet() sends the name.
LEMMA GetSendNameKeeps ==
  ASSUME Inv, NEW k \in Conn, GetSendName(k)
  PROVE  Inv'
<1>1. /\ TypeOK /\ StreamTypeOK(Thread, Unit) /\ Server(k) \in Thread /\ ServerFile(k)
      /\ srv[k].at = "get_prot" /\ Succeeded(Server(k)) /\ SrvGoto(k, "get_name")
      /\ UNCHANGED <<wire, open, reset, store, src, shared, cl, put>>
  BY Served, Types DEF GetSendName, SrvCalled, kernel, history, clientSide
<1>2. PICK nm \in Nat : nm = srv[k].name
  BY Served
<1>3. PICK s \in Seq(Unit) : s = NameUnit(nm) /\ Len(s) = 1
  BY Units
<1>4. /\ io' \in [Thread -> Call] /\ Only(Server(k))
      /\ io'[Server(k)].rc = 0 /\ io'[Server(k)].out = s /\ io'[Server(k)].want = 0
      /\ io'[Server(k)].got = <<>>
  <2>1. BeginSend(Server(k), s)
    BY <1>2, <1>3 DEF GetSendName
  <2> QED BY <1>1, <2>1, BeginsSend
<1>5. /\ Steps(k) /\ srv'[k].at = "get_name" /\ srv'[k].name = srv[k].name
      /\ srv'[k].left = srv[k].left /\ srv'[k].off = srv[k].off
  BY <1>1, Goes DEF ServerAt
<1>6. TypeOK' /\ ServerMoves(k)
  BY <1>1, <1>4, <1>5, QuietMoves
<1>7. Along(Replies(k, shared, src[k], srv[k].name), s, 2)
  <2>1. ASSUME NEW i \in 1 .. Len(s) PROVE s[i] \in Replies(k, shared, src[k], nm)[2 + i]
    <3>1. i = 1 /\ s[1] \in Unit
      BY <1>3, LenProperties, SMTT(30)
    <3>2. Replied(k, shared, src[k], nm, 3, s[1])
      BY <1>3 DEF Replied
    <3>3. s[1] \in Replies(k, shared, src[k], nm)[3]
      BY <3>1, <3>2, ReplyIs
    <3> QED BY <3>1, <3>3
  <2> QED BY <1>2, <2>1 DEF Along
<1>8. /\ ServerCalls(k)' /\ ServerLink(k)' /\ Request(k)'
      /\ \A u \in User : cl[u].conn = k => Reply(u)' /\ ClientFile(u)'
  <2>1. Given(k) = 2 /\ Given(k)' = 3
    BY <1>1, <1>5 DEF Given
  <2>2. 3 = 2 + Len(s)
    BY <1>3
  <2>3. srv[k].at \in Reading /\ srv'[k].at \in Reading \ {"get_prot"}
    BY <1>1, <1>5 DEF Reading
  <2>4. SendsOn(k, s, 2)
    BY <1>1, <1>4, <1>5, <1>7, <2>1, <2>2, <2>3 DEF SendsOn
  <2> QED BY <2>4, RepliesMore
<1>9. ServerFile(k)' /\ \A j \in Conn : Clash(j, k)' /\ Clash(k, j)'
  <2>1. srv[k].off = 0 /\ srv[k].off + srv[k].left = Len(src[k]) /\ srv[k].at \in Reading
    BY <1>1 DEF ServerFile, Reading
  <2> QED BY <1>1, <1>5, <2>1, StillReading
<1> QED BY <1>6, <1>8, <1>9, ServerKeeps

\* A read of n pieces at position o that is not cut short.
LEMMA ReadsFile ==
  ASSUME NEW f \in File, NEW o \in Nat, NEW n \in Nat \ {0},
         Len(SubSeq(f, o + 1, Min({Len(f), o + n}))) = n
  PROVE  LET s == SubSeq(f, o + 1, Min({Len(f), o + n})) IN
         /\ s \in File /\ o + n <= Len(f)
         /\ \A i \in 1 .. n : s[i] \in Nat /\ s[i] = f[o + i]
<1> DEFINE s == SubSeq(f, o + 1, Min({Len(f), o + n}))
<1>0. Len(s) = n
  OBVIOUS
<1> HIDE DEF s
<1>1. Len(f) \in Nat /\ f \in [1 .. Len(f) -> Nat]
  BY LenProperties DEF File
<1>2. ASSUME NEW a \in Nat, NEW b \in Nat PROVE Min({a, b}) = IF a <= b THEN a ELSE b
  BY DEF Min
<1>3. PICK m \in Nat : m = Min({Len(f), o + n}) /\ m <= Len(f) /\ m <= o + n
  <2> DEFINE e == o + n
  <2>1. e \in Nat
    OBVIOUS
  <2> HIDE DEF e
  <2>2. Min({Len(f), e}) = IF Len(f) <= e THEN Len(f) ELSE e
    BY <1>1, <1>2, <2>1
  <2>3. PICK m \in Nat : m = Min({Len(f), e}) /\ m <= Len(f) /\ m <= e
    BY <1>1, <2>1, <2>2
  <2> QED BY <2>3 DEF e
<1>4. s = SubSeq(f, o + 1, m)
  BY <1>3 DEF s
<1>5. \A i \in o + 1 .. m : f[i] \in Nat
  BY <1>1, <1>3
<1>6. o + 1 \in Int /\ m \in Int
  OBVIOUS
<1>7. Len(SubSeq(f, o + 1, m)) = IF o + 1 <= m THEN m - (o + 1) + 1 ELSE 0
  BY <1>5, <1>6, SubSeqProperties
<1>8. m = o + n
  <2>1. n = IF o + 1 <= m THEN m - (o + 1) + 1 ELSE 0
    BY <1>0, <1>4, <1>7
  <2> QED BY <1>6, <2>1
<1>9. /\ SubSeq(f, o + 1, m) \in File
      /\ \A i \in 1 .. m - o : SubSeq(f, o + 1, m)[i] = f[o + i]
  <2>1. o <= m
    BY <1>8
  <2> QED BY <1>3, <2>1, Parts
<1>10. m - o = n /\ o + n <= Len(f)
  BY <1>3, <1>8
<1>11. \A i \in 1 .. n : f[o + i] \in Nat
  BY <1>5, <1>8
<1>12. /\ s \in File /\ o + n <= Len(f)
       /\ \A i \in 1 .. n : s[i] \in Nat /\ s[i] = f[o + i]
  BY <1>4, <1>9, <1>10, <1>11
<1> QED BY <1>12 DEF s
\* runGet() sends the next chunk of the file.
LEMMA GetSendChunkKeeps ==
  ASSUME Inv, NEW k \in Conn, GetSendChunk(k)
  PROVE  Inv'
<1>1. /\ TypeOK /\ StreamTypeOK(Thread, Unit) /\ Server(k) \in Thread /\ ServerFile(k)
      /\ srv[k].at \in {"get_name", "get_data"} /\ Succeeded(Server(k))
      /\ UNCHANGED <<wire, open, reset, store, src, shared, cl, put>>
  BY Served, Types DEF GetSendChunk, SrvCalled, kernel, history, clientSide
<1>2. PICK nm \in Nat, o \in Nat, left \in Nat, F \in File :
        nm = srv[k].name /\ o = srv[k].off /\ left = srv[k].left /\ F = src[k]
  BY Served
<1>3. PICK f \in File : f = store[nm]
  <2>1. srv[k].name \in DOMAIN store
    BY <1>1 DEF ServerFile, Reading
  <2> QED BY <1>1, <1>2, <2>1 DEF TypeOK
<1>40. left > 0
  BY <1>2 DEF GetSendChunk
<1>4. PICK n \in Nat : n = FileChunk(left) /\ n > 0 /\ n <= left
  BY <1>40, Chunks
<1>5. FileData(k) = SubSeq(f, o + 1, Min({Len(f), o + n}))
  BY <1>2, <1>3, <1>4 DEF FileData
<1>6. Len(FileData(k)) = n
  BY <1>2, <1>4 DEF GetSendChunk
<1>7. PICK d \in File : /\ d = FileData(k) /\ Len(d) = n
                        /\ \A i \in 1 .. n : d[i] \in Nat /\ d[i] = f[o + i]
  <2>1. Len(SubSeq(f, o + 1, Min({Len(f), o + n}))) = n /\ n \in Nat \ {0}
    <3>1. Len(SubSeq(f, o + 1, Min({Len(f), o + n}))) = n
      BY <1>5, <1>6, Zenon
    <3>2. n # 0
      BY <1>4
    <3> QED BY <3>1, <3>2, Zenon
  <2> DEFINE e == SubSeq(f, o + 1, Min({Len(f), o + n}))
  <2>2. e \in File /\ \A i \in 1 .. n : e[i] \in Nat /\ e[i] = f[o + i]
    BY <2>1, ReadsFile
  <2>3. e = FileData(k) /\ Len(e) = n
    BY <1>5, <2>1
  <2> HIDE DEF e
  <2> QED BY <2>2, <2>3
<1>8. PICK s \in Seq(Unit) : s = Data(d) /\ Len(s) = n /\ \A i \in 1 .. n : s[i] = <<"data", d[i]>>
  BY <1>7, Datas
<1>9. /\ io' \in [Thread -> Call] /\ Only(Server(k))
      /\ io'[Server(k)].rc = 0 /\ io'[Server(k)].out = s /\ io'[Server(k)].want = 0
      /\ io'[Server(k)].got = <<>>
  <2>1. BeginSend(Server(k), s)
    BY <1>7, <1>8 DEF GetSendChunk
  <2> QED BY <1>1, <2>1, BeginsSend
<1>10. /\ Steps(k) /\ srv'[k].at = "get_data" /\ srv'[k].name = nm
       /\ srv'[k].left = left - n /\ srv'[k].off = o + n
  <2>1. srv \in [Conn -> Record] /\ srv[k] \in Record /\ left - n \in Nat /\ o + n \in Nat
    <3>1. srv \in [Conn -> Record] /\ srv[k] \in Record
      BY <1>1 DEF TypeOK, Record
    <3>2. left - n \in Nat /\ o + n \in Nat
      BY <1>4
    <3> QED BY <3>1, <3>2
  <2>2. srv' = [srv EXCEPT ![k].at = "get_data", ![k].left = left - n, ![k].off = o + n]
    BY <1>2, <1>4 DEF GetSendChunk
  <2>3. /\ srv'[k] = [srv[k] EXCEPT !.at = "get_data", !.left = left - n, !.off = o + n]
        /\ \A j \in Conn \ {k} : srv'[j] = srv[j]
    BY <2>1, <2>2
  <2>4. srv' \in [Conn -> Record]
    BY <2>1, <2>2 DEF Record, ServerAt
  <2> QED BY <1>2, <2>1, <2>3, <2>4 DEF Steps, Record
<1>11. TypeOK' /\ ServerMoves(k)
  BY <1>1, <1>9, <1>10, QuietMoves
<1>12. /\ o + left = Len(F) /\ (srv[k].at = "get_name" => o = 0)
       /\ k \notin shared => f = F
  BY <1>1, <1>2, <1>3 DEF ServerFile, Reading
<1>13. Along(Replies(k, shared, src[k], srv[k].name), s, 3 + o)
  <2>1. ASSUME NEW i \in 1 .. Len(s) PROVE s[i] \in Replies(k, shared, F, nm)[(3 + o) + i]
    <3>1. i \in Nat /\ i \in 1 .. n /\ s[i] \in Unit /\ s[i] = <<"data", d[i]>> /\ d[i] \in Nat
          /\ d[i] = f[o + i]
      BY <1>7, <1>8, LenProperties
    <3>2. PICK p \in Nat : p = (3 + o) + i
      BY <3>1
    <3>3. p > 3 /\ p - 3 = o + i /\ o + i <= Len(F) /\ o + i \in 1 .. Len(F)
      <4>1. o + left = Len(F) /\ n <= left /\ i \in 1 .. n /\ i \in Nat
        BY <1>4, <1>12, <3>1
      <4> QED BY <3>2, <4>1
    <3>4. k \notin shared => s[i] = Data(F)[p - 3]
      <4>1. Data(F)[o + i] = <<"data", F[o + i]>>
        BY <3>3, Datas
      <4> QED BY <1>12, <3>1, <3>3, <4>1
    <3>5. s[i][1] = "data"
      BY <3>1
    <3>6. Replied(k, shared, F, nm, p, s[i])
      BY <3>2, <3>3, <3>4, <3>5 DEF Replied
    <3>7. s[i] \in Replies(k, shared, F, nm)[p]
      BY <3>1, <3>6, ReplyIs
    <3> QED BY <3>2, <3>7
  <2> QED BY <1>2, <2>1 DEF Along
<1>14. /\ ServerCalls(k)' /\ ServerLink(k)' /\ Request(k)'
       /\ \A u \in User : cl[u].conn = k => Reply(u)' /\ ClientFile(u)'
  <2>1. 3 + o \in Nat /\ Given(k) = 3 + o
    <3>1. CASE srv[k].at = "get_name"
      <4>1. Given(k) = 3 /\ o = 0
        BY <1>12, <3>1 DEF Given
      <4> QED BY <4>1
    <3>2. CASE srv[k].at = "get_data"
      <4>1. Given(k) = 3 + srv[k].off
        BY <3>2 DEF Given
      <4> QED BY <1>2, <4>1
    <3> QED BY <1>1, <3>1, <3>2
  <2>2. Given(k)' = (3 + o) + Len(s)
    <3>1. Given(k)' = 3 + (o + n)
      BY <1>10 DEF Given
    <3> QED BY <1>8, <3>1
  <2>3. srv[k].at \in Reading /\ srv'[k].at \in Reading \ {"get_prot"} /\ srv[k].left # 0
    <3>1. left # 0
      BY <1>40
    <3> QED BY <1>1, <1>2, <1>10, <3>1 DEF Reading
  <2>4. SendsOn(k, s, 3 + o)
    BY <1>1, <1>2, <1>9, <1>10, <1>13, <2>1, <2>2, <2>3 DEF SendsOn
  <2> QED BY <2>1, <2>4, RepliesMore
<1>15. ServerFile(k)' /\ \A j \in Conn : Clash(j, k)' /\ Clash(k, j)'
  <2>1. srv'[k].off + srv'[k].left = Len(src[k])
    <3>1. (o + n) + (left - n) = Len(F)
      <4>1. o + left = Len(F)
        BY <1>12
      <4> QED BY <4>1
    <3> QED BY <1>2, <1>10, <3>1
  <2>2. srv[k].at \in Reading /\ srv'[k].at \in {"get_name", "get_data"}
    BY <1>1, <1>10 DEF Reading
  <2> QED BY <1>1, <1>2, <1>10, <2>1, <2>2, StillReading
<1> QED BY <1>11, <1>14, <1>15, ServerKeeps

\* What a write at position o leaves.
LEMMA Writes ==
  ASSUME NEW f \in File, NEW o \in Nat, NEW d \in File
  PROVE  /\ Written(f, o, d) \in File
         /\ \A F \in File :
              /\ f = SubSeq(F, 1, o) /\ o + Len(d) <= Len(F)
              /\ \A i \in 1 .. Len(d) : d[i] = F[o + i]
              => Written(f, o, d) = SubSeq(F, 1, o + Len(d))
<1>1. Len(f) \in Nat /\ f \in [1 .. Len(f) -> Nat] /\ Len(d) \in Nat /\ d \in [1 .. Len(d) -> Nat]
  BY LenProperties DEF File
<1>2. PICK m \in Nat : /\ m = Max({Len(f), o + Len(d)}) /\ m >= Len(f) /\ m >= o + Len(d)
                       /\ m = Len(f) \/ m = o + Len(d)
  <2>1. ASSUME NEW a \in Nat, NEW b \in Nat PROVE Max({a, b}) = IF a >= b THEN a ELSE b
    BY DEF Max
  <2> DEFINE e == o + Len(d)
  <2>2. e \in Nat
    BY <1>1
  <2> HIDE DEF e
  <2>3. Max({Len(f), e}) = IF Len(f) >= e THEN Len(f) ELSE e
    BY <1>1, <2>1, <2>2
  <2>4. PICK m \in Nat : m = Max({Len(f), e}) /\ m >= Len(f) /\ m >= e /\ (m = Len(f) \/ m = e)
    <3>1. CASE Len(f) >= e
      <4>1. Max({Len(f), e}) = Len(f) /\ Len(f) \in Nat
        BY <1>1, <2>3, <3>1
      <4> QED BY <3>1, <4>1
    <3>2. CASE ~(Len(f) >= e)
      <4>1. Max({Len(f), e}) = e /\ e >= Len(f)
        BY <1>1, <2>2, <2>3, <3>2
      <4> QED BY <2>2, <4>1
    <3> QED BY <3>1, <3>2
  <2> QED BY <2>4 DEF e
<1> DEFINE x(i) == IF i > o /\ i <= o + Len(d) THEN d[i - o]
                   ELSE IF i \in DOMAIN f THEN f[i] ELSE 0
<1>3. Written(f, o, d) = [i \in 1 .. m |-> x(i)]
  BY <1>2 DEF Written
<1>4. ASSUME NEW i \in 1 .. m PROVE x(i) \in Nat
  <2>1. CASE i > o /\ i <= o + Len(d)
    <3>1. i - o \in 1 .. Len(d)
      BY <1>1, <2>1
    <3> QED BY <1>1, <2>1, <3>1
  <2>2. CASE ~(i > o /\ i <= o + Len(d))
    BY <1>1, <2>2
  <2> QED BY <2>1, <2>2
<1>5. Written(f, o, d) \in [1 .. m -> Nat]
  BY <1>3, <1>4
<1>6. Written(f, o, d) \in File
  BY <1>5, SeqDef DEF File
<1>7. Len(Written(f, o, d)) = m /\ \A i \in 1 .. m : Written(f, o, d)[i] = x(i)
  <2>1. DOMAIN Written(f, o, d) = 1 .. m
    BY <1>5
  <2> QED BY <1>3, <1>6, <2>1, LenProperties DEF File
<1> HIDE DEF x
<1>8. ASSUME NEW F \in File, f = SubSeq(F, 1, o), o + Len(d) <= Len(F),
             \A i \in 1 .. Len(d) : d[i] = F[o + i]
      PROVE  Written(f, o, d) = SubSeq(F, 1, o + Len(d))
  <2>1. Len(F) \in Nat /\ o <= Len(F)
    BY <1>1, <1>8, LenProperties DEF File
  <2>2. Len(f) = o /\ \A i \in 1 .. o : f[i] = F[i]
    <3>1. /\ Len(SubSeq(F, 0 + 1, o)) = o - 0
          /\ \A i \in 1 .. o - 0 : SubSeq(F, 0 + 1, o)[i] = F[0 + i]
      BY <2>1, Parts
    <3> QED BY <1>8, <3>1
  <2>3. PICK e \in Nat : e = o + Len(d) /\ e = m
    BY <1>1, <1>2, <2>2
  <2>4. /\ SubSeq(F, 1, e) \in File /\ Len(SubSeq(F, 1, e)) = e
        /\ \A i \in 1 .. e : SubSeq(F, 1, e)[i] = F[i]
    <3>1. /\ SubSeq(F, 0 + 1, e) \in File /\ Len(SubSeq(F, 0 + 1, e)) = e - 0
          /\ \A i \in 1 .. e - 0 : SubSeq(F, 0 + 1, e)[i] = F[0 + i]
      <4>1. e <= Len(F)
        BY <1>8, <2>3
      <4> QED BY <4>1, Parts
    <3> QED BY <3>1
  <2>5. ASSUME NEW i \in 1 .. e PROVE x(i) = F[i]
    <3>1. CASE i > o
      <4>1. i - o \in 1 .. Len(d) /\ i <= o + Len(d)
        BY <1>1, <2>3, <3>1
      <4>2. d[i - o] = F[o + (i - o)] /\ o + (i - o) = i
        BY <1>8, <4>1
      <4> QED BY <3>1, <4>1, <4>2 DEF x
    <3>2. CASE ~(i > o)
      <4>1. i \in 1 .. o /\ i \in DOMAIN f
        BY <1>1, <2>2, <3>2
      <4> QED BY <2>2, <3>2, <4>1 DEF x
    <3> QED BY <3>1, <3>2
  <2>6. \A i \in 1 .. e : Written(f, o, d)[i] = SubSeq(F, 1, e)[i]
    BY <1>7, <2>3, <2>4, <2>5
  <2>7. Written(f, o, d) = SubSeq(F, 1, e)
    <3>1. Written(f, o, d) \in Seq(Nat) /\ SubSeq(F, 1, e) \in Seq(Nat)
          /\ Len(Written(f, o, d)) = Len(SubSeq(F, 1, e))
      BY <1>6, <1>7, <2>3, <2>4 DEF File
    <3>2. \A i \in 1 .. Len(Written(f, o, d)) : Written(f, o, d)[i] = SubSeq(F, 1, e)[i]
      BY <1>7, <2>3, <2>6
    <3> QED BY <3>1, <3>2, SeqEqual
  <2> QED BY <2>3, <2>7
<1> QED BY <1>6, <1>8
\* What thread k has received of a put ends where chunk j begins.
ReadTo(k, j) ==
    \A type \in {MSG_PUT, MSG_GET}, nm \in Nat, a \in Nat :
      Begun(k, type, nm, a) /\ Along(Requests(src[k], type, nm), io[Server(k)].got, a) =>
        type = MSG_PUT /\ nm = srv[k].name /\ a + Len(io[Server(k)].got) = 5 + Block(j) + j

\* Thread k has written its file up to off, and has left pieces to write.
PutStep(k, left, off) ==
    /\ srv[k].at \in {"put_prot", "put_data"} /\ Succeeded(Server(k)) /\ PutMore(k, left, off)
    /\ off + left = Len(src[k]) /\ src[k] # Unopened /\ srv[k].name \in Name
    /\ UNCHANGED <<wire, open, reset, src, cl, put>>
    /\ shared \subseteq shared' /\ shared' \subseteq Conn
    /\ \A j \in Conn \ {k} :
         /\ j \in shared' => j \in shared \/ srv[j].at # "none"
         /\ srv[j].at \in Writing \union Reading /\ srv[j].name = srv[k].name =>
              {j, k} \subseteq shared'
    /\ DOMAIN store' = DOMAIN store \union {srv[k].name}
    /\ \A m \in DOMAIN store' : store'[m] \in File /\ (m # srv[k].name => store'[m] = store[m])
    /\ k \notin shared' => store'[srv[k].name] = SubSeq(src[k], 1, off)
    /\ left > 0 => \E j \in Nat : off = Block(j) /\ ReadTo(k, j)

\* A step of runPut() that asks for the next chunk, or that has the whole file.
LEMMA PutStepKeeps ==
  ASSUME Inv, NEW k \in Conn, NEW left \in Nat, NEW off \in Nat, PutStep(k, left, off)
  PROVE  Inv'
<1>1. /\ TypeOK /\ StreamTypeOK(Thread, Unit) /\ Server(k) \in Thread /\ io \in [Thread -> Call]
      /\ ServerCalls(k) /\ ServerLink(k) /\ ServerFile(k) /\ srv[k] \in Record
      /\ srv \in [Conn -> Record] /\ io[Server(k)].out = <<>>
  BY Served, Types DEF TypeOK, Record, PutStep, Succeeded, Returned
<1>2. /\ srv[k].at \in Early \ {"none"} /\ Succeeded(Server(k)) /\ srv[k].name \in Name
      /\ UNCHANGED <<wire, open, reset, src, cl, put>>
      /\ shared \subseteq shared' /\ shared' \subseteq Conn /\ src[k] # Unopened
      /\ DOMAIN store' = DOMAIN store \union {srv[k].name}
      /\ \A m \in DOMAIN store' : store'[m] \in File /\ (m # srv[k].name => store'[m] = store[m])
  BY DEF PutStep, Early
<1>3. open[k]["server"] /\ srv[k].at \notin {"none", "ended", "leaked"}
  <2>1. srv[k].at \notin {"none", "ended", "leaked"}
    BY DEF PutStep
  <2> QED BY <1>1, <2>1 DEF ServerLink
<1>4. /\ io' \in [Thread -> Call] /\ Only(Server(k)) /\ srv'[k].at \in {"put_length", "done"}
      /\ left > 0 <=> srv'[k].at = "put_length"
      /\ Steps(k) /\ srv'[k].name = srv[k].name /\ srv'[k].left = left /\ srv'[k].off = off
      /\ srv'[k].at = "put_length" => BeginRecv(Server(k), 1)
      /\ srv'[k].at = "done" => io' = io
  <2>1. PutMore(k, left, off)
    BY DEF PutStep
  <2>2. CASE left > 0
    <3>1. /\ srv' = [srv EXCEPT ![k].at = "put_length", ![k].left = left, ![k].off = off]
          /\ BeginRecv(Server(k), 1)
      BY <2>1, <2>2 DEF PutMore
    <3>2. /\ srv'[k] = [srv[k] EXCEPT !.at = "put_length", !.left = left, !.off = off]
          /\ \A j \in Conn \ {k} : srv'[j] = srv[j]
      BY <1>1, <3>1
    <3>3. srv' \in [Conn -> Record]
      BY <1>1, <3>1 DEF Record, ServerAt
    <3>4. io' \in [Thread -> Call] /\ Only(Server(k))
      BY <1>1, <3>1, BeginsRecv
    <3>5. /\ srv'[k].at = "put_length" /\ srv'[k].name = srv[k].name
          /\ srv'[k].left = left /\ srv'[k].off = off
      BY <1>1, <3>2 DEF Record
    <3> QED BY <2>2, <3>1, <3>2, <3>3, <3>4, <3>5 DEF Steps
  <2>3. CASE ~(left > 0)
    <3>0. left = 0
      BY <2>3
    <3>1. /\ srv' = [srv EXCEPT ![k].at = "done", ![k].left = 0, ![k].off = off]
          /\ io' = io
      BY <2>1, <2>3 DEF PutMore
    <3>2. /\ srv'[k] = [srv[k] EXCEPT !.at = "done", !.left = 0, !.off = off]
          /\ \A j \in Conn \ {k} : srv'[j] = srv[j]
      BY <1>1, <3>1
    <3>3. srv' \in [Conn -> Record]
      BY <1>1, <3>1 DEF Record, ServerAt
    <3>4. io' \in [Thread -> Call] /\ Only(Server(k))
      BY <1>1, <3>1 DEF Only
    <3>5. /\ srv'[k].at = "done" /\ srv'[k].name = srv[k].name
          /\ srv'[k].left = left /\ srv'[k].off = off
      BY <1>1, <3>0, <3>2 DEF Record
    <3> QED BY <2>3, <3>1, <3>2, <3>3, <3>4, <3>5 DEF Steps
  <2> QED BY <2>2, <2>3
<1>5. TypeOK'
  <2>1. DOMAIN store' \subseteq Name /\ \A nm \in DOMAIN store' : store'[nm] \in File
    BY <1>1, <1>2 DEF TypeOK
  <2>2. srv' \in [Conn -> Record] /\ src' \in [Conn -> File]
    BY <1>1, <1>2, <1>4 DEF TypeOK, Steps
  <2> QED BY <1>1, <1>2, <1>4, <2>1, <2>2, TypesKept
<1>6. ServerMoves(k)
  <2>1. ASSUME NEW j \in Conn \ {k}
        PROVE  /\ j \in shared' => j \in shared \/ srv[j].at # "none"
               /\ srv[j].at \in Writing \union Reading /\ j \notin shared' =>
                    store'[srv[j].name] = store[srv[j].name]
    <3>1. ASSUME srv[j].at \in Writing \union Reading, j \notin shared'
          PROVE  store'[srv[j].name] = store[srv[j].name]
      <4>1. srv[j].name \in DOMAIN store
        BY <3>1, Served DEF ServerFile
      <4>2. srv[j].name # srv[k].name
        BY <2>1, <3>1 DEF PutStep
      <4> QED BY <1>2, <4>1, <4>2
    <3> QED BY <2>1, <3>1 DEF PutStep
  <2>2. DOMAIN store \subseteq DOMAIN store' /\ srv'[k].at # "none"
    BY <1>2, <1>4
  <2> QED BY <1>2, <1>4, <2>1, <2>2 DEF ServerMoves, Steps
<1>7. CASE srv'[k].at = "done"
  <2>1. io' = io
    BY <1>4, <1>7
  <2>2. io[Server(k)].rc = 0 /\ io[Server(k)].want = 0
    BY <1>2 DEF Succeeded, Returned
  <2>3. ServerCalls(k)'
    <3>1. Asked(Server(k), ServerAsks(k))' /\ ~Failed(Server(k))'
      BY <1>7, <2>1, <2>2 DEF Asked, ServerAsks, Failed
    <3>2. srv'[k].at \notin Reading /\ srv'[k].at \notin {"none", "leaked"}
      BY <1>7 DEF Reading
    <3> QED BY <1>1, <2>1, <2>2, <3>1, <3>2 DEF ServerCalls
  <2>4. ServerLink(k)'
    BY <1>2, <1>3, <1>7 DEF ServerLink, Free, Early, Reading
  <2>5. /\ Request(k)' /\ ServerFile(k)' /\ \A j \in Conn : Clash(j, k)' /\ Clash(k, j)'
        /\ \A u \in User : cl[u].conn = k => Reply(u)' /\ ClientFile(u)'
    BY <1>1, <1>2, <1>4, <1>7, <2>1, Leaves
  <2> QED BY <1>5, <1>6, <2>3, <2>4, <2>5, ServerKeeps
<1>8. CASE srv'[k].at = "put_length"
  <2>1. /\ Only(Server(k)) /\ io'[Server(k)].rc = 0 /\ io'[Server(k)].out = <<>>
        /\ io'[Server(k)].want = 1 /\ io'[Server(k)].got = <<>>
    BY <1>1, <1>4, <1>8, BeginsRecv
  <2>2. PICK g \in Seq(Unit) : g = io[Server(k)].got
    BY Served
  <2>3. left > 0
    BY <1>4, <1>8
  <2>4. PICK j \in Nat : off = Block(j) /\ ReadTo(k, j)
    <3>1. left > 0 => \E j \in Nat : off = Block(j) /\ ReadTo(k, j)
      BY Zenon DEF PutStep
    <3> QED BY <2>3, <3>1
  <2>5. ASSUME NEW type \in {MSG_PUT, MSG_GET}, NEW nm \in Nat, NEW a \in Nat,
               Begun(k, type, nm, a), Along(Requests(src[k], type, nm), g, a)
        PROVE  Begun(k, type, nm, a + Len(g))'
    <3>1. type = MSG_PUT /\ nm = srv[k].name /\ a + Len(g) = 5 + Block(j) + j
      BY <2>2, <2>4, <2>5, Zenon DEF ReadTo
    <3>2. srv'[k].off = Block(j) /\ nm = srv'[k].name
      BY <1>4, <2>4, <3>1
    <3> QED BY <1>8, <3>1, <3>2 DEF Begun
  <2>6. ServerAsks(k)' = 1 /\ srv'[k].at \in Early \ {"none"}
    BY <1>8 DEF ServerAsks, Early
  <2>7. /\ ServerCalls(k)' /\ ServerLink(k)' /\ Request(k)'
        /\ \A u \in User : cl[u].conn = k => Reply(u)' /\ ClientFile(u)'
    <3>1. /\ srv[k].at \in Early /\ Succeeded(Server(k)) /\ shared \subseteq shared'
          /\ UNCHANGED <<wire, open, reset, src, cl, put>> /\ open[k]["server"]
      BY <1>2, <1>3
    <3>2. ReadOn(k, g)
      BY <2>5 DEF ReadOn
    <3>3. 1 \in Nat
      OBVIOUS
    <3> HIDE DEF Early, Succeeded
    <3> QED BY <2>1, <2>2, <2>6, <3>1, <3>2, <3>3, Reads
  <2>8. ServerFile(k)'
    <3>1. /\ srv'[k].name \in DOMAIN store' /\ srv'[k].name \in Name
          /\ srv'[k].left > 0 /\ src'[k] # Unopened
      BY <1>2, <1>4, <2>3
    <3>2. srv'[k].off + srv'[k].left = Len(src'[k])
      <4>1. off + left = Len(src[k])
        BY DEF PutStep
      <4> QED BY <1>2, <1>4, <4>1
    <3>3. k \notin shared' => store'[srv'[k].name] = SubSeq(src'[k], 1, srv'[k].off)
      <4>1. k \notin shared' => store'[srv[k].name] = SubSeq(src[k], 1, off)
        BY DEF PutStep
      <4> QED BY <1>2, <1>4, <4>1
    <3> QED BY <1>8, <3>1, <3>2, <3>3 DEF ServerFile, Writing, Reading, Early
  <2>9. ASSUME NEW i \in Conn PROVE Clash(i, k)' /\ Clash(k, i)'
    <3>1. CASE i = k
      BY <3>1 DEF Clash
    <3>2. CASE i # k
      <4>1. srv'[i] = srv[i] /\ srv'[k].name = srv[k].name
        BY <1>4, <3>2 DEF Steps
      <4>2. srv[i].at \in Writing \union Reading /\ srv[i].name = srv[k].name =>
              {i, k} \subseteq shared'
        BY <3>2 DEF PutStep
      <4> QED BY <4>1, <4>2 DEF Clash
    <3> QED BY <3>1, <3>2
  <2> QED BY <1>5, <1>6, <2>7, <2>8, <2>9, ServerKeeps
<1> QED BY <1>4, <1>7, <1>8

\* Opening the file is such a step.
LEMMA PutOpens ==
  ASSUME Inv, NEW k \in Conn, PutOpenFile(k)
  PROVE  \E left \in Nat : left = Len(src[k]) /\ PutStep(k, left, 0)
<1>1. srv[k].at = "put_prot" /\ Succeeded(Server(k)) /\ srv[k].at \in Early \ {"none"}
  BY DEF PutOpenFile, SrvCalled, Early
<1>2. /\ Len(io[Server(k)].got) = 2 /\ TypeOK
  BY <1>1, HasRead DEF ServerAsks
<1>3. PICK g \in Seq(Unit), type \in {MSG_PUT, MSG_GET}, nm \in Nat, a \in Nat :
        /\ g = io[Server(k)].got /\ Begun(k, type, nm, a) /\ Len(g) = 2
        /\ Along(Requests(src[k], type, nm), g, a)
  BY <1>1, <1>2, HasRead
<1>4. PICK left \in Nat : left = Len(src[k])
  BY Served
<1>5. ASSUME NEW t \in {MSG_PUT, MSG_GET}, NEW n \in Nat, NEW b \in Nat, Begun(k, t, n, b),
             Along(Requests(src[k], t, n), g, b)
      PROVE  /\ t = MSG_PUT /\ n = srv[k].name /\ b = 3
             /\ g[2] = <<"file_length", left>> /\ src[k] # Unopened
  <2>1. t = MSG_PUT /\ n = srv[k].name /\ b = 3
    BY <1>1, <1>5 DEF Begun
  <2>2. g[2] = FileProt(Len(src[k]))[2] /\ src[k] # Unopened
    <3>1. 2 \in 1 .. Len(g)
      BY <1>3
    <3>2. Requested(src[k], t, n, 3 + 2, g[2])
      BY <1>5, <2>1, <3>1, ComesNext
    <3> QED BY <2>1, <3>2 DEF Requested
  <2> QED BY <1>4, <2>1, <2>2, Units
<1>6. g[2] = <<"file_length", left>> /\ src[k] # Unopened
  BY <1>3, <1>5
<1>7. Received(Server(k), 2) = left
  <2>1. Received(Server(k), 2) = g[2][2]
    BY <1>3 DEF Received
  <2>2. <<"file_length", left>>[2] = left
    BY <1>4
  <2> QED BY <1>6, <2>1, <2>2, Zenon
<1>8. /\ store' = Truncate(srv[k].name) /\ PutMore(k, left, 0) /\ OpenShared(k, srv[k].name, TRUE)
      /\ UNCHANGED <<wire, open, reset, src, cl, put>>
  BY <1>7 DEF PutOpenFile, kernel, clientSide
<1>9. /\ shared \subseteq shared' /\ shared' \subseteq Conn
      /\ \A j \in Conn \ {k} :
           /\ j \in shared' => j \in shared \/ srv[j].at # "none"
           /\ srv[j].at \in Writing \union Reading /\ srv[j].name = srv[k].name =>
                {j, k} \subseteq shared'
  BY <1>8, Joins
<1>10. srv[k].name \in Name
  BY <1>1, Served DEF ServerFile
<1>11. /\ DOMAIN store' = DOMAIN store \union {srv[k].name}
       /\ store'[srv[k].name] = NoFile
       /\ \A m \in DOMAIN store' : store'[m] \in File /\ (m # srv[k].name => store'[m] = store[m])
  <2>1. NoFile \in File
    BY EmptySeq DEF NoFile, File
  <2> QED BY <1>2, <1>8, <2>1 DEF Truncate, TypeOK
<1>12. NoFile = SubSeq(src[k], 1, 0)
  <2>1. PICK F \in File : F = src[k]
    BY Served
  <2>2. /\ SubSeq(F, 0 + 1, 0) \in File /\ Len(SubSeq(F, 0 + 1, 0)) = 0 - 0
    BY <2>1, Parts, LenProperties DEF File
  <2>3. SubSeq(F, 1, 0) \in Seq(Nat) /\ Len(SubSeq(F, 1, 0)) = 0
    BY <2>2 DEF File
  <2>4. SubSeq(F, 1, 0) = <<>>
    BY <2>3, EmptySeq
  <2> QED BY <2>1, <2>4 DEF NoFile
<1>13. ASSUME NEW t \in {MSG_PUT, MSG_GET}, NEW n \in Nat, NEW b \in Nat, Begun(k, t, n, b),
              Along(Requests(src[k], t, n), g, b)
       PROVE  t = MSG_PUT /\ n = srv[k].name /\ b + Len(g) = 5 + Block(0) + 0
  <2>1. t = MSG_PUT /\ n = srv[k].name /\ b = 3
    BY <1>5, <1>13
  <2>2. b + Len(g) = 5
    BY <1>3, <2>1
  <2>3. 5 + Block(0) + 0 = 5
    BY Blocks
  <2> QED BY <2>1, <2>2, <2>3
<1>14. 0 = Block(0) /\ 0 \in Nat /\ 0 + left = Len(src[k])
  BY <1>4, Blocks
<1>15. left > 0 => \E j \in Nat : 0 = Block(j) /\ ReadTo(k, j)
  <2>1. ReadTo(k, 0)
    BY <1>3, <1>13 DEF ReadTo
  <2> QED BY <1>14, <2>1
<1>16. PutStep(k, left, 0)
  BY <1>1, <1>6, <1>8, <1>9, <1>10, <1>11, <1>12, <1>14, <1>15 DEF PutStep
<1> QED BY <1>4, <1>16

\* Two chunks that begin at the same place are the same.
LEMMA OneBlock ==
  ASSUME NEW i \in Nat, NEW j \in Nat, Block(i) = Block(j)
  PROVE  i = j
<1>1. \A m, n \in Nat : m < n => Block(m) + FILE_BUFF_SIZE <= Block(n)
  BY Blocks
<1>2. PICK b \in Nat : b = Block(i) /\ b = Block(j)
  BY Blocks
<1>3. ~(b + FILE_BUFF_SIZE <= b)
  BY FileAssumption
<1>4. ~(i < j)
  BY <1>1, <1>2, <1>3
<1>5. ~(j < i)
  BY <1>1, <1>2, <1>3
<1> QED BY <1>4, <1>5

\* What thread k has received of a put is part of chunk j of the file.
LEMMA ChunkRead ==
  ASSUME Inv, NEW k \in Conn, Succeeded(Server(k)), srv[k].at = "put_data"
  PROVE  \E g \in Seq(Unit), F \in File, l \in Nat, j \in Nat :
           /\ g = io[Server(k)].got /\ F = src[k] /\ l = srv[k].left
           /\ srv[k].off = Block(j) /\ Block(j) + l = Len(F) /\ l > 0 /\ Len(g) = FileChunk(l)
           /\ \A i \in 1 .. Len(g) : Pieces(g)[i] = F[Block(j) + i]
           /\ l - Len(g) > 0 => ReadTo(k, j + 1) /\ Block(j) + Len(g) = Block(j + 1)
           /\ \A i \in 1 .. Len(g) : g[i][1] = "data"
<1>1. srv[k].at \in Early \ {"none"}
  BY DEF Early
<1>0. PICK g \in Seq(Unit), F \in File, l \in Nat :
        g = io[Server(k)].got /\ F = src[k] /\ l = srv[k].left
  BY Served
<1>2. Len(g) = FileChunk(l)
  BY <1>0, <1>1, HasRead DEF ServerAsks
<1>3. PICK type \in {MSG_PUT, MSG_GET}, nm \in Nat, a \in Nat :
        Begun(k, type, nm, a) /\ Along(Requests(F, type, nm), g, a)
  <2>1. \E h \in Seq(Unit), type \in {MSG_PUT, MSG_GET}, nm \in Nat, a \in Nat :
          h = io[Server(k)].got /\ Begun(k, type, nm, a) /\ Along(Requests(src[k], type, nm), h, a)
    BY <1>1, HasRead
  <2> QED BY <1>0, <2>1, Zenon
<1>4. PICK j \in Nat : srv[k].off = Block(j) /\ type = MSG_PUT /\ a = 6 + Block(j) + j
  BY <1>3 DEF Begun
<1>5. srv[k].off + l = Len(F) /\ l > 0
  BY <1>0, Served DEF ServerFile, Writing
<1>6. Block(j) \in Nat /\ Len(F) \in Nat /\ Block(j + 1) = Block(j) + FILE_BUFF_SIZE
      /\ FILE_BUFF_SIZE \in Nat
  BY Blocks, LenProperties, FileAssumption DEF File
<1>7. Block(j) + l = Len(F) /\ Block(j) < Len(F) /\ l = Len(F) - Block(j)
  <2>1. PICK o \in Nat, n \in Nat : o = Block(j) /\ n = Len(F)
    BY <1>6
  <2>2. o + l = n
    BY <1>4, <1>5, <2>1
  <2>3. o < n /\ l = n - o
    BY <1>5, <2>2
  <2> QED BY <2>1, <2>2, <2>3
<1>8. FileChunk(l) \in Nat /\ (FileChunk(l) = l \/ FileChunk(l) = FILE_BUFF_SIZE) /\ FileChunk(l) <= l
  BY Chunks
<1>9. ASSUME NEW i \in 1 .. Len(g) PROVE Pieces(g)[i] = F[Block(j) + i] /\ g[i][1] = "data"
  <2>1. Requested(F, MSG_PUT, nm, 6 + Block(j) + j + i, g[i])
    BY <1>3, <1>4, ComesNext
  <2>2. i \in 1 .. FileChunk(Len(F) - Block(j))
    BY <1>2, <1>7
  <2>3. g[i] = Data(F)[Block(j) + i]
    BY <1>7, <2>1, <2>2 DEF Requested
  <2>4. Block(j) + i \in 1 .. Len(F)
    <3>1. PICK o \in Nat, n \in Nat, c \in Nat : /\ o = Block(j) /\ n = Len(F) /\ c = Len(g)
                                               /\ c <= l /\ o + l = n
      BY <1>2, <1>6, <1>7, <1>8
    <3>2. o + i \in 1 .. n
      BY <3>1
    <3> QED BY <3>1, <3>2
  <2>5. Data(F)[Block(j) + i] = <<"data", F[Block(j) + i]>>
    BY <2>4, Datas
  <2>6. /\ <<"data", F[Block(j) + i]>>[2] = F[Block(j) + i]
        /\ <<"data", F[Block(j) + i]>>[1] = "data"
    OBVIOUS
  <2>7. Pieces(g)[i] = g[i][2]
    BY Contents
  <2> QED BY <2>3, <2>5, <2>6, <2>7, Zenon
<1>10. ASSUME l - Len(g) > 0 PROVE ReadTo(k, j + 1) /\ Block(j) + Len(g) = Block(j + 1)
  <2>1. Len(g) = FILE_BUFF_SIZE
    <3>1. l - l = 0 /\ ~(0 > 0)
      OBVIOUS
    <3>2. Len(g) # l
      BY <1>10, <3>1
    <3> QED BY <1>2, <1>8, <3>2
  <2>2. Block(j) + Len(g) = Block(j + 1)
    BY <1>6, <2>1
  <2>3. ASSUME NEW t \in {MSG_PUT, MSG_GET}, NEW n \in Nat, NEW b \in Nat, Begun(k, t, n, b)
        PROVE  t = MSG_PUT /\ n = srv[k].name /\ b + Len(g) = 5 + Block(j + 1) + (j + 1)
    <3>1. PICK i \in Nat : /\ srv[k].off = Block(i) /\ t = MSG_PUT /\ n = srv[k].name
                           /\ b = 6 + Block(i) + i
      BY <2>3 DEF Begun
    <3>2. Block(i) = Block(j)
      BY <1>4, <3>1
    <3>5. i = j
      BY <3>2, OneBlock
    <3>6. b = 6 + Block(j) + j
      BY <3>1, <3>5
    <3>7. b + Len(g) = 5 + Block(j + 1) + (j + 1)
      <4>1. PICK o \in Nat, p \in Nat, c \in Nat :
              o = Block(j) /\ p = Block(j + 1) /\ c = Len(g) /\ o + c = p
        BY <1>6, <2>1, <2>2
      <4>2. o + c = p
        BY <4>1
      <4>3. (6 + o + j) + c = 5 + p + (j + 1)
        BY <4>2
      <4> QED BY <3>6, <4>1, <4>3
    <3> QED BY <3>1, <3>7
  <2>4. ReadTo(k, j + 1)
    BY <1>0, <2>3, Zenon DEF ReadTo
  <2> QED BY <2>2, <2>4
<1> QED BY <1>0, <1>2, <1>4, <1>5, <1>7, <1>9, <1>10

\* Writing a chunk is such a step.
LEMMA PutWrites ==
  ASSUME Inv, NEW k \in Conn, PutDataReceived(k)
  PROVE  \E left \in Nat, off \in Nat : PutStep(k, left, off)
<1>1. srv[k].at = "put_data" /\ Succeeded(Server(k))
  BY DEF PutDataReceived, SrvCalled
<1>2. PICK g \in Seq(Unit), F \in File, l \in Nat, j \in Nat :
           /\ g = io[Server(k)].got /\ F = src[k] /\ l = srv[k].left
           /\ srv[k].off = Block(j) /\ Block(j) + l = Len(F) /\ l > 0 /\ Len(g) = FileChunk(l)
           /\ \A i \in 1 .. Len(g) : Pieces(g)[i] = F[Block(j) + i]
           /\ l - Len(g) > 0 => ReadTo(k, j + 1) /\ Block(j) + Len(g) = Block(j + 1)
           /\ \A i \in 1 .. Len(g) : g[i][1] = "data"
  BY <1>1, ChunkRead
<1>3. /\ srv[k].off = Block(j) /\ Block(j) + l = Len(F) /\ l > 0 /\ Len(g) = FileChunk(l)
      /\ \A i \in 1 .. Len(g) : Pieces(g)[i] = F[Block(j) + i]
      /\ l - Len(g) > 0 => ReadTo(k, j + 1) /\ Block(j) + Len(g) = Block(j + 1)
  BY <1>2
<1>4. PICK d \in File : d = Pieces(g) /\ Len(d) = Len(g)
  BY Contents
<1>5. PICK left \in Nat, off \in Nat, o \in Nat :
        /\ left = l - Len(d) /\ off = o + Len(d) /\ o = Block(j) /\ o + l = Len(F) /\ off + left = Len(F)
        /\ o + Len(d) <= Len(F)
  <2>1. Block(j) \in Nat /\ FileChunk(l) \in Nat /\ FileChunk(l) <= l /\ Len(F) \in Nat
    BY Blocks, Chunks, LenProperties DEF File
  <2>2. l - Len(d) \in Nat /\ Block(j) + Len(d) \in Nat /\ (Block(j) + Len(d)) + (l - Len(d)) = Len(F)
        /\ Block(j) + Len(d) <= Len(F)
    BY <1>3, <1>4, <2>1
  <2> QED BY <1>3, <2>1, <2>2
<1>6. /\ store' = [store EXCEPT ![srv[k].name] = Written(@, o, d)]
      /\ PutMore(k, left, off) /\ UNCHANGED <<wire, open, reset, src, shared, cl, put>>
  BY <1>2, <1>3, <1>4, <1>5 DEF PutDataReceived, kernel, history, clientSide
<1>7. /\ srv[k].name \in DOMAIN store /\ srv[k].name \in Name /\ src[k] # Unopened
      /\ k \notin shared => store[srv[k].name] = SubSeq(F, 1, o)
  <2>1. ServerFile(k)
    BY Served
  <2> QED BY <1>1, <1>2, <1>3, <1>5, <2>1 DEF ServerFile, Writing
<1>8. TypeOK /\ shared \subseteq Conn /\ \A m \in DOMAIN store : store[m] \in File
  BY Served DEF TypeOK
<1>9. PICK f \in File : f = store[srv[k].name]
  BY <1>7, <1>8
<1>10. Written(f, o, d) \in File
  BY Writes
<1>11. /\ DOMAIN store' = DOMAIN store \union {srv[k].name}
       /\ store'[srv[k].name] = Written(f, o, d)
       /\ \A m \in DOMAIN store' : store'[m] \in File /\ (m # srv[k].name => store'[m] = store[m])
  BY <1>6, <1>7, <1>8, <1>9, <1>10
<1>12. k \notin shared' => store'[srv[k].name] = SubSeq(src[k], 1, off)
  <2>1. ASSUME k \notin shared PROVE Written(f, o, d) = SubSeq(F, 1, o + Len(d))
    <3>1. f = SubSeq(F, 1, o)
      BY <1>7, <1>9, <2>1
    <3>2. \A i \in 1 .. Len(d) : d[i] = F[o + i]
      BY <1>3, <1>4, <1>5, Zenon
    <3>3. o + Len(d) <= Len(F)
      BY <1>5
    <3>4. \A G \in File :
            /\ f = SubSeq(G, 1, o) /\ o + Len(d) <= Len(G)
            /\ \A i \in 1 .. Len(d) : d[i] = G[o + i]
            => Written(f, o, d) = SubSeq(G, 1, o + Len(d))
      BY Writes
    <3> QED BY <3>1, <3>2, <3>3, <3>4
  <2> QED BY <1>2, <1>5, <1>6, <1>11, <2>1
<1>13. ASSUME NEW i \in Conn \ {k}
       PROVE  /\ i \in shared' => i \in shared \/ srv[i].at # "none"
              /\ srv[i].at \in Writing \union Reading /\ srv[i].name = srv[k].name =>
                   {i, k} \subseteq shared'
  <2>1. Clash(i, k)
    BY Served
  <2> QED BY <1>1, <1>6, <2>1 DEF Clash, Writing
<1>14. left > 0 => \E i \in Nat : off = Block(i) /\ ReadTo(k, i)
  <2>1. left > 0 => ReadTo(k, j + 1) /\ off = Block(j + 1)
    BY <1>3, <1>4, <1>5
  <2> QED BY <2>1
<1>15. off + left = Len(src[k])
  BY <1>2, <1>5
<1>16. PutStep(k, left, off)
  BY <1>1, <1>6, <1>7, <1>8, <1>11, <1>12, <1>13, <1>14, <1>15 DEF PutStep
<1> QED BY <1>16

\* runPut() opens the file or writes a chunk.
LEMMA PutFileKeeps ==
  ASSUME Inv, NEW k \in Conn, PutOpenFile(k) \/ PutDataReceived(k)
  PROVE  Inv'
<1>1. \E left \in Nat, off \in Nat : PutStep(k, left, off)
  BY PutOpens, PutWrites
<1> QED BY <1>1, PutStepKeeps

\* A step of a call of thread k keeps the invariant when it keeps these.
LEMMA CallMoves ==
  ASSUME Inv, NEW k \in Conn, NEW s \in Side, UNCHANGED <<cl, srv, store, src, shared, put, open>>,
         StreamTypeOK(Thread, Unit)', Only(Server(k)), Touch(k, s), srv[k].at # "none",
         \A j \in Conn : j # k => (j \in reset' <=> j \in reset),
         ServerCalls(k)', ServerLink(k)', Request(k)', \A u \in User : cl[u].conn = k => Reply(u)'
  PROVE  Inv'
<1>1. ServerMoves(k)
  BY DEF ServerMoves, Touch
<1>2. TypeOK'
  BY Served DEF TypeOK
<1>3. ServerFile(k)' /\ \A j \in Conn : Clash(j, k)' /\ Clash(k, j)'
  BY Served DEF ServerFile, Clash
<1>4. ASSUME NEW u \in User PROVE ClientFile(u)'
  <2>1. cl'[u] = cl[u] /\ ClientFile(u) /\ (Live(u)' => Live(u))
    BY <1>1, Served, OthersServed
  <2> QED BY <2>1, StillClientFile
<1> QED BY <1>1, <1>2, <1>3, <1>4, ServerKeeps

\* The request of connection k is the same as before.
LEMMA SameRequest ==
  ASSUME NEW k \in Conn, Request(k), UNCHANGED <<cl, srv, src, put, open>>,
         io'[Server(k)].rc = io[Server(k)].rc, Incoming(k)' = Incoming(k),
         \A u \in User : io'[Client(u)] = io[Client(u)] /\ (Live(u)' <=> Live(u))
  PROVE  Request(k)'
<1> SUFFICES ASSUME open[k]["server"], srv[k].at \in Early, io[Server(k)].rc = 0
             PROVE  Request(k)'
  BY DEF Request
<1>1. PICK type \in {MSG_PUT, MSG_GET}, nm \in Nat, a \in Nat :
        /\ Begun(k, type, nm, a) /\ Along(Requests(src[k], type, nm), Incoming(k), a)
        /\ k \in put => type = MSG_PUT /\ Whole(src[k], a + Len(Incoming(k)))
        /\ \A u \in User : cl[u].conn = k /\ Live(u) /\ cl[u].first =>
             /\ Along(Requests(src[k], type, nm), io[Client(u)].out, a + Len(Incoming(k)))
             /\ Sent(u, src[k], type, nm, a + Len(Incoming(k)) + Len(io[Client(u)].out))
  BY DEF Request
<1>2. Begun(k, type, nm, a)'
  BY <1>1 DEF Begun
<1>3. ASSUME NEW u \in User, cl'[u].conn = k, Live(u)', cl'[u].first
      PROVE  /\ Along(Requests(src[k], type, nm), io'[Client(u)].out, a + Len(Incoming(k)))
             /\ Sent(u, src[k], type, nm, a + Len(Incoming(k)) + Len(io[Client(u)].out))'
  <2>1. /\ Along(Requests(src[k], type, nm), io[Client(u)].out, a + Len(Incoming(k)))
        /\ Sent(u, src[k], type, nm, a + Len(Incoming(k)) + Len(io[Client(u)].out))
    BY <1>1, <1>3
  <2> QED BY <2>1 DEF Sent
<1> QED BY <1>1, <1>2, <1>3 DEF Request

\* The reply on its way to client u is the same as before.
LEMMA SameReply ==
  ASSUME NEW u \in User, NEW k \in Conn, cl[u].conn = k, Reply(u),
         UNCHANGED <<cl, srv, src, shared, put>>, io'[Client(u)] = io[Client(u)],
         Outgoing(u, k)' = Outgoing(u, k),
         wire[k]["server"] = <<>> /\ io[Server(k)].out = <<>> =>
           wire'[k]["server"] = <<>> /\ io'[Server(k)].out = <<>>
  PROVE  Reply(u)'
<1>1. Taken(u)' = Taken(u) /\ Given(k)' = Given(k) /\ (Live(u)' <=> Live(u))
  BY DEF Taken, Given, Live
<1>2. CASE ~Live(u)
  BY <1>1, <1>2 DEF Reply
<1>3. CASE Live(u) /\ cl[u].first /\ cl[u].at \in GetAt
  BY <1>1, <1>3 DEF Reply
<1>4. CASE Live(u) /\ ~(cl[u].first /\ cl[u].at \in GetAt)
  BY <1>1, <1>4 DEF Reply
<1> QED BY <1>2, <1>3, <1>4

\* Thread k has a call under way.
LEMMA Calling ==
  ASSUME Inv, NEW k \in Conn
  PROVE  /\ StreamTypeOK(Thread, Unit) /\ Server(k) \in Thread /\ io[Server(k)] \in Call
         /\ io \in [Thread -> Call] /\ "client" = Peer("server")
         /\ io[Server(k)].out # <<>> =>
              /\ srv[k].at \in Reading /\ open[k]["server"] /\ io[Server(k)].rc = 0
              /\ io[Server(k)].want = 0 /\ ServerAsks(k) = 0
         /\ io[Server(k)].want > 0 =>
              /\ srv[k].at \in Early \ {"none"} /\ open[k]["server"] /\ io[Server(k)].rc = 0
              /\ io[Server(k)].want = ServerAsks(k) - Len(io[Server(k)].got)
              /\ io[Server(k)].out = <<>> /\ ServerAsks(k) \in Nat \ {0}
<1>1. TypeOK /\ ServerCalls(k) /\ ServerLink(k) /\ Server(k) \in Thread /\ io[Server(k)] \in Call
      /\ srv[k] \in [at : ServerAt, name : Nat, left : Nat, off : Nat]
  BY Served
<1>2. StreamTypeOK(Thread, Unit) /\ io \in [Thread -> Call]
  BY <1>1, Types
<1>3. "client" = Peer("server")
  BY Sides
<1>4. io[Server(k)].rc # 0 => io[Server(k)].out = <<>> /\ io[Server(k)].want = 0
  BY <1>1 DEF ServerCalls, Failed, Call, NoCall
<1>5. ServerAsks(k) \in Nat
  <2>1. FileChunk(srv[k].left) \in Nat
    BY <1>1, Chunks
  <2> QED BY <2>1 DEF ServerAsks
<1>6. ASSUME io[Server(k)].out # <<>>
      PROVE  /\ srv[k].at \in Reading /\ open[k]["server"] /\ io[Server(k)].rc = 0
             /\ io[Server(k)].want = 0 /\ ServerAsks(k) = 0
  <2>1. srv[k].at \in Reading /\ io[Server(k)].rc = 0
    BY <1>1, <1>4, <1>6 DEF ServerCalls
  <2>2. ServerAsks(k) = 0
    BY <2>1 DEF Reading, ServerAsks
  <2>3. open[k]["server"]
    BY <1>1, <2>1 DEF ServerLink, Reading
  <2>4. io[Server(k)].want = 0
    BY <1>1, <2>1, <2>2 DEF ServerCalls, Asked
  <2> QED BY <2>1, <2>2, <2>3, <2>4
<1>7. ASSUME io[Server(k)].want > 0
      PROVE  /\ srv[k].at \in Early \ {"none"} /\ open[k]["server"] /\ io[Server(k)].rc = 0
             /\ io[Server(k)].want = ServerAsks(k) - Len(io[Server(k)].got)
             /\ io[Server(k)].out = <<>> /\ ServerAsks(k) \in Nat \ {0}
  <2>1. io[Server(k)].want # 0
    BY <1>7
  <2>2. Asked(Server(k), ServerAsks(k)) /\ io[Server(k)].rc = 0
    BY <1>1, <1>4, <2>1 DEF ServerCalls
  <2>3. ServerAsks(k) # 0
    BY <2>1, <2>2 DEF Asked
  <2>4. srv[k].at \in Early \ {"none"} /\ srv[k].at \notin {"none", "ended", "leaked"}
    BY <2>3 DEF ServerAsks, Early
  <2> QED BY <1>1, <1>5, <2>2, <2>3, <2>4 DEF Asked, ServerLink
<1> QED BY <1>1, <1>2, <1>3, <1>6, <1>7

\* A send() of a thread of the server.
LEMMA ServerSends ==
  ASSUME Inv, NEW k \in Conn, SendSome(Server(k), k, "server"),
         UNCHANGED <<cl, srv, store, src, shared, put>>
  PROVE  Inv'
<1> DEFINE p == Server(k)
<1>1. /\ TypeOK /\ ServerCalls(k) /\ ServerLink(k) /\ ServerFile(k)
      /\ StreamTypeOK(Thread, Unit) /\ p \in Thread /\ "client" = Peer("server")
      /\ \A u \in User : ClientLink(u) /\ Reply(u)
  BY Served, Calling
<1>0. SentOver(p, k, "server", "client")
  BY <1>1, Sends, Sides, SMTT(30)
<1>2. /\ StreamTypeOK(Thread, Unit)' /\ UNCHANGED open
      /\ Only(p) /\ Touch(k, "server")
      /\ io[p].out # <<>> /\ open[k]["server"] /\ k \notin reset
      /\ io'[p].rc = io[p].rc /\ io'[p].want = io[p].want /\ io'[p].got = io[p].got
      /\ \/ open[k]["client"] /\ reset' = reset /\ wire'[k]["server"] # <<>>
         \/ ~open[k]["client"] /\ reset' = reset \union {k} /\ wire' = wire
  BY <1>0 DEF SentOver
<1>3. srv[k].at \in Reading /\ io[p].rc = 0 /\ io[p].want = 0 /\ ServerAsks(k) = 0
  BY <1>2, Calling
<1>4. srv[k].at \notin {"none", "leaked", "done", "ended"} /\ srv[k].at \notin Early
  BY <1>3 DEF Reading, Early
<1>5. ServerCalls(k)'
  <2>1. ~Failed(p)' /\ io'[p].rc = 0 /\ io'[p].want = 0
    BY <1>2, <1>3 DEF Failed
  <2>2. ServerAsks(k)' = 0
    BY <1>3 DEF ServerAsks
  <2>3. Asked(p, ServerAsks(k))'
    BY <2>1, <2>2 DEF Asked
  <2> QED BY <1>3, <1>4, <2>1, <2>3 DEF ServerCalls
<1>6. Request(k)'
  BY <1>4 DEF Request
<1>7. \A j \in Conn : j # k => (j \in reset' <=> j \in reset)
  BY <1>2
<1>8. ServerLink(k)'
  <2>1. open'[k]["client"] => k \notin reset'
    BY <1>2
  <2>2. ~Free(k)'
    BY <1>4 DEF Free
  <2> QED BY <1>1, <1>2, <1>4, <2>1, <2>2 DEF ServerLink
<1>9. ASSUME NEW u \in User, cl[u].conn = k PROVE Reply(u)'
  <2>1. io'[Client(u)] = io[Client(u)] /\ (Live(u)' <=> Live(u))
    BY <1>2, Threads DEF Only, Live
  <2>2. CASE open[k]["client"]
    <3>1. io[Client(u)].got \in Seq(Unit)
      BY <1>1, Types, Threads DEF Call
    <3>2. Outgoing(u, k)' = Outgoing(u, k)
      <4>1. \A g \in Seq(Unit) :
              (g \o wire'[k]["server"]) \o io'[p].out = (g \o wire[k]["server"]) \o io[p].out
        BY <1>0, <2>2, Zenon DEF SentOver
      <4>2. (io[Client(u)].got \o wire'[k]["server"]) \o io'[p].out =
              (io[Client(u)].got \o wire[k]["server"]) \o io[p].out
        BY <3>1, <4>1, Zenon
      <4> QED BY <2>1, <4>2, Zenon DEF Outgoing
    <3> QED BY <1>1, <1>2, <1>9, <2>1, <3>2, SameReply
  <2>3. CASE ~open[k]["client"]
    <3>1. ~Live(u)
      BY <1>1, <1>9, <2>3 DEF ClientLink, Live
    <3> QED BY <2>1, <3>1 DEF Reply
  <2> QED BY <2>2, <2>3
<1> QED BY <1>2, <1>4, <1>5, <1>6, <1>7, <1>8, <1>9, CallMoves, Sides

\* A recv() of a thread of the server.
LEMMA ServerReceives ==
  ASSUME Inv, NEW k \in Conn, RecvSome(Server(k), k, "server"),
         UNCHANGED <<cl, srv, store, src, shared, put>>
  PROVE  Inv'
<1> DEFINE p == Server(k)
<1>1. /\ TypeOK /\ ServerCalls(k) /\ ServerLink(k) /\ Request(k)
      /\ StreamTypeOK(Thread, Unit) /\ p \in Thread /\ io[p] \in Call /\ "client" = Peer("server")
      /\ \A u \in User : Reply(u)
  BY Served, Calling
<1>2. /\ StreamTypeOK(Thread, Unit)' /\ UNCHANGED <<open, reset>>
      /\ Only(p) /\ Touch(k, "client")
      /\ io[p].want > 0 /\ open[k]["server"]
      /\ io'[p].rc = io[p].rc /\ io'[p].out = io[p].out
      /\ io'[p].want + Len(io'[p].got) = io[p].want + Len(io[p].got)
      /\ io'[p].got \o wire'[k]["client"] = io[p].got \o wire[k]["client"]
  BY <1>1, Receives, Sides
<1>3. /\ srv[k].at \in Early \ {"none"} /\ io[p].rc = 0 /\ io[p].out = <<>>
      /\ io[p].want = ServerAsks(k) - Len(io[p].got) /\ ServerAsks(k) \in Nat \ {0}
  BY <1>2, Calling
<1>4. wire'[k]["server"] = wire[k]["server"]
  BY <1>2, Sides DEF Touch
<1>5. ServerCalls(k)'
  <2>1. PICK g \in Nat, w \in Nat, gg \in Nat, ww \in Nat :
          /\ g = Len(io[p].got) /\ w = io[p].want /\ gg = Len(io'[p].got) /\ ww = io'[p].want
    <3>1. io'[p] \in Call
      BY <1>1, <1>2 DEF StreamTypeOK, Call
    <3> QED BY <1>1, <3>1, LenProperties DEF Call
  <2>2. ww = ServerAsks(k) - gg
    <3>1. ww + gg = w + g
      BY <1>2, <2>1
    <3>2. w = ServerAsks(k) - g
      BY <1>3, <2>1
    <3> QED BY <1>3, <3>1, <3>2
  <2>3. ServerAsks(k)' = ServerAsks(k) /\ ~Failed(p)'
    BY <1>2, <1>3 DEF ServerAsks, Failed
  <2>4. Asked(p, ServerAsks(k))'
    BY <1>2, <1>3, <2>1, <2>2, <2>3 DEF Asked
  <2>5. srv'[k].at \notin {"none"}
    BY <1>3
  <2> QED BY <1>2, <1>3, <2>3, <2>4, <2>5 DEF ServerCalls, Early
<1>6. Request(k)'
  <2>1. Incoming(k)' = Incoming(k)
    BY <1>2 DEF Incoming
  <2>2. \A u \in User : io'[Client(u)] = io[Client(u)] /\ (Live(u)' <=> Live(u))
    BY <1>2, Threads DEF Only, Live
  <2> QED BY <1>1, <1>2, <1>3, <2>1, <2>2, SameRequest
<1>7. ServerLink(k)'
  <2>1. ~Free(k)'
    BY <1>3 DEF Free
  <2> QED BY <1>1, <1>2, <1>3, <1>4, <2>1 DEF ServerLink
<1>8. ASSUME NEW u \in User, cl[u].conn = k PROVE Reply(u)'
  <2>1. io'[Client(u)] = io[Client(u)]
    BY <1>2, Threads DEF Only
  <2>2. Outgoing(u, k)' = Outgoing(u, k)
    BY <1>2, <1>4, <2>1 DEF Outgoing
  <2> QED BY <1>1, <1>2, <1>4, <1>8, <2>1, <2>2, SameReply
<1> QED BY <1>2, <1>3, <1>5, <1>6, <1>7, <1>8, CallMoves, Sides

\* A thread that waits for more has not received a whole put.
LEMMA NotWhole ==
  ASSUME Inv, NEW k \in Conn, io[Server(k)].want > 0, wire[k]["client"] = <<>>
  PROVE  k \notin put
<1> DEFINE p == Server(k)
<1>1. /\ srv[k].at \in Early \ {"none"} /\ open[k]["server"] /\ io[p].rc = 0
      /\ io[p].want = ServerAsks(k) - Len(io[p].got) /\ ServerAsks(k) \in Nat \ {0}
      /\ Request(k) /\ ServerFile(k) /\ io[p].got \in Seq(Unit)
  BY Calling, Served
<1>2. PICK g \in Seq(Unit), F \in File, n \in Nat, l \in Nat :
        /\ g = io[p].got /\ F = src[k] /\ n = Len(g) /\ l = srv[k].left
  BY <1>1, Served, LenProperties
<1>3. n < ServerAsks(k)
  <2>1. ServerAsks(k) - n > 0
    BY <1>1, <1>2
  <2> QED BY <1>1, <2>1
<1>4. Incoming(k) = g
  BY <1>1, <1>2, ConcatEmptySeq DEF Incoming
<1>5. SUFFICES ASSUME k \in put PROVE FALSE
  OBVIOUS
<1>6. PICK type \in {MSG_PUT, MSG_GET}, nm \in Nat, a \in Nat :
        Begun(k, type, nm, a) /\ type = MSG_PUT /\ Whole(F, a + n)
  BY <1>1, <1>2, <1>4, <1>5 DEF Request
<1>7. a + n \in Nat /\ a + n >= 5
  BY <1>6 DEF Whole
<1>8. srv[k].at \in {"put_length", "put_data"}
  <2>1. srv[k].at = "prot" => a = 0 /\ ServerAsks(k) = 2
    BY <1>6 DEF Begun, ServerAsks
  <2>2. srv[k].at = "put_name" => a = 2 /\ ServerAsks(k) = 1
    BY <1>6 DEF Begun, ServerAsks
  <2>3. srv[k].at = "put_prot" => a = 3 /\ ServerAsks(k) = 2
    BY <1>6 DEF Begun, ServerAsks
  <2>4. srv[k].at # "get_url"
    BY <1>6 DEF Begun, MSG_PUT, MSG_GET
  <2> QED BY <1>1, <1>3, <1>7, <2>1, <2>2, <2>3, <2>4 DEF Early
<1>9. PICK j \in Nat : /\ srv[k].off = Block(j)
                       /\ \/ srv[k].at = "put_length" /\ a = 5 + Block(j) + j
                          \/ srv[k].at = "put_data" /\ a = 6 + Block(j) + j
  BY <1>6, <1>8 DEF Begun
<1>10. PICK o \in Nat, f \in Nat : o = Block(j) /\ f = Len(F) /\ o + l = f /\ l > 0
  <2>1. srv[k].off + srv[k].left = Len(src[k]) /\ srv[k].left > 0
    BY <1>1, <1>8 DEF ServerFile, Writing
  <2> QED BY <1>2, <1>9, <2>1, Blocks, LenProperties DEF File
<1>11. o < f /\ l = f - o
  BY <1>10
<1>12. a + n >= 6 + Block(j) + j + FileChunk(l)
  BY <1>6, <1>10, <1>11 DEF Whole
<1>16. PICK c \in Nat : c = FileChunk(l) /\ a + n >= 6 + o + j + c
  BY <1>10, <1>12, Chunks
<1>14. CASE srv[k].at = "put_length"
  <2>1. ServerAsks(k) = 1
    BY <1>14 DEF ServerAsks
  <2>2. n < 1 /\ a = 5 + o + j
    BY <1>3, <1>9, <1>10, <1>14, <2>1
  <2> QED BY <1>16, <2>2
<1>15. CASE srv[k].at = "put_data"
  <2>1. n < c /\ a = 6 + o + j
    BY <1>2, <1>3, <1>9, <1>10, <1>15, <1>16 DEF ServerAsks
  <2> QED BY <1>16, <2>1
<1> QED BY <1>8, <1>14, <1>15

\* A call of thread k fails.
LEMMA ServerFails ==
  ASSUME Inv, NEW k \in Conn, UNCHANGED <<cl, srv, store, src, shared, put>>,
         SendFails(Server(k), k, "server") \/ RecvFails(Server(k), k, "server")
  PROVE  Inv'
<1> DEFINE p == Server(k)
<1>1. /\ TypeOK /\ ServerCalls(k) /\ ServerLink(k) /\ ServerFile(k)
      /\ StreamTypeOK(Thread, Unit) /\ p \in Thread /\ io[p] \in Call /\ io \in [Thread -> Call]
      /\ \A u \in User : ClientLink(u) /\ Reply(u)
  BY Served, Calling
<1>2. /\ Fail(p) /\ (io[p].out # <<>> \/ io[p].want > 0)
  BY DEF SendFails, RecvFails
<1>3. /\ StreamTypeOK(Thread, Unit)' /\ UNCHANGED <<wire, open, reset>> /\ Only(p)
      /\ io'[p].rc = -1 /\ io'[p].out = <<>> /\ io'[p].want = 0 /\ io'[p].got = <<>>
  BY <1>1, <1>2, FailsCall
<1>4. io'[p] = [NoCall EXCEPT !.rc = -1]
  BY <1>1, <1>2 DEF Fail
<1>5. ~open[k]["client"] /\ k \notin put /\ srv[k].at \notin {"none", "done", "leaked", "ended"}
  <2>1. CASE io[p].out # <<>>
    <3>1. srv[k].at \in Reading /\ open[k]["server"] /\ ~(io[p].want > 0)
      BY <2>1, Calling
    <3>2. k \in reset
      BY <3>1 DEF SendFails, RecvFails
    <3> QED BY <1>1, <3>1, <3>2 DEF ServerLink, ServerFile, Reading
  <2>2. CASE io[p].want > 0
    <3>1. srv[k].at \in Early \ {"none"} /\ open[k]["server"] /\ io[p].out = <<>>
      BY <2>2, Calling
    <3>2. k \notin reset
      BY <1>1, <3>1 DEF ServerLink
    <3>3. ~open[k]["client"] /\ wire[k]["client"] = <<>>
      BY <3>1, <3>2, Sides DEF SendFails, RecvFails
    <3>4. k \notin put
      BY <2>2, <3>3, NotWhole
    <3> QED BY <3>1, <3>3, <3>4 DEF Early
  <2> QED BY <1>2, <2>1, <2>2
<1>6. ServerCalls(k)'
  BY <1>3, <1>4, <1>5 DEF ServerCalls, Failed
<1>7. Request(k)'
  BY <1>3 DEF Request
<1>8. ServerLink(k)'
  BY <1>1, <1>3 DEF ServerLink, Free
<1>9. ASSUME NEW u \in User, cl[u].conn = k PROVE Reply(u)'
  <2>1. ~Live(u) /\ io'[Client(u)] = io[Client(u)]
    BY <1>1, <1>3, <1>5, <1>9, Threads DEF ClientLink, Live, Only
  <2> QED BY <2>1 DEF Reply, Live
<1>10. Touch(k, "server")
  BY <1>3 DEF Touch
<1> QED BY <1>3, <1>5, <1>6, <1>7, <1>8, <1>9, <1>10, CallMoves, Sides

\* Every step of a thread.
LEMMA ServerStepKeeps ==
  ASSUME Inv, NEW k \in Conn, ServerStep(k)
  PROVE  Inv'
<1>1. CASE ServerTransfer(k)
  <2>1. Transfer(Server(k), k, "server") /\ UNCHANGED <<cl, srv, store, src, shared, put>>
    BY <1>1 DEF ServerTransfer, history
  <2> QED BY <2>1, ServerSends, ServerReceives, ServerFails DEF Transfer
<1> QED BY <1>1, AcceptKeeps, EndKeeps, ProtReceivedKeeps, GetOpenFileKeeps, GetSendNameKeeps,
        GetSendChunkKeeps, StopKeeps, PutNameReceivedKeeps, PutFileKeeps,
        PutLengthReceivedKeeps DEF ServerStep

-------------------------------------------------------------------------------
(* The steps of a client. *)

CRecord == [at : ClientAt, conn : Conn \union {0}, first : BOOLEAN, name : Nat, left : Nat, file : File]

\* What the invariant says of a client with a connection.
LEMMA Sees ==
  ASSUME Inv, NEW u \in User, cl[u].at \notin {"new", "gone"}
  PROVE  \E k \in Conn :
           /\ k = cl[u].conn /\ open[k]["client"] /\ \A v \in User \ {u} : cl[v].conn # k
           /\ ServerCalls(k) /\ ServerLink(k) /\ Request(k) /\ ServerFile(k)
           /\ srv[k] \in Record /\ src[k] \in File
           /\ wire[k]["client"] \in Seq(Unit) /\ wire[k]["server"] \in Seq(Unit)
           /\ io[Server(k)] \in Call
<1>1. TypeOK /\ ClientLink(u)
  BY DEF Inv
<1>2. cl[u].conn # 0 /\ open[cl[u].conn]["client"]
      /\ \A v \in User : cl[u].conn = cl[v].conn => u = v
  BY <1>1 DEF ClientLink
<1>3. cl[u].conn \in Conn
  BY <1>1, <1>2, Types
<1>4. PICK k \in Conn : k = cl[u].conn
  BY <1>3
<1>5. /\ ServerCalls(k) /\ ServerLink(k) /\ Request(k) /\ ServerFile(k)
      /\ srv[k] \in Record /\ src[k] \in File
      /\ wire[k]["client"] \in Seq(Unit) /\ wire[k]["server"] \in Seq(Unit)
      /\ io[Server(k)] \in Call
  BY Served DEF Record
<1> QED BY <1>2, <1>4, <1>5

\* The parts of Inv about one client.
LEMMA Seen ==
  ASSUME Inv, NEW u \in User
  PROVE  /\ TypeOK /\ StreamTypeOK(Thread, Unit)
         /\ ClientCalls(u) /\ ClientLink(u) /\ Reply(u) /\ ClientFile(u)
         /\ cl \in [User -> CRecord] /\ cl[u] \in CRecord /\ Client(u) \in Thread
         /\ io \in [Thread -> Call] /\ io[Client(u)] \in Call
<1>1. TypeOK /\ ClientCalls(u) /\ ClientLink(u) /\ Reply(u) /\ ClientFile(u)
  BY DEF Inv
<1>2. cl \in [User -> CRecord]
  BY <1>1 DEF TypeOK, CRecord
<1> QED BY <1>1, <1>2, Types, Threads

\* A step of client u keeps the invariant when it keeps these.
LEMMA ClientKeeps ==
  ASSUME Inv, NEW u \in User, NEW k \in Conn, ClientMoves(u, k), TypeOK',
         \A v \in User \ {u} : cl[v].conn # k,
         ServerCalls(k)', ServerLink(k)', Request(k)', ServerFile(k)',
         ClientCalls(u)', Reply(u)', ClientFile(u)',
         cl'[u].at \notin {"new", "gone"} => open'[k]["client"],
         cl'[u].at \in {"new", "gone"} => ~open'[k]["client"],
         ~Free(k)'
  PROVE  Inv'
<1>1. /\ \A j \in Conn \ {k} : ServerCalls(j)' /\ ServerLink(j)' /\ Request(j)' /\ ServerFile(j)'
      /\ \A v \in User \ {u} : ClientCalls(v)' /\ Reply(v)' /\ ClientFile(v)'
      /\ \A v \in User : v # u => ClientLink(v)'
      /\ \A v \in User : cl'[u].conn = cl'[v].conn /\ cl'[u].conn # 0 => u = v
      /\ \A i, j \in Conn : Clash(i, j)'
  BY OthersAsk
<1>2. cl'[u].conn = k /\ k # 0
  BY Types DEF ClientMoves, Inv
<1>3. ClientLink(u)'
  BY <1>1, <1>2 DEF ClientLink
<1> QED BY <1>1, <1>3 DEF Inv

\* A step of client u within its command: nothing is sent or received.
Within(u, k) ==
    /\ k = cl[u].conn /\ cl[u].at \notin {"new", "gone"} /\ cl'[u].at \notin {"new", "gone"}
    /\ cl' \in [User -> CRecord] /\ cl'[u].conn = k /\ \A v \in User \ {u} : cl'[v] = cl[v]
    /\ io' \in [Thread -> Call] /\ Only(Client(u))
    /\ UNCHANGED <<wire, open, reset, srv, store, shared>>

\* A step of a client on its own connection keeps Inv when it keeps the parts about the two.
LEMMA WithinMoves ==
  ASSUME Inv, NEW u \in User, NEW k \in Conn, Within(u, k),
         src' \in [Conn -> File] /\ \A j \in Conn \ {k} : src'[j] = src[j],
         put' \subseteq Conn /\ \A j \in Conn \ {k} : j \in put' <=> j \in put,
         ServerFile(k)', Request(k)', ClientCalls(u)', Reply(u)', ClientFile(u)'
  PROVE  Inv'
<1>1. /\ open[k]["client"] /\ \A v \in User \ {u} : cl[v].conn # k
      /\ ServerCalls(k) /\ ServerLink(k) /\ TypeOK
  BY Sees, Seen DEF Within
<1>2. ClientMoves(u, k)
  BY DEF Within, ClientMoves
<1>3. TypeOK'
  <2>1. StreamTypeOK(Thread, Unit)'
    BY <1>1 DEF Within, TypeOK, StreamTypeOK, Call
  <2>2. srv' = srv /\ store' = store /\ shared' = shared /\ cl' \in [User -> CRecord]
    BY DEF Within
  <2>3. srv \in [Conn -> [at : ServerAt, name : Nat, left : Nat, off : Nat]]
        /\ DOMAIN store \subseteq Name /\ (\A nm \in DOMAIN store : store[nm] \in File)
        /\ shared \subseteq Conn
    BY <1>1 DEF TypeOK
  <2> QED BY <2>1, <2>2, <2>3 DEF TypeOK, CRecord
<1>4. open'[k]["client"] /\ ~Free(k)'
  BY <1>1, Sides DEF Within, Free
<1>5. ServerLink(k)'
  <2>1. UNCHANGED <<wire, open, reset, srv>>
    BY DEF Within
  <2> QED BY <1>1, <1>4, <2>1 DEF ServerLink
<1>6. ServerCalls(k)'
  <2>1. srv'[k] = srv[k] /\ io'[Server(k)] = io[Server(k)]
    BY Threads DEF Within, Only
  <2>2. ~(srv[k].at \in Early \union Reading \union {"leaked"} /\ Failed(Server(k)))
    BY <1>1 DEF ServerCalls
  <2> QED BY <1>1, <2>1, <2>2, StillServerCalls
<1>7. cl'[u].at \notin {"new", "gone"}
  BY DEF Within
<1> QED BY <1>1, <1>2, <1>3, <1>4, <1>5, <1>6, <1>7, ClientKeeps

\* A step within a command on the same file.
LEMMA WithinKeeps ==
  ASSUME Inv, NEW u \in User, NEW k \in Conn, Within(u, k), UNCHANGED <<src, put>>,
         Request(k)', ClientCalls(u)', Reply(u)', ClientFile(u)'
  PROVE  Inv'
<1>1. ServerFile(k) /\ TypeOK
  BY Served
<1>2. ServerFile(k)'
  BY <1>1 DEF ServerFile, Within
<1> QED BY <1>1, <1>2, WithinMoves DEF TypeOK

\* The request is the same when what its client has sent, and whether it goes on, are.
LEMMA WithinRequest ==
  ASSUME Inv, NEW u \in User, NEW k \in Conn, Within(u, k), UNCHANGED <<src, put>>,
         ~(Live(u)' /\ cl'[u].first)
  PROVE  Request(k)'
<1>1. /\ open[k]["client"] /\ \A v \in User \ {u} : cl[v].conn # k
      /\ Request(k)
  BY Sees DEF Within
<1>2. /\ srv'[k] = srv[k] /\ io'[Server(k)] = io[Server(k)]
      /\ UNCHANGED <<wire, open>> /\ \A v \in User \ {u} : cl'[v] = cl[v]
  BY Threads DEF Within, Only
<1>3. \A v \in User : cl'[v].conn = k /\ Live(v)' /\ cl'[v].first => FALSE
  BY <1>1, <1>2
<1> QED BY <1>1, <1>2, <1>3, StillRequest

\* Only client u goes to at.
LEMMA Going ==
  ASSUME Inv, NEW u \in User, NEW k \in Conn, cl[u].conn = k, cl[u].at \notin {"new", "gone"},
         NEW c \in CRecord, c.conn = k, c.at \notin {"new", "gone"}, cl' = [cl EXCEPT ![u] = c],
         io' \in [Thread -> Call], Only(Client(u)),
         UNCHANGED <<wire, open, reset, srv, store, shared>>
  PROVE  Within(u, k) /\ cl'[u] = c
<1>1. cl \in [User -> CRecord]
  BY Seen
<1> QED BY <1>1 DEF Within

\* A command fails.
LEMMA FailsKeep ==
  ASSUME Inv, NEW u \in User, PutNoName(u) \/ LocalError(u) \/ CallFails(u)
  PROVE  Inv'
<1>1. /\ Goto(u, "failed") /\ UNCHANGED <<wire, open, reset, io, srv, store, shared, src, put>>
      /\ cl[u].at \notin {"new", "gone"}
  BY DEF PutNoName, LocalError, CallFails, Called, streamVars, serverSide
<1>2. PICK k \in Conn : k = cl[u].conn /\ open[k]["client"]
  BY <1>1, Sees
<1>3. ClientCalls(u) /\ cl \in [User -> CRecord] /\ cl[u] \in CRecord /\ io \in [Thread -> Call]
      /\ io[Client(u)] \in Call
  BY Seen
<1>4. PICK c \in CRecord : c = [cl[u] EXCEPT !.at = "failed"] /\ c.conn = cl[u].conn /\ c.at = "failed"
  <2> DEFINE d == [cl[u] EXCEPT !.at = "failed"]
  <2>1. d \in CRecord
    BY <1>3 DEF CRecord, ClientAt
  <2>2. d.conn = cl[u].conn /\ d.at = "failed"
    BY <1>3 DEF CRecord
  <2> QED BY <2>1, <2>2
<1>5. Within(u, k) /\ cl'[u] = c
  <2>1. cl' = [cl EXCEPT ![u] = c] /\ Only(Client(u)) /\ io' \in [Thread -> Call]
    BY <1>1, <1>3, <1>4 DEF Goto, Only
  <2> QED BY <1>1, <1>2, <1>4, <2>1, Going
<1>6. ~Live(u)'
  BY <1>4, <1>5 DEF Live
<1>7. Returned(Client(u))
  <2>1. CASE PutNoName(u)
    <3>1. cl[u].at = "prompt"
      BY <2>1 DEF PutNoName
    <3>2. Live(u) /\ ClientAsks(u) = 0
      BY <1>3, <3>1 DEF ClientCalls, Live, ClientAsks
    <3> QED BY <1>3, <3>1, <3>2 DEF ClientCalls, Asked, Returned
  <2>2. CASE LocalError(u)
    BY <2>2 DEF LocalError, Called, Succeeded
  <2>3. CASE CallFails(u)
    <3>1. io[Client(u)] = [NoCall EXCEPT !.rc = -1]
      BY <1>3, <2>3 DEF CallFails, ClientCalls
    <3> QED BY <3>1 DEF Returned, NoCall
  <2> QED BY <2>1, <2>2, <2>3
<1>8. ClientCalls(u)'
  <2>1. cl'[u].at = "failed" /\ io' = io
    BY <1>1, <1>4, <1>5
  <2> QED BY <1>3, <1>6, <1>7, <2>1 DEF ClientCalls, Failed, Returned
<1>9. Request(k)'
  BY <1>1, <1>5, <1>6, WithinRequest
<1>10. Reply(u)' /\ ClientFile(u)'
  BY <1>6 DEF Reply, ClientFile
<1> QED BY <1>1, <1>5, <1>8, <1>9, <1>10, WithinKeeps

\* A reply is on its way to client u, and none is.
LEMMA ReplyComing ==
  ASSUME NEW u \in User, NEW k \in Conn, cl'[u].conn = k, cl'[u].first, cl'[u].at \in GetAt,
         NEW s, s = Outgoing(u, k)', NEW n, n = Taken(u)',
         Along(Replies(k, shared', src'[k], cl'[u].name), s, n),
         srv'[k].at \in Reading => n + Len(s) = Given(k)' /\ srv'[k].name = cl'[u].name,
         srv'[k].at \in Early =>
           cl'[u].at \in {"get_name", "get_file"} /\ io'[Client(u)].got = <<>>
  PROVE  Reply(u)'
  BY DEF Reply

\* A client that asks for no reply, and has none on the way.
LEMMA NoReply ==
  ASSUME NEW u \in User, NEW k \in Conn, cl'[u].conn = k, ~(cl'[u].first /\ cl'[u].at \in GetAt),
         wire'[k]["server"] = <<>>, io'[Server(k)].out = <<>>,
         cl'[u].at # "prompt" => io'[Client(u)].got = <<>>,
         srv'[k].at \in Reading => ~cl'[u].first /\ srv'[k].at # "get_prot" /\ srv'[k].left = 0,
         ~cl'[u].first /\ k \notin put' => srv'[k].at \notin Early,
         cl'[u].at \notin {"get_file_name", "get_data"}
  PROVE  Reply(u)'
  BY DEF Reply

\* Client u, whose call has returned 0, starts to send s and goes on as c.
Asks(u, k, c, s) ==
    /\ k = cl[u].conn /\ Live(u) /\ io[Client(u)].out = <<>> /\ io[Client(u)].want = 0
    /\ cl[u].at \notin GetAt
    /\ c \in CRecord /\ c.conn = k /\ c.first = cl[u].first
    /\ c.at \in {"put_prot", "get_prot", "put_name", "get_name", "put_file", "put_length", "put_data"}
    /\ c.at \in {"put_prot", "get_prot"} => c.name \in Name
    /\ s \in Seq(Unit) /\ cl' = [cl EXCEPT ![u] = c] /\ BeginSend(Client(u), s)
    /\ UNCHANGED <<wire, open, reset, srv, store, shared, put>>

\* The client goes on sending its request.
LEMMA AsksOn ==
  ASSUME Inv, NEW u \in User, NEW k \in Conn, NEW c, NEW s, Asks(u, k, c, s)
  PROVE  /\ Within(u, k) /\ cl'[u] = c /\ Live(u)' /\ ClientCalls(u)' /\ Reply(u)'
         /\ io'[Client(u)].rc = 0 /\ io'[Client(u)].out = s
         /\ io'[Client(u)].want = 0 /\ io'[Client(u)].got = <<>>
         /\ srv[k].at \in Reading => ~cl[u].first
<1>1. /\ ClientCalls(u) /\ Reply(u) /\ cl \in [User -> CRecord] /\ cl[u] \in CRecord
      /\ StreamTypeOK(Thread, Unit) /\ Client(u) \in Thread
  BY Seen
<1>2. /\ io' \in [Thread -> Call] /\ Only(Client(u))
      /\ io'[Client(u)].rc = 0 /\ io'[Client(u)].out = s
      /\ io'[Client(u)].want = 0 /\ io'[Client(u)].got = <<>>
  BY <1>1, BeginsSend DEF Asks
<1>3. /\ k = cl[u].conn /\ Live(u) /\ cl[u].at \notin GetAt /\ cl[u].at \notin {"new", "gone"}
      /\ c \in CRecord /\ c.conn = k /\ c.first = cl[u].first /\ cl' = [cl EXCEPT ![u] = c]
      /\ c.at \in {"put_prot", "get_prot", "put_name", "get_name", "put_file", "put_length", "put_data"}
      /\ c.at \in {"put_prot", "get_prot"} => c.name \in Name
      /\ UNCHANGED <<wire, open, reset, srv, store, shared, put>>
  BY DEF Asks, Live
<1>4. Within(u, k) /\ cl'[u] = c
  BY <1>2, <1>3, Going
<1>5. Live(u)'
  BY <1>2, <1>3, <1>4 DEF Live
<1>6. ClientAsks(u)' = 0
  BY <1>3, <1>4 DEF ClientAsks
<1>7. ClientCalls(u)'
  BY <1>2, <1>3, <1>4, <1>6 DEF ClientCalls, Asked, Failed
<1>8. /\ wire[k]["server"] = <<>> /\ io[Server(k)].out = <<>>
      /\ srv[k].at \in Reading => ~cl[u].first /\ srv[k].at # "get_prot" /\ srv[k].left = 0
      /\ ~cl[u].first /\ k \notin put => srv[k].at \notin Early
  BY <1>1, <1>3 DEF Reply
<1>9. /\ wire'[k]["server"] = <<>> /\ io'[Server(k)] = io[Server(k)] /\ srv' = srv
      /\ put' = put /\ cl'[u].conn = k /\ cl'[u].first = cl[u].first
  BY <1>2, <1>3, <1>4, <1>8, Threads DEF Only
<1>10. Reply(u)'
  <2>1. CASE c.at = "get_name" /\ c.first
    <3>1. Outgoing(u, k)' = <<>>
      BY <1>2, <1>8, <1>9, ConcatEmptySeq DEF Outgoing
    <3>2. cl'[u].first /\ cl'[u].at \in GetAt /\ srv'[k].at \notin Reading
      BY <1>3, <1>4, <1>8, <1>9, <2>1 DEF GetAt
    <3>3. Taken(u)' = 0 /\ cl'[u].at = "get_name"
      BY <1>4, <2>1 DEF Taken
    <3> QED BY <1>2, <1>9, <3>1, <3>2, <3>3, AlongNothing, ReplyComing
  <2>2. CASE ~(c.at = "get_name" /\ c.first)
    <3>1. ~(cl'[u].first /\ cl'[u].at \in GetAt) /\ cl'[u].at \notin {"get_file_name", "get_data"}
      BY <1>3, <1>4, <2>2 DEF GetAt
    <3> QED BY <1>2, <1>8, <1>9, <3>1, NoReply
  <2> QED BY <2>1, <2>2
<1> QED BY <1>2, <1>4, <1>5, <1>7, <1>8, <1>10

\* The next part of a request.
LEMMA AsksMore ==
  ASSUME Inv, NEW u \in User, NEW k \in Conn, NEW c, NEW s, Asks(u, k, c, s), src' = src,
         ClientFile(u)',
         ASSUME cl[u].first, NEW type \in {MSG_PUT, MSG_GET}, NEW nm \in Nat, NEW m \in Nat,
                Sent(u, src[k], type, nm, m)
         PROVE  /\ Along(Requests(src[k], type, nm), s, m)
                /\ Sent(u, src[k], type, nm, m + Len(s))'
  PROVE  Inv'
<1>1. /\ Within(u, k) /\ cl'[u] = c /\ Live(u)' /\ ClientCalls(u)' /\ Reply(u)'
      /\ io'[Client(u)].out = s
  BY AsksOn
<1>2. s \in Seq(Unit) /\ put' = put /\ c.first = cl[u].first /\ Live(u) /\ io[Client(u)].out = <<>>
      /\ k = cl[u].conn /\ cl[u].at \notin {"new", "gone"} /\ c.conn = k
  BY DEF Asks, Live
<1>3. CASE ~cl[u].first
  <2>1. Request(k)'
    BY <1>1, <1>2, <1>3, WithinRequest
  <2> QED BY <1>1, <1>2, <2>1, WithinKeeps
<1>4. CASE cl[u].first
  <2>1. SUFFICES ASSUME open[k]["server"], srv[k].at \in Early, io[Server(k)].rc = 0
                 PROVE  Request(k)'
    <3>1. ASSUME ~(open[k]["server"] /\ srv[k].at \in Early /\ io[Server(k)].rc = 0)
          PROVE  Request(k)'
      BY <1>1, <3>1, Threads DEF Request, Within, Only
    <3> QED BY <1>1, <1>2, <2>1, <3>1, WithinKeeps
  <2>2. /\ Request(k) /\ \A v \in User \ {u} : cl[v].conn # k
        /\ io[Server(k)].got \in Seq(Unit) /\ wire[k]["client"] \in Seq(Unit)
    BY <1>2, Sees, Served
  <2>3. PICK type \in {MSG_PUT, MSG_GET}, nm \in Nat, a \in Nat :
          /\ Begun(k, type, nm, a) /\ Along(Requests(src[k], type, nm), Incoming(k), a)
          /\ k \in put => type = MSG_PUT /\ Whole(src[k], a + Len(Incoming(k)))
          /\ \A v \in User : cl[v].conn = k /\ Live(v) /\ cl[v].first =>
               Sent(v, src[k], type, nm, a + Len(Incoming(k)) + Len(io[Client(v)].out))
    BY <2>1, <2>2 DEF Request
  <2>4. Len(Incoming(k)) \in Nat
    BY <2>2, Concat, LenProperties DEF Incoming
  <2>5. PICK m \in Nat : m = a + Len(Incoming(k))
    BY <2>4
  <2>6. Sent(u, src[k], type, nm, m)
    <3>1. Sent(u, src[k], type, nm, m + Len(io[Client(u)].out))
      BY <1>2, <1>4, <2>3, <2>5
    <3>2. m + Len(io[Client(u)].out) = m
      BY <1>2, AlongNothing
    <3> QED BY <3>1, <3>2
  <2>7. /\ Along(Requests(src[k], type, nm), s, m)
        /\ Sent(u, src[k], type, nm, m + Len(s))'
    BY <1>4, <2>6
  <2>8. Begun(k, type, nm, a)' /\ Incoming(k)' = Incoming(k)
    BY <1>1, <2>3, Threads, Zenon DEF Begun, Incoming, Within, Only
  <2>9. ASSUME NEW v \in User, cl'[v].conn = k
        PROVE  /\ Along(Requests(src[k], type, nm), io'[Client(v)].out, m)
               /\ Sent(v, src[k], type, nm, m + Len(io[Client(v)].out))'
    <3>1. v = u
      BY <1>1, <2>2, <2>9 DEF Within
    <3>2. Len(s)' = Len(io[Client(u)].out)'
      BY <1>1
    <3>3. Sent(u, src[k], type, nm, m + Len(io[Client(u)].out))'
      BY <1>1, <2>7
    <3> QED BY <1>1, <2>7, <3>1, <3>3
  <2> QED BY <1>2, <2>3, <2>5, <2>8, <2>9 DEF Request
<1> QED BY <1>3, <1>4

\* One unit and two units, by position.
LEMMA AlongUnits ==
  ASSUME NEW R, NEW s, NEW m \in Nat, NEW n \in Nat
  PROVE  /\ Len(s) = 1 /\ n = m + 1 /\ s[1] \in R[n] => Along(R, s, m)
         /\ Len(s) = 2 /\ n = m + 1 /\ s[1] \in R[n] /\ s[2] \in R[n + 1] => Along(R, s, m)
<1>1. ASSUME Len(s) = 1, n = m + 1, s[1] \in R[n] PROVE Along(R, s, m)
  <2> SUFFICES ASSUME NEW i \in 1 .. 1 PROVE s[i] \in R[m + i]
    BY <1>1 DEF Along
  <2>1. i = 1
    OBVIOUS
  <2> QED BY <1>1, <2>1
<1>2. ASSUME Len(s) = 2, n = m + 1, s[1] \in R[n], s[2] \in R[n + 1] PROVE Along(R, s, m)
  <2> SUFFICES ASSUME NEW i \in 1 .. 2 PROVE s[i] \in R[m + i]
    BY <1>2 DEF Along
  <2>1. CASE i = 1
    BY <1>2, <2>1
  <2>2. CASE i = 2
    <3>1. m + 2 = n + 1
      BY <1>2
    <3> QED BY <1>2, <2>2, <3>1
  <2> QED BY <2>1, <2>2
<1> QED BY <1>1, <1>2

\* Who has called, and succeeded, is alive.
LEMMA Alive ==
  ASSUME Inv, NEW u \in User, Succeeded(Client(u)), cl[u].at \notin {"new", "failed", "gone"}
  PROVE  /\ Live(u) /\ io[Client(u)].out = <<>> /\ io[Client(u)].want = 0 /\ io[Client(u)].rc = 0
         /\ \E k \in Conn : k = cl[u].conn
  BY Sees DEF Live, Succeeded, Returned

\* put() and get() send the name.
LEMMA SendNameKeeps ==
  ASSUME Inv, NEW u \in User, SendName(u)
  PROVE  Inv'
<1>1. /\ Succeeded(Client(u))
      /\ \/ cl[u].at = "put_prot" /\ Goto(u, "put_name")
         \/ cl[u].at = "get_prot" /\ Goto(u, "get_name")
      /\ BeginSend(Client(u), NameUnit(cl[u].name))
      /\ UNCHANGED <<wire, open, reset, srv, store, shared, src, put>>
  BY DEF SendName, Called, kernel, serverSide
<1>2. /\ Live(u) /\ io[Client(u)].out = <<>> /\ io[Client(u)].want = 0
      /\ \E k \in Conn : k = cl[u].conn
  BY <1>1, Alive
<1>3. PICK k \in Conn, at \in {"put_name", "get_name"}, N \in Name :
        /\ k = cl[u].conn /\ Goto(u, at) /\ N = cl[u].name
        /\ at = "put_name" => cl[u].at = "put_prot"
        /\ at = "get_name" => cl[u].at = "get_prot"
  <2>1. cl[u].name \in Name
    BY <1>1, Seen DEF ClientCalls
  <2> QED BY <1>1, <1>2, <2>1
<1>4. PICK c \in CRecord : /\ c = [cl[u] EXCEPT !.at = at] /\ c.conn = k /\ c.at = at /\ c.name = N
                           /\ c.first = cl[u].first
  <2> DEFINE d == [cl[u] EXCEPT !.at = at]
  <2>1. cl[u] \in CRecord
    BY Seen
  <2>2. d \in CRecord
    BY <2>1 DEF CRecord, ClientAt
  <2>3. d.conn = cl[u].conn /\ d.at = at /\ d.name = cl[u].name /\ d.first = cl[u].first
    BY <2>1 DEF CRecord
  <2> QED BY <1>3, <2>2, <2>3
<1>5. N \in Nat
  BY FileAssumption
<1>6. PICK s \in Seq(Unit) : s = NameUnit(N) /\ Len(s) = 1
  BY <1>5, Units
<1>7. Asks(u, k, c, s)
  <2>1. cl' = [cl EXCEPT ![u] = c]
    <3>1. cl \in [User -> CRecord]
      BY Seen
    <3> QED BY <1>3, <1>4, <3>1 DEF Goto
  <2>2. cl[u].at \notin GetAt
    BY <1>3 DEF GetAt
  <2> QED BY <1>1, <1>2, <1>3, <1>4, <1>6, <2>1, <2>2 DEF Asks
<1>8. cl'[u] = c
  BY <1>7, AsksOn
<1>9. ClientFile(u)'
  <2>1. cl[u].at = "put_prot" /\ cl[u].first => src[k] = Unopened
    BY <1>2, <1>3, Seen DEF ClientFile, PutFile
  <2>2. src' = src
    BY <1>1
  <2> QED BY <1>3, <1>4, <1>8, <2>1, <2>2 DEF ClientFile, PutFile, GotFile
<1>10. ASSUME cl[u].first, NEW type \in {MSG_PUT, MSG_GET}, NEW nm \in Nat, NEW m \in Nat,
              Sent(u, src[k], type, nm, m)
       PROVE  /\ Along(Requests(src[k], type, nm), s, m)
              /\ Sent(u, src[k], type, nm, m + Len(s))'
  <2>1. m = 2 /\ nm = N /\ (at = "put_name" => type = MSG_PUT) /\ (at = "get_name" => type = MSG_GET)
    BY <1>3, <1>10 DEF Sent, GetAt
  <2>2. m + Len(s) = 3
    BY <1>6, <2>1
  <2>3. Sent(u, src[k], type, nm, 3)'
    BY <1>3, <1>4, <1>8, <2>1 DEF Sent, GetAt
  <2>4. s[1] \in Requests(src[k], type, nm)[3]
    <3>1. s[1] \in Unit
      <4>1. s \in Seq(Unit) /\ Len(s) = 1 /\ 1 \in 1 .. 1
        BY <1>6
      <4>2. \A i \in 1 .. Len(s) : s[i] \in Unit
        BY <4>1, LenProperties
      <4> QED BY <4>1, <4>2
    <3>2. src[k] \in File
      BY Served
    <3> QED BY <1>6, <2>1, <3>1, <3>2, RequestBegins
  <2>5. Along(Requests(src[k], type, nm), s, m)
    BY <1>6, <2>1, <2>4, AlongUnits
  <2> QED BY <2>2, <2>3, <2>5
<1>11. src' = src
  BY <1>1
<1> QED BY <1>7, <1>9, <1>10, <1>11, AsksMore

\* A chunk of a put: what is left of the file, from Block(j) on.
LEMMA SendsChunk ==
  ASSUME Inv, NEW u \in User, NEW F \in File, NEW f \in File, cl[u].file = f, f # NoFile,
         NEW type, NEW nm, NEW m,
         cl[u].at \in {"put_file", "put_data", "put_length"}, Sent(u, F, type, nm, m)
  PROVE  /\ type = MSG_PUT /\ nm = cl[u].name
         /\ \E j \in Nat :
              /\ Len(F) - Len(f) = Block(j)
              /\ cl[u].at \in {"put_file", "put_data"} => m = 5 + Block(j) + j
              /\ cl[u].at = "put_length" => m = 6 + Block(j) + j
  BY DEF Sent, GetAt

\* put() sends the length of the next chunk.
LEMMA PutChunkLengthKeeps ==
  ASSUME Inv, NEW u \in User, PutChunkLength(u)
  PROVE  Inv'
<1>1. /\ cl[u].at \in {"put_file", "put_data"} /\ Succeeded(Client(u)) /\ cl[u].file # NoFile
      /\ BeginSend(Client(u), ChunkLength(FileChunk(Len(cl[u].file))))
      /\ Goto(u, "put_length")
      /\ UNCHANGED <<wire, open, reset, srv, store, shared, src, put>>
  BY DEF PutChunkLength, Called, kernel, serverSide
<1>2. /\ Live(u) /\ io[Client(u)].out = <<>> /\ io[Client(u)].want = 0
      /\ \E k \in Conn : k = cl[u].conn
  BY <1>1, Alive
<1>3. PICK k \in Conn, f \in File, n \in Nat : k = cl[u].conn /\ f = cl[u].file /\ n = Len(f) /\ n > 0
  <2>1. cl[u] \in CRecord
    BY Seen
  <2>2. cl[u].file \in File /\ Len(cl[u].file) \in Nat
    BY <2>1, LenProperties DEF CRecord, File
  <2>3. Len(cl[u].file) # 0
    BY <1>1, <2>2, EmptySeq DEF File, NoFile
  <2> QED BY <1>2, <2>2, <2>3
<1>4. PICK c \in CRecord : /\ c = [cl[u] EXCEPT !.at = "put_length"] /\ c.conn = k /\ c.at = "put_length"
                           /\ c.name = cl[u].name /\ c.first = cl[u].first /\ c.file = f
  <2> DEFINE d == [cl[u] EXCEPT !.at = "put_length"]
  <2>1. cl[u] \in CRecord
    BY Seen
  <2>2. d \in CRecord
    BY <2>1 DEF CRecord, ClientAt
  <2>3. /\ d.conn = cl[u].conn /\ d.at = "put_length" /\ d.name = cl[u].name /\ d.first = cl[u].first
        /\ d.file = cl[u].file
    BY <2>1 DEF CRecord
  <2> QED BY <1>3, <2>2, <2>3
<1>5. PICK s \in Seq(Unit) : s = ChunkLength(FileChunk(n)) /\ Len(s) = 1
  BY <1>3, Chunks, Units
<1>6. Asks(u, k, c, s)
  <2>1. cl' = [cl EXCEPT ![u] = c]
    BY <1>1, <1>3, <1>4, Seen DEF Goto
  <2>2. cl[u].at \notin GetAt
    BY <1>1 DEF GetAt
  <2> QED BY <1>1, <1>2, <1>3, <1>4, <1>5, <2>1, <2>2 DEF Asks
<1>7. cl'[u] = c
  BY <1>6, AsksOn
<1>8. ClientFile(u)'
  <2>1. cl[u].first => PutFile(cl[u], src[k])
    BY <1>2, <1>3, Seen DEF ClientFile
  <2>2. cl[u].first => PutFile(c, src[k]) /\ GotFile(c, src[k], shared)
    <3>1. c.file = cl[u].file
      BY <1>3, <1>4
    <3>2. cl[u].first => PutFile(c, src[k])
      BY <1>1, <1>4, <2>1, <3>1 DEF PutFile
    <3>3. GotFile(c, src[k], shared)
      BY <1>4 DEF GotFile
    <3> QED BY <3>2, <3>3
  <2> QED BY <1>1, <1>4, <1>7, <2>2 DEF ClientFile
<1>9. ASSUME cl[u].first, NEW type \in {MSG_PUT, MSG_GET}, NEW nm \in Nat, NEW m \in Nat,
              Sent(u, src[k], type, nm, m)
       PROVE  /\ Along(Requests(src[k], type, nm), s, m)
              /\ Sent(u, src[k], type, nm, m + Len(s))'
  <2>1. PICK F \in File : F = src[k]
    BY Served
  <2>2. PICK j \in Nat : /\ Len(F) - n = Block(j) /\ m = 5 + Block(j) + j
                         /\ type = MSG_PUT /\ nm = cl[u].name
    <3>1. f = cl[u].file /\ f # NoFile
      BY <1>1, <1>3
    <3>2. Sent(u, F, type, nm, m)
      BY <1>9, <2>1
    <3>3. /\ type = MSG_PUT /\ nm = cl[u].name
          /\ \E j \in Nat : Len(F) - Len(f) = Block(j) /\ m = 5 + Block(j) + j
      BY <1>1, <3>1, <3>2, SendsChunk, SMTT(30)
    <3> QED BY <1>3, <3>3
  <2>3. PICK o \in Nat, l \in Nat : o = Block(j) /\ l = Len(F) /\ o < l /\ n = l - o
    <3>1. Block(j) \in Nat /\ Len(F) \in Nat
      BY Blocks, LenProperties DEF File
    <3>2. PICK o \in Nat, l \in Nat : o = Block(j) /\ l = Len(F) /\ l - n = o
      BY <2>2, <3>1
    <3>3. o < l /\ n = l - o
      BY <1>3, <3>2
    <3> QED BY <3>2, <3>3
  <2>4. m + 1 = 6 + Block(j) + j + 0 /\ m + Len(s) = 6 + Block(j) + j
    <3>1. m = 5 + o + j
      BY <2>2, <2>3
    <3>2. m + 1 = 6 + o + j + 0 /\ m + 1 = 6 + o + j
      BY <3>1
    <3> QED BY <1>5, <2>3, <3>2
  <2>5. s[1] \in Requests(F, MSG_PUT, nm)[6 + Block(j) + j + 0]
    <3>1. s[1] \in Unit /\ s[1] = ChunkLength(FileChunk(Len(F) - Block(j)))[1]
      BY <1>5, <2>3
    <3>2. 0 \in 0 .. FileChunk(Len(F) - Block(j)) /\ Block(j) < Len(F)
      BY <2>3, Chunks
    <3> QED BY <3>1, <3>2, RequestGoesOn
  <2>6. Along(Requests(F, type, nm), s, m)
    <3>1. s[1] \in Requests(F, type, nm)[m + 1]
      BY <2>2, <2>4, <2>5, Zenon
    <3> QED BY <1>5, <3>1, AlongUnits
  <2>7. Sent(u, F, type, nm, 6 + Block(j) + j)'
    <3>1. Len(F) - Len(cl'[u].file) = Block(j) /\ cl'[u].file # NoFile /\ cl'[u].at = "put_length"
          /\ nm = cl'[u].name
      BY <1>1, <1>3, <1>4, <1>7, <2>2
    <3> QED BY <2>2, <3>1 DEF Sent
  <2>8. Sent(u, F, type, nm, m + Len(s))'
    BY <2>4, <2>7
  <2>9. src'[k] = F
    BY <1>1, <2>1
  <2> QED BY <2>1, <2>6, <2>8, <2>9 DEF Sent
<1>10. src' = src
  BY <1>1
<1> QED BY <1>6, <1>8, <1>9, <1>10, AsksMore

\* A file cut behind its first n units.
LEMMA Halves ==
  ASSUME NEW f \in File, NEW l \in Nat, l = Len(f), NEW n \in Nat, n <= l
  PROVE  /\ SubSeq(f, 1, n) \in File /\ Len(SubSeq(f, 1, n)) = n
         /\ \A i \in 1 .. n : SubSeq(f, 1, n)[i] = f[i]
         /\ SubSeq(f, n + 1, l) \in File /\ Len(SubSeq(f, n + 1, l)) = l - n
         /\ \A i \in 1 .. l - n : SubSeq(f, n + 1, l)[i] = f[n + i]
<1>1. PICK m \in Nat : m = 0
  OBVIOUS
<1>2. m <= n /\ n <= Len(f) /\ l <= Len(f)
  BY <1>1
<1>3. /\ SubSeq(f, m + 1, n) \in File /\ Len(SubSeq(f, m + 1, n)) = n - m
      /\ \A i \in 1 .. n - m : SubSeq(f, m + 1, n)[i] = f[m + i]
  BY <1>2, Parts
<1>4. m + 1 = 1 /\ n - m = n /\ \A i \in 1 .. n : m + i = i
  BY <1>1
<1>5. /\ SubSeq(f, 1, n) \in File /\ Len(SubSeq(f, 1, n)) = n
      /\ \A i \in 1 .. n : SubSeq(f, 1, n)[i] = f[m + i]
  BY <1>3, <1>4, Zenon
<1>6. /\ SubSeq(f, n + 1, l) \in File /\ Len(SubSeq(f, n + 1, l)) = l - n
      /\ \A i \in 1 .. l - n : SubSeq(f, n + 1, l)[i] = f[n + i]
  BY <1>2, Parts
<1>7. \A i \in 1 .. n : SubSeq(f, 1, n)[i] = f[i]
  <2> TAKE i \in 1 .. n
  <2>1. m + i = i
    BY <1>4
  <2>2. SubSeq(f, 1, n)[i] = f[m + i]
    BY <1>5
  <2> QED BY <2>1, <2>2
<1> QED BY <1>5, <1>6, <1>7

\* Where a unit of the rest of a file lies in the file.
LEMMA Shift ==
  ASSUME NEW l \in Nat, NEW n \in Nat, n <= l, NEW L \in Nat, NEW i \in 1 .. l - n
  PROVE  n + i \in 1 .. l /\ L - l + (n + i) = L - (l - n) + i
  OBVIOUS

\* put() sends the next chunk.
LEMMA PutChunkKeeps ==
  ASSUME Inv, NEW u \in User, PutChunk(u)
  PROVE  Inv'
<1>1. /\ cl[u].at = "put_length" /\ Succeeded(Client(u))
      /\ BeginSend(Client(u), Data(SubSeq(cl[u].file, 1, FileChunk(Len(cl[u].file)))))
      /\ cl' = [cl EXCEPT ![u].at = "put_data",
                          ![u].file = SubSeq(@, FileChunk(Len(cl[u].file)) + 1, Len(@))]
      /\ UNCHANGED <<wire, open, reset, srv, store, shared, src, put>>
  BY DEF PutChunk, Called, kernel, serverSide
<1>2. /\ Live(u) /\ io[Client(u)].out = <<>> /\ io[Client(u)].want = 0
      /\ \E k \in Conn : k = cl[u].conn
  BY <1>1, Alive
<1>3. PICK k \in Conn, f \in File, l \in Nat, n \in Nat :
        k = cl[u].conn /\ f = cl[u].file /\ l = Len(f) /\ n = FileChunk(l) /\ n <= l
  <2>1. cl[u] \in CRecord
    BY Seen
  <2>2. cl[u].file \in File /\ Len(cl[u].file) \in Nat
    BY <2>1, LenProperties DEF CRecord, File
  <2> QED BY <1>2, <2>2, Chunks
<1>4. PICK head \in File, rest \in File :
        /\ head = SubSeq(f, 1, n) /\ Len(head) = n /\ rest = SubSeq(f, n + 1, l) /\ Len(rest) = l - n
        /\ \A i \in 1 .. n : head[i] = f[i]
        /\ \A i \in 1 .. l - n : rest[i] = f[n + i]
  <2>1. /\ SubSeq(f, 1, n) \in File /\ Len(SubSeq(f, 1, n)) = n
        /\ \A i \in 1 .. n : SubSeq(f, 1, n)[i] = f[i]
        /\ SubSeq(f, n + 1, l) \in File /\ Len(SubSeq(f, n + 1, l)) = l - n
        /\ \A i \in 1 .. l - n : SubSeq(f, n + 1, l)[i] = f[n + i]
    <3>1. l = Len(f) /\ n <= l
      BY <1>3
    <3> QED BY <3>1, Halves
  <2> QED BY <2>1
<1>5. PICK c \in CRecord : /\ c.conn = k /\ c.at = "put_data" /\ cl' = [cl EXCEPT ![u] = c]
                           /\ c.name = cl[u].name /\ c.first = cl[u].first /\ c.file = rest
  <2> DEFINE d == [cl[u] EXCEPT !.at = "put_data", !.file = rest]
  <2>1. cl[u] \in CRecord /\ cl \in [User -> CRecord]
    BY Seen
  <2>2. d \in CRecord
    BY <2>1 DEF CRecord, ClientAt
  <2>3. /\ d.conn = cl[u].conn /\ d.at = "put_data" /\ d.name = cl[u].name /\ d.first = cl[u].first
        /\ d.file = rest
    BY <2>1 DEF CRecord
  <2>4. SubSeq(cl[u].file, FileChunk(Len(cl[u].file)) + 1, Len(cl[u].file)) = rest
    BY <1>3, <1>4
  <2>5. cl' = [cl EXCEPT ![u] = d]
    BY <1>1, <2>1, <2>4 DEF CRecord
  <2> QED BY <1>3, <2>2, <2>3, <2>5
<1>6. PICK s \in Seq(Unit) : s = Data(head) /\ Len(s) = n /\ \A i \in 1 .. n : s[i] = <<"data", head[i]>>
  BY <1>4, Datas, ZenonT(60)
<1>7. Asks(u, k, c, s)
  <2>1. BeginSend(Client(u), s)
    BY <1>1, <1>3, <1>4, <1>6
  <2>2. cl[u].at \notin GetAt
    BY <1>1 DEF GetAt
  <2> QED BY <1>1, <1>2, <1>3, <1>5, <1>6, <2>1, <2>2 DEF Asks
<1>8. cl'[u] = c
  BY <1>7, AsksOn
<1>9. PICK F \in File, L \in Nat : F = src[k] /\ L = Len(F)
  BY Served
<1>10. cl[u].first => F # Unopened /\ l <= L /\ \A i \in 1 .. l : f[i] = F[L - l + i]
  <2>1. cl[u].first => PutFile(cl[u], F)
    BY <1>2, <1>3, <1>9, Seen DEF ClientFile
  <2> QED BY <1>1, <1>3, <1>9, <2>1 DEF PutFile
<1>11. ClientFile(u)'
  <2>1. ASSUME cl[u].first PROVE PutFile(c, F)
    <3>1. Len(rest) <= L
      BY <1>3, <1>4, <1>10, <2>1
    <3>2. ASSUME NEW i \in 1 .. l - n PROVE rest[i] = F[L - (l - n) + i]
      <4>1. n + i \in 1 .. l /\ L - l + (n + i) = L - (l - n) + i
        <5>1. n <= l
          BY <1>3
        <5> QED BY <5>1, Shift
      <4>2. rest[i] = f[n + i]
        BY <1>4
      <4>3. f[n + i] = F[L - l + (n + i)]
        BY <1>10, <2>1, <4>1
      <4> QED BY <4>1, <4>2, <4>3
    <3>3. \A i \in 1 .. Len(c.file) : c.file[i] = F[Len(F) - Len(c.file) + i]
      <4>1. c.file = rest /\ Len(c.file) = l - n /\ Len(F) = L
        BY <1>4, <1>5, <1>9
      <4> QED BY <3>2, <4>1, Zenon
    <3> QED BY <1>5, <1>9, <1>10, <2>1, <3>1, <3>3 DEF PutFile
  <2>2. GotFile(c, F, shared)
    BY <1>5 DEF GotFile
  <2>3. src' = src
    BY <1>1
  <2> QED BY <1>1, <1>5, <1>8, <1>9, <2>1, <2>2, <2>3 DEF ClientFile
<1>12. ASSUME cl[u].first, NEW type \in {MSG_PUT, MSG_GET}, NEW nm \in Nat, NEW m \in Nat,
              Sent(u, F, type, nm, m)
       PROVE  /\ Along(Requests(F, type, nm), s, m)
              /\ Sent(u, F, type, nm, m + Len(s))'
  <2>1. f # NoFile /\ n > 0 /\ l > 0
    <3>1. l # 0
      <4>1. PICK j \in Nat : cl[u].file # NoFile
        BY <1>1, <1>12 DEF Sent, GetAt
      <4> QED BY <1>3, <4>1, EmptySeq DEF File, NoFile
    <3>2. f # NoFile
      BY <1>3, <3>1, AlongNothing DEF NoFile
    <3> QED BY <1>3, <3>1, <3>2, Chunks
  <2>2. PICK j \in Nat, o \in Nat : /\ o = Block(j) /\ L - l = o /\ m = 6 + o + j
                                    /\ type = MSG_PUT /\ nm = cl[u].name
    <3>1. /\ type = MSG_PUT /\ nm = cl[u].name
          /\ \E j \in Nat : Len(F) - Len(f) = Block(j) /\ m = 6 + Block(j) + j
      <4>1. f = cl[u].file /\ cl[u].at = "put_length"
        BY <1>1, <1>3
      <4>2. /\ type = MSG_PUT /\ nm = cl[u].name
            /\ \E j \in Nat :
                 /\ Len(F) - Len(f) = Block(j)
                 /\ cl[u].at = "put_length" => m = 6 + Block(j) + j
        BY <1>12, <2>1, <4>1, SendsChunk
      <4> QED BY <4>1, <4>2
    <3> QED BY <1>3, <1>9, <3>1, Blocks
  <2>3. o < L /\ l = L - o /\ o + n <= L
    <3>1. n <= l
      BY <1>3
    <3>2. l > 0 /\ L - l = o
      BY <2>1, <2>2
    <3> QED BY <3>1, <3>2
  <2>4. l = Len(F) - Block(j) /\ Block(j) < Len(F) /\ n = FileChunk(Len(F) - Block(j))
    <3>1. l = Len(F) - Block(j) /\ Block(j) < Len(F)
      BY <1>9, <2>2, <2>3
    <3>2. n = FileChunk(l)
      BY <1>3
    <3> QED BY <3>1, <3>2
  <2>5. ASSUME NEW i \in 1 .. n PROVE s[i] \in Requests(F, type, nm)[m + i]
    <3>1. s[i] = <<"data", f[i]>> /\ f[i] = F[o + i] /\ s[i] \in Unit
      <4>1. i \in 1 .. l /\ L - l + i = o + i
        <5>1. n <= l
          BY <1>3
        <5>2. L - l = o
          BY <2>2
        <5> QED BY <5>1, <5>2
      <4>2. s[i] \in Unit
        BY <1>6, LenProperties
      <4> QED BY <1>4, <1>6, <1>10, <1>12, <4>1, <4>2
    <3>2. o + i \in 1 .. L /\ i \in 0 .. n /\ i # 0
      BY <2>3
    <3>3. Data(F)[o + i] = <<"data", F[o + i]>>
      BY <1>9, <3>2, Datas
    <3>4. s[i] = Data(F)[Block(j) + i]
      BY <2>2, <3>1, <3>3
    <3>5. i \in 0 .. FileChunk(Len(F) - Block(j))
      BY <2>4, <3>2
    <3>6. s[i] \in Requests(F, MSG_PUT, nm)[6 + Block(j) + j + i]
      BY <2>4, <3>1, <3>2, <3>4, <3>5, RequestGoesOn
    <3>7. 6 + Block(j) + j + i = m + i
      BY <2>2
    <3> QED BY <2>2, <3>6, <3>7
  <2>6. Along(Requests(F, type, nm), s, m)
    BY <1>6, <2>5 DEF Along
  <2>7. Sent(u, F, type, nm, m + n)'
    <3>1. CASE rest = NoFile
      <4>1. n = l
        <5>1. Len(rest) = 0
          BY <3>1, AlongNothing DEF NoFile
        <5> QED BY <1>3, <1>4, <5>1
      <4>2. L <= o + FILE_BUFF_SIZE
        <5>1. n <= FILE_BUFF_SIZE /\ FILE_BUFF_SIZE \in Nat
          BY <1>3, Chunks, FileAssumption
        <5> QED BY <2>3, <4>1, <5>1
      <4>3. Whole(F, 6 + Block(j) + j + FileChunk(Len(F) - Block(j)))
        BY <1>9, <2>2, <2>4, <4>2, LastChunk
      <4>4. 6 + Block(j) + j + FileChunk(Len(F) - Block(j)) = m + n
        BY <2>2, <2>4
      <4>5. Whole(F, m + n)
        BY <4>3, <4>4
      <4> QED BY <1>5, <1>8, <2>2, <3>1, <4>5 DEF Sent
    <3>2. CASE rest # NoFile
      <4>1. n = FILE_BUFF_SIZE
        <5>1. Len(rest) # 0
          BY <3>2, EmptySeq DEF File, NoFile
        <5>2. n # l
          BY <1>3, <1>4, <5>1
        <5> QED BY <1>3, <5>2, Chunks
      <4>2. PICK p \in Nat : p = Block(j + 1) /\ p = o + n
        BY <2>2, <4>1, Blocks, SMTT(30)
      <4>3. L - (l - n) = p /\ m + n = 5 + p + (j + 1) /\ j + 1 \in Nat
        <5>1. L - l = o /\ m = 6 + o + j
          BY <2>2
        <5>2. p = o + n
          BY <4>2
        <5> QED BY <5>1, <5>2
      <4>4. Len(F) - Len(rest) = Block(j + 1) /\ m + n = 5 + Block(j + 1) + (j + 1) /\ j + 1 \in Nat
        BY <1>4, <1>9, <4>2, <4>3
      <4> QED BY <1>5, <1>8, <2>2, <3>2, <4>4 DEF Sent
    <3> QED BY <3>1, <3>2
  <2> QED BY <1>6, <2>6, <2>7
<1>13. src' = src
  BY <1>1
<1> QED BY <1>7, <1>9, <1>11, <1>12, <1>13, AsksMore

\* A request begins, or its file is opened.
LEMMA AsksAnew ==
  ASSUME Inv, NEW u \in User, NEW k \in Conn, NEW c, NEW s, Asks(u, k, c, s), cl[u].first,
         NEW F \in File, src' = [src EXCEPT ![k] = F], ClientFile(u)',
         ASSUME NEW type \in {MSG_PUT, MSG_GET}, NEW nm \in Nat, NEW a \in Nat, NEW g \in Seq(Unit),
                Begun(k, type, nm, a), Along(Requests(src[k], type, nm), g, a),
                Sent(u, src[k], type, nm, a + Len(g))
         PROVE  /\ a + Len(g) < 5
                /\ \E t \in {MSG_PUT, MSG_GET}, n \in Nat :
                     /\ Begun(k, t, n, a) /\ Along(Requests(F, t, n), g, a)
                     /\ Along(Requests(F, t, n), s, a + Len(g))
                     /\ Sent(u, F, t, n, a + Len(g) + Len(s))'
  PROVE  Inv'
<1>1. /\ Within(u, k) /\ cl'[u] = c /\ Live(u)' /\ ClientCalls(u)' /\ Reply(u)'
      /\ io'[Client(u)].out = s /\ srv[k].at \notin Reading
  BY AsksOn
<1>2. s \in Seq(Unit) /\ put' = put /\ c.first = cl[u].first /\ Live(u) /\ io[Client(u)].out = <<>>
      /\ k = cl[u].conn /\ cl[u].at \notin {"new", "gone"} /\ c.conn = k
  BY DEF Asks, Live
<1>3. /\ ServerCalls(k) /\ ServerLink(k) /\ Request(k) /\ ServerFile(k) /\ TypeOK
      /\ \A v \in User \ {u} : cl[v].conn # k
      /\ open[k]["client"] /\ io[Server(k)].got \in Seq(Unit) /\ wire[k]["client"] \in Seq(Unit)
      /\ io[Server(k)] \in Call
  BY <1>2, Sees, Served
<1>4. /\ srv'[k] = srv[k] /\ io'[Server(k)] = io[Server(k)] /\ wire' = wire /\ open' = open
      /\ store' = store /\ shared' = shared /\ src'[k] = F
  <2>1. src \in [Conn -> File]
    BY <1>3 DEF TypeOK
  <2> QED BY <1>1, <2>1, Threads DEF Within, Only
<1>5. /\ src' \in [Conn -> File] /\ \A j \in Conn \ {k} : src'[j] = src[j]
      /\ put' \subseteq Conn /\ \A j \in Conn \ {k} : j \in put' <=> j \in put
  BY <1>2, <1>3 DEF TypeOK
<1>6. ASSUME open[k]["server"], srv[k].at \in Early, io[Server(k)].rc = 0
      PROVE  Request(k)' /\ srv[k].at \notin Writing
  <2>1. PICK type \in {MSG_PUT, MSG_GET}, nm \in Nat, a \in Nat :
          /\ Begun(k, type, nm, a) /\ Along(Requests(src[k], type, nm), Incoming(k), a)
          /\ k \in put => type = MSG_PUT /\ Whole(src[k], a + Len(Incoming(k)))
          /\ \A v \in User : cl[v].conn = k /\ Live(v) /\ cl[v].first =>
               Sent(v, src[k], type, nm, a + Len(Incoming(k)) + Len(io[Client(v)].out))
    BY <1>3, <1>6 DEF Request
  <2>2. PICK g \in Seq(Unit), m \in Nat : g = Incoming(k) /\ m = a + Len(g)
    <3>1. PICK g \in Seq(Unit) : g = Incoming(k)
      BY <1>3, Concat DEF Incoming
    <3>2. Len(g) \in Nat
      BY LenProperties
    <3>3. a + Len(g) \in Nat
      BY <3>2
    <3> QED BY <3>1, <3>3
  <2>3. Sent(u, src[k], type, nm, m)
    <3>1. Sent(u, src[k], type, nm, m + Len(io[Client(u)].out))
      BY <1>2, <2>1, <2>2
    <3>2. m + Len(io[Client(u)].out) = m
      BY <1>2, AlongNothing
    <3> QED BY <3>1, <3>2
  <2>4. m < 5 /\ \E t \in {MSG_PUT, MSG_GET}, n \in Nat :
                   /\ Begun(k, t, n, a) /\ Along(Requests(F, t, n), g, a)
                   /\ Along(Requests(F, t, n), s, m) /\ Sent(u, F, t, n, m + Len(s))'
    BY <2>1, <2>2, <2>3
  <2>5. PICK t \in {MSG_PUT, MSG_GET}, n \in Nat :
          /\ Begun(k, t, n, a) /\ Along(Requests(F, t, n), g, a)
          /\ Along(Requests(F, t, n), s, m) /\ Sent(u, F, t, n, m + Len(s))'
    BY <2>4
  <2>6. k \notin put
    BY <2>1, <2>2, <2>4 DEF Whole
  <2>7. Begun(k, t, n, a)' /\ Incoming(k)' = g
    BY <1>4, <2>2, <2>5 DEF Begun, Incoming
  <2>8. ASSUME NEW v \in User, cl'[v].conn = k
        PROVE  /\ Along(Requests(F, t, n), io'[Client(v)].out, m)
               /\ Sent(v, F, t, n, m + Len(io[Client(v)].out))'
    <3>1. v = u
      BY <1>1, <1>3, <2>8 DEF Within
    <3>2. Sent(u, F, t, n, m + Len(io[Client(u)].out))'
      BY <1>1, <2>5
    <3> QED BY <1>1, <2>5, <3>1, <3>2
  <2>9. Request(k)'
    <3>1. k \notin put'
      BY <1>2, <2>6
    <3>2. Along(Requests(src'[k], t, n), Incoming(k)', a)
      BY <1>4, <2>5, <2>7
    <3>3. \A v \in User : cl'[v].conn = k =>
            /\ Along(Requests(src'[k], t, n), io'[Client(v)].out, a + Len(Incoming(k)'))
            /\ Sent(v, src[k], t, n, a + Len(Incoming(k)) + Len(io[Client(v)].out))'
      BY <1>4, <2>2, <2>7, <2>8
    <3> QED BY <2>5, <2>7, <3>1, <3>2, <3>3 DEF Request
  <2>10. srv[k].at \notin Writing
    <3>1. ASSUME srv[k].at \in Writing PROVE a >= 5
      <4>1. PICK j \in Nat : a = 5 + Block(j) + j \/ a = 6 + Block(j) + j
        BY <2>1, <3>1 DEF Begun, Writing
      <4>2. PICK o \in Nat : o = Block(j)
        BY Blocks
      <4> QED BY <4>1, <4>2
    <3>2. Len(g) \in Nat
      BY LenProperties
    <3> QED BY <2>2, <2>4, <3>1, <3>2
  <2> QED BY <2>9, <2>10
<1>7. srv[k].at \notin Writing
  <2>1. ASSUME srv[k].at \in Writing PROVE FALSE
    <3>1. srv[k].at \in Early /\ open[k]["server"]
      BY <1>3, <2>1 DEF Writing, Early, ServerLink
    <3>2. io[Server(k)].rc = 0
      BY <1>3, <3>1 DEF ServerCalls, Failed, Call
    <3> QED BY <1>6, <2>1, <3>1, <3>2
  <2> QED BY <2>1
<1>8. ServerFile(k)'
  BY <1>1, <1>3, <1>4, <1>7, Zenon DEF ServerFile
<1>9. Request(k)'
  <2>1. CASE open[k]["server"] /\ srv[k].at \in Early /\ io[Server(k)].rc = 0
    BY <1>6, <2>1
  <2>2. CASE ~(open[k]["server"] /\ srv[k].at \in Early /\ io[Server(k)].rc = 0)
    BY <1>4, <2>2 DEF Request
  <2> QED BY <2>1, <2>2
<1> QED BY <1>1, <1>5, <1>8, <1>9, WithinMoves

\* The first units of a request do not depend on its file.
LEMMA RequestStarts ==
  ASSUME NEW F \in File, NEW G \in File, NEW type \in {MSG_PUT, MSG_GET}, NEW nm, NEW g \in Seq(Unit),
         NEW a \in Nat, a + Len(g) <= 3, Along(Requests(G, type, nm), g, a)
  PROVE  Along(Requests(F, type, nm), g, a)
<1> SUFFICES ASSUME NEW i \in 1 .. Len(g) PROVE g[i] \in Requests(F, type, nm)[a + i]
  BY DEF Along
<1>1. Len(g) \in Nat
  BY LenProperties
<1>2. PICK p \in Nat : p = a + i /\ p <= 3
  BY <1>1
<1>3. g[i] \in Unit /\ Requested(G, type, nm, a + i, g[i])
  BY ComesNext
<1>4. PICK x \in Unit : x = g[i]
  BY <1>3
<1>5. /\ p \in {1, 2} => x = Prot(type)[p]
      /\ p = 3 => x = NameUnit(nm)[1] /\ nm \in Name
  BY <1>2, <1>3, <1>4, Zenon DEF Requested
<1>6. p \notin {4, 5} /\ p <= 5
  BY <1>2
<1>7. x \in Requests(F, type, nm)[p]
  BY <1>5, <1>6, RequestBegins
<1> QED BY <1>2, <1>4, <1>7

\* The file that a user puts under a name.
LEMMA UserFiles ==
  ASSUME NEW u \in User, NEW n \in Nat
  PROVE  /\ UserFile(u, n) \in File /\ Len(UserFile(u, n)) = n /\ UserFile(u, n) # Unopened
         /\ n = 0 <=> UserFile(u, n) = NoFile
<1>1. u \in Nat /\ u # 0
  BY FileAssumption
<1>2. PICK f : f = UserFile(u, n)
  OBVIOUS
<1>3. f \in [1 .. n -> Nat] /\ \A i \in 1 .. n : f[i] = 10 * u + i
  BY <1>1, <1>2 DEF UserFile
<1>4. f \in Seq(Nat)
  BY <1>3, SeqDef
<1>5. Len(f) = n
  <2>1. DOMAIN f = 1 .. n /\ DOMAIN f = 1 .. Len(f) /\ Len(f) \in Nat
    BY <1>3, <1>4, LenProperties
  <2> QED BY <2>1
<1>6. f # Unopened
  <2> SUFFICES ASSUME f = Unopened PROVE FALSE
    OBVIOUS
  <2>1. Len(f) = 1 /\ f[1] = 0
    BY DEF Unopened
  <2>2. f[1] = 10 * u + 1
    BY <1>3, <1>5, <2>1
  <2> QED BY <1>1, <2>1, <2>2
<1>7. n = 0 <=> f = NoFile
  BY <1>4, <1>5, EmptySeq, AlongNothing DEF NoFile
<1> QED BY <1>2, <1>4, <1>5, <1>6, <1>7 DEF File

\* The units of a header.
LEMMA TwoUnits ==
  ASSUME NEW s \in Seq(Unit), Len(s) = 2
  PROVE  s[1] \in Unit /\ s[2] \in Unit
<1>1. \A i \in 1 .. Len(s) : s[i] \in Unit
  BY LenProperties
<1>2. 1 \in 1 .. Len(s) /\ 2 \in 1 .. Len(s)
  OBVIOUS
<1> QED BY <1>1, <1>2

\* The first header of a request stands at its positions.
LEMMA HeaderFits ==
  ASSUME NEW F \in File, NEW type \in {MSG_PUT, MSG_GET}, NEW nm, NEW i \in {1, 2}, NEW x \in Unit,
         x = Prot(type)[i]
  PROVE  x \in Requests(F, type, nm)[i]
<1>1. i \in Nat /\ i <= 5 /\ i # 3 /\ i \notin {4, 5}
  OBVIOUS
<1> QED BY <1>1, RequestBegins

\* The header of the file stands at its positions of the request.
LEMMA FileProtFits ==
  ASSUME NEW F \in File, F # Unopened, NEW type \in {MSG_PUT, MSG_GET}, NEW nm, NEW i \in {1, 2},
         NEW x \in Unit, x = FileProt(Len(F))[i], NEW p \in Nat, p = 3 + i
  PROVE  x \in Requests(F, type, nm)[p]
<1>1. p <= 5 /\ p \notin {1, 2} /\ p # 3 /\ p - 3 = i
  OBVIOUS
<1>2. x = FileProt(Len(F))[p - 3]
  BY <1>1
<1> QED BY <1>1, <1>2, RequestBegins

\* put() opens its file and sends the header of the file.
LEMMA PutOpenKeeps ==
  ASSUME Inv, NEW u \in User, PutOpen(u)
  PROVE  Inv'
<1>1. PICK n \in Sizes :
        /\ cl[u].at = "put_name" /\ Succeeded(Client(u))
        /\ BeginSend(Client(u), FileProt(n))
        /\ cl' = [cl EXCEPT ![u].at = "put_file", ![u].file = UserFile(u, n)]
        /\ src' = IF cl[u].first
                  THEN [src EXCEPT ![cl[u].conn] = UserFile(u, n)] ELSE src
        /\ UNCHANGED <<wire, open, reset, srv, store, shared, put>>
  BY DEF PutOpen, Called, kernel, serverSide
<1>2. /\ Live(u) /\ io[Client(u)].out = <<>> /\ io[Client(u)].want = 0
      /\ \E k \in Conn : k = cl[u].conn
  BY <1>1, Alive
<1>3. n \in Nat
  BY FileAssumption
<1>4. PICK k \in Conn, F \in File : /\ k = cl[u].conn /\ F = UserFile(u, n) /\ Len(F) = n
                                    /\ F # Unopened /\ (n = 0 <=> F = NoFile)
  BY <1>2, <1>3, UserFiles
<1>5. PICK c \in CRecord : /\ c.conn = k /\ c.at = "put_file" /\ cl' = [cl EXCEPT ![u] = c]
                           /\ c.name = cl[u].name /\ c.first = cl[u].first /\ c.file = F
  <2> DEFINE d == [cl[u] EXCEPT !.at = "put_file", !.file = F]
  <2>1. cl[u] \in CRecord /\ cl \in [User -> CRecord]
    BY Seen
  <2>2. d \in CRecord
    BY <2>1 DEF CRecord, ClientAt
  <2>3. /\ d.conn = cl[u].conn /\ d.at = "put_file" /\ d.name = cl[u].name
        /\ d.first = cl[u].first /\ d.file = F
    BY <2>1 DEF CRecord
  <2>4. cl' = [cl EXCEPT ![u] = d]
    BY <1>1, <1>4, <2>1 DEF CRecord
  <2> QED BY <1>4, <2>2, <2>3, <2>4
<1>6. PICK s \in Seq(Unit) : /\ s = FileProt(n) /\ Len(s) = 2
                             /\ s[1] = FileProt(n)[1] /\ s[2] = FileProt(n)[2]
                             /\ s[1] \in Unit /\ s[2] \in Unit
  <2>1. FileProt(n) \in Seq(Unit) /\ Len(FileProt(n)) = 2
    BY <1>3, Units
  <2>2. FileProt(n)[1] \in Unit /\ FileProt(n)[2] \in Unit
    BY <2>1, TwoUnits
  <2> QED BY <2>1, <2>2
<1>7. Asks(u, k, c, s)
  <2>1. BeginSend(Client(u), s)
    BY <1>1, <1>6
  <2>2. cl[u].at \notin GetAt
    BY <1>1 DEF GetAt
  <2> QED BY <1>1, <1>2, <1>4, <1>5, <1>6, <2>1, <2>2 DEF Asks
<1>8. cl'[u] = c
  BY <1>7, AsksOn
<1>9. CASE ~cl[u].first
  <2>1. ClientFile(u)' /\ src' = src
    BY <1>1, <1>5, <1>8, <1>9 DEF ClientFile
  <2> QED BY <1>7, <1>9, <2>1, AsksMore
<1>10. CASE cl[u].first
  <2>1. src' = [src EXCEPT ![k] = F] /\ src'[k] = F
    <3>1. src \in [Conn -> File]
      BY Seen DEF TypeOK
    <3> QED BY <1>1, <1>4, <1>10, <3>1
  <2>2. ClientFile(u)'
    <3>1. PutFile(c, F)
      <4>1. ASSUME NEW i \in 1 .. n PROVE c.file[i] = F[n - n + i]
        <5>1. n - n + i = i
          BY <1>3
        <5> QED BY <1>5, <5>1
      <4>2. \A i \in 1 .. Len(c.file) : c.file[i] = F[Len(F) - Len(c.file) + i]
        BY <1>4, <1>5, <4>1
      <4> QED BY <1>3, <1>4, <1>5, <4>2 DEF PutFile
    <3>2. GotFile(c, F, shared)
      BY <1>5 DEF GotFile
    <3> QED BY <1>1, <1>5, <1>8, <2>1, <3>1, <3>2 DEF ClientFile
  <2>3. ASSUME NEW type \in {MSG_PUT, MSG_GET}, NEW nm \in Nat, NEW a \in Nat, NEW g \in Seq(Unit),
               Begun(k, type, nm, a), Along(Requests(src[k], type, nm), g, a),
               Sent(u, src[k], type, nm, a + Len(g))
        PROVE  /\ a + Len(g) < 5
               /\ \E t \in {MSG_PUT, MSG_GET}, x \in Nat :
                    /\ Begun(k, t, x, a) /\ Along(Requests(F, t, x), g, a)
                    /\ Along(Requests(F, t, x), s, a + Len(g))
                    /\ Sent(u, F, t, x, a + Len(g) + Len(s))'
    <3>1. a + Len(g) = 3 /\ nm = cl[u].name /\ type = MSG_PUT
      BY <1>1, <2>3 DEF Sent, GetAt
    <3>2. src[k] \in File
      BY Served
    <3>3. Along(Requests(F, type, nm), g, a)
      <4>1. a + Len(g) <= 3
        BY <3>1
      <4> QED BY <2>3, <3>2, <4>1, RequestStarts
    <3>4. Along(Requests(F, type, nm), s, 3)
      <4>1. /\ s[1] = FileProt(Len(F))[1] /\ s[2] = FileProt(Len(F))[2]
            /\ s[1] \in Unit /\ s[2] \in Unit /\ F # Unopened
        BY <1>4, <1>6
      <4>2. s[1] \in Requests(F, type, nm)[4] /\ s[2] \in Requests(F, type, nm)[5]
        BY <4>1, FileProtFits
      <4> QED BY <1>6, <4>2, AlongUnits
    <3>5. Sent(u, F, type, nm, 5)'
      <4>1. CASE n = 0
        <5>1. cl'[u].file = NoFile /\ Whole(F, 5)
          BY <1>4, <1>5, <1>8, <4>1, NoChunk
        <5> QED BY <1>5, <1>8, <3>1, <5>1 DEF Sent
      <4>2. CASE n # 0
        <5>1. /\ cl'[u].file # NoFile /\ Len(F) - Len(cl'[u].file) = Block(0)
              /\ 5 = 5 + Block(0) + 0 /\ 0 \in Nat
          <6>1. cl'[u].file = F
            BY <1>5, <1>8
          <6>2. Len(F) - Len(F) = 0
            BY <1>3, <1>4
          <6>3. Block(0) = 0
            BY Blocks
          <6> QED BY <1>4, <4>2, <6>1, <6>2, <6>3
        <5> QED BY <1>5, <1>8, <3>1, <5>1 DEF Sent
      <4> QED BY <4>1, <4>2
    <3>6. a + Len(g) + Len(s) = 5 /\ a + Len(g) < 5
      BY <1>6, <3>1
    <3>7. Sent(u, F, type, nm, a + Len(g) + Len(s))'
      BY <3>5, <3>6
    <3> QED BY <2>3, <3>1, <3>3, <3>4, <3>6, <3>7
  <2> QED BY <1>7, <1>10, <2>1, <2>2, <2>3, AsksAnew
<1> QED BY <1>9, <1>10

\* The user gives a command: its header is sent.
LEMMA CommandKeeps ==
  ASSUME Inv, NEW u \in User, NEW N \in Name, Put(u, N) \/ Get(u, N)
  PROVE  Inv'
<1>1. PICK T \in {MSG_PUT, MSG_GET}, at \in {"put_prot", "get_prot"} :
        /\ cl[u].at = "prompt" /\ BeginSend(Client(u), Prot(T))
        /\ cl' = [cl EXCEPT ![u].at = at, ![u].name = N, ![u].file = NoFile]
        /\ UNCHANGED <<wire, open, reset, srv, store, shared, src, put>>
        /\ at = "put_prot" => T = MSG_PUT
        /\ at = "get_prot" => T = MSG_GET
  BY DEF Put, Get, Command, kernel, serverSide
<1>2. /\ Live(u) /\ io[Client(u)].out = <<>> /\ io[Client(u)].want = 0
      /\ \E k \in Conn : k = cl[u].conn
  <2>1. ClientCalls(u)
    BY Seen
  <2>2. Live(u)
    BY <1>1, <2>1 DEF ClientCalls, Live
  <2>3. ClientAsks(u) = 0
    BY <1>1 DEF ClientAsks
  <2>4. io[Client(u)].out = <<>> /\ io[Client(u)].want = 0
    BY <1>1, <2>1, <2>2, <2>3 DEF ClientCalls, Asked
  <2>5. \E k \in Conn : k = cl[u].conn
    BY <1>1, Sees
  <2> QED BY <2>2, <2>4, <2>5
<1>3. N \in Nat /\ T \in Nat
  BY FileAssumption DEF MSG_PUT, MSG_GET
<1>4. PICK k \in Conn, F \in File : k = cl[u].conn /\ F = src[k]
  BY <1>2, Served
<1>5. PICK c \in CRecord : /\ c.conn = k /\ c.at = at /\ cl' = [cl EXCEPT ![u] = c]
                           /\ c.name = N /\ c.first = cl[u].first
  <2> DEFINE d == [cl[u] EXCEPT !.at = at, !.name = N, !.file = NoFile]
  <2>1. cl[u] \in CRecord /\ cl \in [User -> CRecord] /\ NoFile \in File
    BY Seen, EmptySeq DEF File, NoFile
  <2>2. d \in CRecord
    BY <1>3, <2>1 DEF CRecord, ClientAt
  <2>3. d.conn = cl[u].conn /\ d.at = at /\ d.name = N /\ d.first = cl[u].first
    BY <2>1 DEF CRecord
  <2>4. cl' = [cl EXCEPT ![u] = d]
    BY <1>1, <2>1 DEF CRecord
  <2> QED BY <1>4, <2>2, <2>3, <2>4
<1>6. PICK s \in Seq(Unit) : /\ s = Prot(T) /\ Len(s) = 2
                             /\ s[1] = Prot(T)[1] /\ s[2] = Prot(T)[2]
                             /\ s[1] \in Unit /\ s[2] \in Unit
  <2>1. Prot(T) \in Seq(Unit) /\ Len(Prot(T)) = 2
    BY <1>3, Units
  <2>2. Prot(T)[1] \in Unit /\ Prot(T)[2] \in Unit
    BY <2>1, TwoUnits
  <2> QED BY <2>1, <2>2
<1>7. Asks(u, k, c, s)
  <2>1. BeginSend(Client(u), s)
    BY <1>1, <1>6
  <2>2. cl[u].at \notin GetAt
    BY <1>1 DEF GetAt
  <2> QED BY <1>1, <1>2, <1>4, <1>5, <1>6, <2>1, <2>2 DEF Asks
<1>8. cl'[u] = c
  BY <1>7, AsksOn
<1>9. ClientFile(u)'
  <2>1. cl[u].first => F = Unopened
    BY <1>1, <1>2, <1>4, Seen DEF ClientFile, PutFile
  <2>2. src'[k] = F
    BY <1>1, <1>4
  <2>3. cl[u].first => PutFile(c, F) /\ GotFile(c, F, shared)
    BY <1>5, <2>1 DEF PutFile, GotFile
  <2> QED BY <1>1, <1>5, <1>8, <2>2, <2>3 DEF ClientFile
<1>10. CASE ~cl[u].first
  <2>1. src' = src
    BY <1>1
  <2> QED BY <1>7, <1>9, <1>10, <2>1, AsksMore
<1>11. CASE cl[u].first
  <2>1. src' = [src EXCEPT ![k] = F]
    <3>1. src \in [Conn -> File]
      BY Seen DEF TypeOK
    <3> QED BY <1>1, <1>4, <3>1
  <2>2. ASSUME NEW type \in {MSG_PUT, MSG_GET}, NEW nm \in Nat, NEW a \in Nat, NEW g \in Seq(Unit),
               Begun(k, type, nm, a), Along(Requests(src[k], type, nm), g, a),
               Sent(u, src[k], type, nm, a + Len(g))
        PROVE  /\ a + Len(g) < 5
               /\ \E t \in {MSG_PUT, MSG_GET}, x \in Nat :
                    /\ Begun(k, t, x, a) /\ Along(Requests(F, t, x), g, a)
                    /\ Along(Requests(F, t, x), s, a + Len(g))
                    /\ Sent(u, F, t, x, a + Len(g) + Len(s))'
    <3>1. a + Len(g) = 0
      BY <1>1, <2>2 DEF Sent, GetAt
    <3>2. a = 0 /\ Len(g) = 0
      <4>1. Len(g) \in Nat
        BY LenProperties
      <4> QED BY <3>1, <4>1
    <3>3. g = <<>>
      BY <3>2, EmptySeq
    <3>4. Begun(k, T, N, a)
      <4>1. \A j \in Nat : 5 + Block(j) + j # 0 /\ 6 + Block(j) + j # 0
        <5> TAKE j \in Nat
        <5>1. PICK o \in Nat : o = Block(j)
          BY Blocks
        <5> QED BY <5>1
      <4>2. srv[k].at \in {"none", "prot"}
        BY <2>2, <3>2, <4>1 DEF Begun
      <4> QED BY <3>2, <4>2 DEF Begun
    <3>5. Along(Requests(F, T, N), g, a)
      BY <3>3, AlongNothing
    <3>6. Along(Requests(F, T, N), s, 0)
      <4>1. s[1] \in Requests(F, T, N)[1]
        BY <1>6, HeaderFits
      <4>2. s[2] \in Requests(F, T, N)[2]
        BY <1>6, HeaderFits
      <4> QED BY <1>6, <4>1, <4>2, AlongUnits
    <3>7. Sent(u, F, T, N, 2)'
      BY <1>1, <1>5, <1>8 DEF Sent
    <3>8. a + Len(g) + Len(s) = 2 /\ a + Len(g) < 5
      BY <1>6, <3>1
    <3>9. Sent(u, F, T, N, a + Len(g) + Len(s))'
      BY <3>7, <3>8
    <3> QED BY <1>3, <3>1, <3>4, <3>5, <3>6, <3>8, <3>9
  <2> QED BY <1>7, <1>9, <1>11, <2>1, <2>2, AsksAnew
<1> QED BY <1>10, <1>11

\* put() returns.
LEMMA PutReturnsKeeps ==
  ASSUME Inv, NEW u \in User, PutReturns(u)
  PROVE  Inv'
<1>1. /\ cl[u].at \in {"put_file", "put_data"} /\ Succeeded(Client(u)) /\ cl[u].file = NoFile
      /\ cl' = [cl EXCEPT ![u].at = "prompt", ![u].first = FALSE]
      /\ put' = IF cl[u].first THEN put \union {cl[u].conn} ELSE put
      /\ UNCHANGED <<wire, open, reset, io, srv, store, shared, src>>
  BY DEF PutReturns, Called, streamVars, serverSide
<1>2. /\ Live(u) /\ io[Client(u)].out = <<>> /\ io[Client(u)].want = 0 /\ io[Client(u)].rc = 0
      /\ \E k \in Conn : k = cl[u].conn
  BY <1>1, Alive
<1>3. PICK k \in Conn : k = cl[u].conn
  BY <1>2
<1>4. PICK c \in CRecord : /\ c.conn = k /\ c.at = "prompt" /\ cl' = [cl EXCEPT ![u] = c] /\ ~c.first
  <2> DEFINE d == [cl[u] EXCEPT !.at = "prompt", !.first = FALSE]
  <2>1. cl[u] \in CRecord /\ cl \in [User -> CRecord]
    BY Seen
  <2>2. d \in CRecord
    BY <2>1 DEF CRecord, ClientAt
  <2>3. d.conn = cl[u].conn /\ d.at = "prompt" /\ ~d.first
    BY <2>1 DEF CRecord
  <2>4. cl' = [cl EXCEPT ![u] = d]
    BY <1>1, <2>1 DEF CRecord
  <2> QED BY <1>3, <2>2, <2>3, <2>4
<1>5. Within(u, k) /\ cl'[u] = c
  <2>1. Only(Client(u)) /\ io' \in [Thread -> Call]
    BY <1>1, Seen DEF Only
  <2> QED BY <1>1, <1>3, <1>4, <2>1, Going
<1>6. /\ wire[k]["server"] = <<>> /\ io[Server(k)].out = <<>>
      /\ srv[k].at \in Reading => ~cl[u].first /\ srv[k].at # "get_prot" /\ srv[k].left = 0
      /\ ~cl[u].first /\ k \notin put => srv[k].at \notin Early
  <2>1. Reply(u) /\ ~(cl[u].first /\ cl[u].at \in GetAt)
    BY <1>1, Seen DEF GetAt
  <2> QED BY <1>2, <1>3, <2>1 DEF Reply
<1>7. /\ put' \subseteq Conn /\ put \subseteq put' /\ \A j \in Conn \ {k} : j \in put' <=> j \in put
      /\ cl[u].first => k \in put'
      /\ ~cl[u].first => put' = put
  BY <1>1, <1>3, Seen DEF TypeOK
<1>8. Reply(u)'
  BY <1>1, <1>4, <1>5, <1>6, <1>7, NoReply
<1>9. ClientFile(u)'
  BY <1>4, <1>5 DEF ClientFile
<1>10. ClientCalls(u)'
  <2>1. cl'[u].at = "prompt" /\ io' = io
    BY <1>1, <1>4, <1>5
  <2>2. ClientAsks(u)' = 0
    BY <2>1 DEF ClientAsks
  <2> QED BY <1>2, <2>1, <2>2 DEF ClientCalls, Asked, Failed
<1>11. ServerFile(k)'
  <2>1. ServerFile(k)
    BY Served
  <2>2. srv[k].at \in Reading => k \notin put'
    BY <1>6, <1>7, <2>1 DEF ServerFile
  <2> QED BY <1>1, <2>1, <2>2, StillServerFile
<1>12. Request(k)'
  <2>1. SUFFICES ASSUME open[k]["server"], srv[k].at \in Early, io[Server(k)].rc = 0
                 PROVE  Request(k)'
    BY <1>1 DEF Request
  <2>2. Request(k) /\ \A v \in User \ {u} : cl[v].conn # k
    BY <1>1, <1>3, Sees
  <2>3. PICK type \in {MSG_PUT, MSG_GET}, nm \in Nat, a \in Nat :
          /\ Begun(k, type, nm, a) /\ Along(Requests(src[k], type, nm), Incoming(k), a)
          /\ k \in put => type = MSG_PUT /\ Whole(src[k], a + Len(Incoming(k)))
          /\ \A v \in User : cl[v].conn = k /\ Live(v) /\ cl[v].first =>
               Sent(v, src[k], type, nm, a + Len(Incoming(k)) + Len(io[Client(v)].out))
    BY <2>1, <2>2 DEF Request
  <2>4. Incoming(k)' = Incoming(k) /\ Begun(k, type, nm, a)'
    BY <1>1, <2>3 DEF Incoming, Begun
  <2>5. PICK m \in Nat : m = a + Len(Incoming(k))
    <3>1. Incoming(k) \in Seq(Unit)
      BY Served, Concat DEF Incoming
    <3>2. Len(Incoming(k)) \in Nat
      BY <3>1, LenProperties
    <3> QED BY <3>2
  <2>6. k \in put' => type = MSG_PUT /\ Whole(src[k], m)
    <3>1. CASE cl[u].first
      <4>1. Sent(u, src[k], type, nm, m + Len(io[Client(u)].out))
        BY <1>2, <1>3, <2>3, <2>5, <3>1
      <4>2. m + Len(io[Client(u)].out) = m
        BY <1>2, AlongNothing
      <4>3. Sent(u, src[k], type, nm, m)
        BY <4>1, <4>2
      <4> QED BY <1>1, <4>3 DEF Sent, GetAt
    <3>2. CASE ~cl[u].first
      BY <1>7, <2>3, <2>5, <3>2
    <3> QED BY <3>1, <3>2
  <2>7. \A v \in User : cl'[v].conn = k => ~cl'[v].first
    BY <1>4, <1>5, <2>2 DEF Within
  <2> QED BY <1>1, <2>3, <2>4, <2>5, <2>6, <2>7 DEF Request
<1>13. src' \in [Conn -> File] /\ \A j \in Conn \ {k} : src'[j] = src[j]
  BY <1>1, Seen DEF TypeOK
<1> QED BY <1>5, <1>7, <1>8, <1>9, <1>10, <1>11, <1>12, <1>13, WithinMoves

\* Client u, whose call in a get has returned 0, waits for n units and goes on as c.
Recvs(u, k, c, n) ==
    /\ k = cl[u].conn /\ Live(u) /\ io[Client(u)].out = <<>>
    /\ cl[u].at \in GetAt
    /\ c \in CRecord /\ c.conn = k /\ c.first = cl[u].first /\ c.name = cl[u].name
    /\ c.at \in {"get_file", "get_file_name", "get_data"}
    /\ cl' = [cl EXCEPT ![u] = c] /\ BeginRecv(Client(u), n) /\ n = ClientAsks(u)'
    /\ UNCHANGED <<wire, open, reset, srv, store, shared, src, put>>

\* The client goes on to its next Recv.
LEMMA RecvsOn ==
  ASSUME Inv, NEW u \in User, NEW k \in Conn, NEW c, NEW n \in Nat, Recvs(u, k, c, n)
  PROVE  /\ Within(u, k) /\ cl'[u] = c /\ ClientCalls(u)' /\ Request(k)'
         /\ io'[Client(u)].got = <<>>
<1>1. /\ cl \in [User -> CRecord] /\ StreamTypeOK(Thread, Unit) /\ Client(u) \in Thread
  BY Seen
<1>2. /\ io' \in [Thread -> Call] /\ Only(Client(u))
      /\ io'[Client(u)].rc = 0 /\ io'[Client(u)].out = <<>>
      /\ io'[Client(u)].want = n /\ io'[Client(u)].got = <<>>
  BY <1>1, BeginsRecv DEF Recvs
<1>3. /\ k = cl[u].conn /\ Live(u) /\ cl[u].at \in GetAt /\ cl[u].at \notin {"new", "gone"}
      /\ c \in CRecord /\ c.conn = k /\ c.first = cl[u].first /\ c.name = cl[u].name
      /\ cl' = [cl EXCEPT ![u] = c] /\ io[Client(u)].out = <<>>
      /\ c.at \in {"get_file", "get_file_name", "get_data"} /\ n = ClientAsks(u)'
      /\ UNCHANGED <<wire, open, reset, srv, store, shared, src, put>>
  BY DEF Recvs, Live
<1>4. Within(u, k) /\ cl'[u] = c
  BY <1>2, <1>3, Going
<1>5. ClientCalls(u)'
  <2>1. Len(io'[Client(u)].got) = 0
    BY <1>2, AlongNothing
  <2>2. Asked(Client(u), n)'
    BY <1>2, <2>1 DEF Asked
  <2> QED BY <1>2, <1>3, <1>4, <2>2 DEF ClientCalls, Failed
<1>6. Request(k)'
  <2>1. SUFFICES ASSUME open[k]["server"], srv[k].at \in Early, io[Server(k)].rc = 0
                 PROVE  Request(k)'
    BY <1>3, <1>4, Threads, ZenonT(60) DEF Request, Within, Only
  <2>2. Request(k) /\ \A v \in User \ {u} : cl[v].conn # k
    BY <1>3, Sees
  <2>3. PICK type \in {MSG_PUT, MSG_GET}, nm \in Nat, a \in Nat :
          /\ Begun(k, type, nm, a) /\ Along(Requests(src[k], type, nm), Incoming(k), a)
          /\ k \in put => type = MSG_PUT /\ Whole(src[k], a + Len(Incoming(k)))
          /\ \A v \in User : cl[v].conn = k /\ Live(v) /\ cl[v].first =>
               Sent(v, src[k], type, nm, a + Len(Incoming(k)) + Len(io[Client(v)].out))
    BY <2>1, <2>2 DEF Request
  <2>4. Incoming(k)' = Incoming(k) /\ Begun(k, type, nm, a)'
    BY <1>3, <1>4, <2>3, Threads, Zenon DEF Incoming, Begun, Within, Only
  <2>5. ASSUME NEW v \in User, cl'[v].conn = k, cl'[v].first
        PROVE  /\ io'[Client(v)].out = <<>>
               /\ Sent(v, src[k], type, nm, a + Len(Incoming(k)) + Len(io[Client(v)].out))'
    <3>1. v = u
      BY <1>4, <2>2, <2>5 DEF Within
    <3>2. Sent(u, src[k], type, nm, a + Len(Incoming(k)) + Len(io[Client(u)].out))
      BY <1>3, <1>4, <2>3, <2>5, <3>1
    <3>3. Len(io[Client(u)].out)' = Len(io[Client(u)].out)
      BY <1>2, <1>3
    <3>4. Len(Incoming(k))' = Len(Incoming(k))
      BY <2>4
    <3>5. PICK x : x = a + Len(Incoming(k)) + Len(io[Client(u)].out)
      OBVIOUS
    <3>6. /\ type = MSG_GET /\ nm = cl[u].name /\ x = 3
      BY <1>3, <3>2, <3>5 DEF Sent, GetAt
    <3>7. cl'[u].at \in GetAt /\ cl'[u].name = cl[u].name
      BY <1>3, <1>4 DEF GetAt
    <3>8. Sent(u, src[k], type, nm, x)'
      BY <1>3, <3>6, <3>7 DEF Sent
    <3>9. x = (a + Len(Incoming(k)) + Len(io[Client(u)].out))'
      BY <3>3, <3>4, <3>5
    <3> QED BY <1>2, <3>1, <3>8, <3>9
  <2>6. ASSUME NEW v \in User, cl'[v].conn = k, Live(v)', cl'[v].first
        PROVE  /\ Along(Requests(src[k], type, nm)', io'[Client(v)].out, (a + Len(Incoming(k)))')
               /\ Sent(v, src[k], type, nm, a + Len(Incoming(k)) + Len(io[Client(v)].out))'
    BY <2>5, <2>6, AlongNothing
  <2> QED BY <1>3, <2>3, <2>4, <2>6, ZenonT(60) DEF Request
<1> QED BY <1>2, <1>4, <1>5, <1>6

\* What client u has received of the reply to its get, g, and what comes after it, r.
Getting(u, k, g, r, t) ==
    LET R == Replies(k, shared, src[k], cl[u].name) IN
    /\ g = io[Client(u)].got /\ r = wire[k]["server"] \o io[Server(k)].out /\ t = Taken(u)
    /\ Along(R, g, t) /\ Along(R, r, t + Len(g))
    /\ srv[k].at \in Reading => t + Len(g) + Len(r) = Given(k) /\ srv[k].name = cl[u].name
    /\ srv[k].at \in Early => cl[u].at \in {"get_name", "get_file"} /\ g = <<>>

\* What a get has received, in its position of the reply, and what comes behind it.
LEMMA Takes ==
  ASSUME Inv, NEW u \in User, NEW k \in Conn, cl[u].conn = k, Live(u), cl[u].first,
         cl[u].at \in GetAt
  PROVE  \E g \in Seq(Unit), r \in Seq(Unit), t \in Nat : Getting(u, k, g, r, t)
<1>0. PICK R : R = Replies(k, shared, src[k], cl[u].name)
  OBVIOUS
<1>1. PICK g \in Seq(Unit), w \in Seq(Unit), o \in Seq(Unit) :
        g = io[Client(u)].got /\ w = wire[k]["server"] /\ o = io[Server(k)].out
  BY Seen, Served DEF Call
<1>2. PICK t \in Nat : t = Taken(u)
  <2>1. Len(cl[u].file) \in Nat
    BY Seen, Types
  <2> QED BY <2>1 DEF Taken
<1>3. PICK r \in Seq(Unit) : r = w \o o
  BY Concat
<1>4. PICK s \in Seq(Unit) : s = g \o r /\ Len(s) = Len(g) + Len(r)
  BY Concat
<1>5. Outgoing(u, k) = s
  <2>0. g \in Seq(Unit) /\ w \in Seq(Unit) /\ o \in Seq(Unit)
    OBVIOUS
  <2>3. Cat(Cat(g, w), o) = Cat(g, Cat(w, o))
    BY ONLY <2>0, Assoc
  <2>1. (g \o w) \o o = g \o (w \o o)
    BY <2>3, Zenon DEF Cat
  <2>2. Outgoing(u, k) = (g \o w) \o o
    BY <1>1 DEF Outgoing
  <2> QED BY <1>3, <1>4, <2>1, <2>2
<1>6. /\ Along(R, s, t)
      /\ srv[k].at \in Reading => t + Len(s) = Given(k) /\ srv[k].name = cl[u].name
      /\ srv[k].at \in Early => cl[u].at \in {"get_name", "get_file"} /\ g = <<>>
  <2>1. Reply(u)
    BY Seen
  <2> QED BY <1>0, <1>1, <1>2, <1>5, <2>1 DEF Reply
<1>7. Along(R, g, t) /\ Along(R, r, t + Len(g))
  BY <1>4, <1>6, AlongJoin
<1>8. t + Len(s) = t + Len(g) + Len(r)
  BY <1>4, LenProperties
<1>9. Getting(u, k, g, r, t)
  BY <1>0, <1>1, <1>2, <1>3, <1>6, <1>7, <1>8 DEF Getting
<1> QED BY <1>9

\* It goes on receiving the reply after what it has.
LEMMA RecvsReply ==
  ASSUME Inv, NEW u \in User, NEW k \in Conn, NEW c, NEW n \in Nat, Recvs(u, k, c, n), cl[u].first,
         Taken(u)' = Taken(u) + Len(io[Client(u)].got),
         srv[k].at \in Early => c.at \in {"get_name", "get_file"}
  PROVE  Reply(u)'
<1>1. Within(u, k) /\ cl'[u] = c /\ io'[Client(u)].got = <<>>
  BY RecvsOn
<1>2. /\ k = cl[u].conn /\ Live(u) /\ cl[u].at \in GetAt /\ c.conn = k /\ c.first = cl[u].first
      /\ c.name = cl[u].name /\ c.at \in {"get_file", "get_file_name", "get_data"}
      /\ UNCHANGED <<srv, src, shared>>
  BY DEF Recvs
<1>3. PICK R : R = Replies(k, shared, src[k], cl[u].name)
  OBVIOUS
<1>4. PICK g \in Seq(Unit), r \in Seq(Unit), t \in Nat :
           /\ g = io[Client(u)].got /\ r = wire[k]["server"] \o io[Server(k)].out /\ t = Taken(u)
           /\ Along(R, r, t + Len(g))
           /\ srv[k].at \in Reading => t + Len(g) + Len(r) = Given(k) /\ srv[k].name = cl[u].name
  <2>1. PICK g \in Seq(Unit), r \in Seq(Unit), t \in Nat : Getting(u, k, g, r, t)
    BY <1>2, Takes
  <2> QED BY <1>3, <2>1 DEF Getting
<1>5. r = Outgoing(u, k)'
  <2>1. wire[k]["server"] \in Seq(Unit)
    BY Served
  <2>2. <<>> \o wire[k]["server"] = wire[k]["server"]
    BY <2>1, ConcatEmptySeq
  <2>3. wire' = wire /\ io'[Server(k)] = io[Server(k)]
    BY <1>1, Threads DEF Within, Only
  <2> QED BY <1>1, <1>4, <2>2, <2>3 DEF Outgoing
<1>6. PICK n1 : n1 = Taken(u)' /\ n1 = t + Len(g)
  BY <1>4
<1>7. Along(Replies(k, shared', src'[k], cl'[u].name), r, n1)
  <2>1. shared' = shared /\ src' = src /\ cl'[u].name = cl[u].name
    BY <1>1, <1>2
  <2>2. Replies(k, shared', src'[k], cl'[u].name) = R
    BY <1>3, <2>1, Zenon
  <2>3. Along(R, r, n1)
    BY <1>4, <1>6, Zenon
  <2> QED BY <2>2, <2>3, Zenon
<1>8. srv'[k].at \in Reading => n1 + Len(r) = Given(k)' /\ srv'[k].name = cl'[u].name
  <2>1. Given(k)' = Given(k)
    BY <1>2 DEF Given
  <2> QED BY <1>1, <1>2, <1>4, <1>6, <2>1, Zenon
<1>9. srv'[k].at \in Early => cl'[u].at \in {"get_name", "get_file"} /\ io'[Client(u)].got = <<>>
  BY <1>1, <1>2
<1>10. cl'[u].conn = k /\ cl'[u].first /\ cl'[u].at \in GetAt
  BY <1>1, <1>2 DEF GetAt
<1> QED BY <1>5, <1>6, <1>7, <1>8, <1>9, <1>10, ReplyComing

\* A step of a get on the same file.
LEMMA RecvsKeep ==
  ASSUME Inv, NEW u \in User, NEW k \in Conn, NEW c, NEW n \in Nat, Recvs(u, k, c, n), Reply(u)',
         cl[u].first => GotFile(c, src[k], shared)
  PROVE  Inv'
<1>1. /\ Within(u, k) /\ cl'[u] = c /\ ClientCalls(u)' /\ Request(k)'
  BY RecvsOn
<1>2. /\ UNCHANGED <<src, put, shared>> /\ c.conn = k /\ c.first = cl[u].first
      /\ c.at \in {"get_file", "get_file_name", "get_data"}
  BY DEF Recvs
<1>3. ClientFile(u)'
  <2>1. PutFile(c, src[k])
    BY <1>2 DEF PutFile
  <2> QED BY <1>1, <1>2, <2>1 DEF ClientFile
<1> QED BY <1>1, <1>2, <1>3, WithinKeeps

\* get() has sent its request and waits for the header of the file.
LEMMA GetFileProtKeeps ==
  ASSUME Inv, NEW u \in User, GetFileProt(u)
  PROVE  Inv'
<1>1. /\ cl[u].at = "get_name" /\ Succeeded(Client(u))
      /\ BeginRecv(Client(u), 2) /\ Goto(u, "get_file")
      /\ UNCHANGED <<wire, open, reset, srv, store, shared, src, put>>
  BY DEF GetFileProt, Called, kernel, serverSide
<1>2. /\ Live(u) /\ io[Client(u)].out = <<>> /\ io[Client(u)].want = 0
      /\ \E k \in Conn : k = cl[u].conn
  BY <1>1, Alive
<1>3. PICK k \in Conn : k = cl[u].conn
  BY <1>2
<1>4. PICK c \in CRecord : /\ c.conn = k /\ c.at = "get_file" /\ cl' = [cl EXCEPT ![u] = c]
                           /\ c.name = cl[u].name /\ c.first = cl[u].first
  <2> DEFINE d == [cl[u] EXCEPT !.at = "get_file"]
  <2>1. cl[u] \in CRecord /\ cl \in [User -> CRecord]
    BY Seen
  <2>2. d \in CRecord
    BY <2>1 DEF CRecord, ClientAt
  <2>3. d.conn = cl[u].conn /\ d.at = "get_file" /\ d.name = cl[u].name /\ d.first = cl[u].first
    BY <2>1 DEF CRecord
  <2>4. cl' = [cl EXCEPT ![u] = d]
    BY <1>1, <2>1 DEF CRecord, Goto
  <2> QED BY <1>3, <2>2, <2>3, <2>4
<1>5. cl'[u] = c
  BY <1>4, Seen
<1>6. Recvs(u, k, c, 2)
  <2>1. cl[u].at \in GetAt
    BY <1>1 DEF GetAt
  <2>2. ClientAsks(u)' = 2
    BY <1>4, <1>5 DEF ClientAsks
  <2> QED BY <1>1, <1>2, <1>3, <1>4, <2>1, <2>2 DEF Recvs
<1>7. io[Client(u)].got = <<>>
  <2>1. ClientAsks(u) = 0 /\ cl[u].at # "prompt"
    BY <1>1 DEF ClientAsks
  <2> QED BY <1>2, <2>1, Seen DEF ClientCalls
<1>8. Reply(u)'
  <2>1. CASE cl[u].first
    <3>1. Taken(u)' = 0 /\ Taken(u) = 0
      BY <1>1, <1>4, <1>5 DEF Taken
    <3>2. Taken(u)' = Taken(u) + Len(io[Client(u)].got)
      BY <1>7, <3>1, AlongNothing
    <3> QED BY <1>4, <1>6, <2>1, <3>2, RecvsReply
  <2>2. CASE ~cl[u].first
    <3>1. /\ wire[k]["server"] = <<>> /\ io[Server(k)].out = <<>>
          /\ srv[k].at \in Reading => ~cl[u].first /\ srv[k].at # "get_prot" /\ srv[k].left = 0
          /\ ~cl[u].first /\ k \notin put => srv[k].at \notin Early
      BY <1>2, <1>3, <2>2, Seen DEF Reply
    <3>2. Within(u, k) /\ io'[Client(u)].got = <<>>
      BY <1>6, RecvsOn
    <3>3. io'[Server(k)] = io[Server(k)]
      BY <3>2, Threads DEF Within, Only
    <3> QED BY <1>1, <1>4, <1>5, <2>2, <3>1, <3>2, <3>3, NoReply
  <2> QED BY <2>1, <2>2
<1>9. GotFile(c, src[k], shared)
  BY <1>4 DEF GotFile
<1> QED BY <1>6, <1>8, <1>9, RecvsKeep

\* What the client has received as the header of the file is the header of the file.
LEMMA HasProt ==
  ASSUME Inv, NEW u \in User, Succeeded(Client(u)), cl[u].at = "get_file"
  PROVE  \E k \in Conn, F \in File, g \in Seq(Unit), l \in Nat :
           /\ k = cl[u].conn /\ F = src[k] /\ g = io[Client(u)].got /\ Len(g) = 2 /\ l = Len(F)
           /\ Live(u) /\ io[Client(u)].out = <<>> /\ io[Client(u)].want = 0
           /\ cl[u].first /\ srv[k].at \notin Early
           /\ g[1] = <<"name_length", 1>> /\ g[2] = <<"file_length", l>>
<1>2. /\ Live(u) /\ io[Client(u)].out = <<>> /\ io[Client(u)].want = 0
      /\ \E k \in Conn : k = cl[u].conn
  BY Alive
<1>3. PICK k \in Conn, F \in File : k = cl[u].conn /\ F = src[k]
  BY <1>2, Served
<1>4. PICK g \in Seq(Unit) : g = io[Client(u)].got /\ Len(g) = 2
  <2>1. io[Client(u)].got \in Seq(Unit)
    BY Seen DEF Call
  <2>2. ClientAsks(u) = 2
    BY DEF ClientAsks
  <2>3. Asked(Client(u), 2)
    BY <1>2, <2>2, Seen DEF ClientCalls
  <2>4. 2 - Len(io[Client(u)].got) = 0
    BY <1>2, <2>3 DEF Asked
  <2> QED BY <2>1, <2>4, LenProperties
<1>5. cl[u].first
  <2>1. io[Client(u)].got # <<>>
    <3>1. Len(g) # 0 /\ Len(<<>>) = 0
      BY <1>4
    <3> QED BY <1>4, <3>1, Zenon
  <2>2. cl[u].at # "prompt" /\ Reply(u)
    BY Seen
  <2> QED BY <1>2, <2>1, <2>2 DEF Reply
<1>6. PICK R : R = Replies(k, shared, F, cl[u].name)
  OBVIOUS
<1>7. Along(R, g, 0) /\ srv[k].at \notin Early
  <2>1. cl[u].at \in GetAt /\ Taken(u) = 0
    BY DEF GetAt, Taken
  <2>2. PICK x \in Seq(Unit), r \in Seq(Unit), t \in Nat : Getting(u, k, x, r, t)
    BY <1>2, <1>3, <1>5, <2>1, Takes
  <2>3. Along(R, g, 0) /\ (srv[k].at \in Early => g = <<>>)
    BY <1>3, <1>4, <1>6, <2>1, <2>2, Zenon DEF Getting
  <2>4. g # <<>>
    <3>1. Len(g) # 0 /\ Len(<<>>) = 0
      BY <1>4
    <3> QED BY <3>1, Zenon
  <2> QED BY <2>3, <2>4
<1>8. PICK l \in Nat : l = Len(F)
  BY LenProperties DEF File
<1>9. g[1] = <<"name_length", 1>> /\ g[2] = <<"file_length", l>>
  <2>1. ASSUME NEW i \in {1, 2} PROVE g[i] = FileProt(l)[i]
    <3>1. g[i] \in R[0 + i] /\ 0 + i = i /\ i \in Nat
      BY <1>4, <1>7 DEF Along
    <3>2. Replied(k, shared, F, cl[u].name, i, g[i])
      BY <1>6, <3>1, ReplyIs
    <3> QED BY <1>8, <3>2 DEF Replied
  <2> QED BY <1>8, <2>1, Units
<1> QED BY <1>2, <1>3, <1>4, <1>5, <1>7, <1>8, <1>9

\* get() has read the header and waits for the name.
LEMMA GetFileNameKeeps ==
  ASSUME Inv, NEW u \in User, GetFileName(u)
  PROVE  Inv'
<1>1. /\ cl[u].at = "get_file" /\ Succeeded(Client(u))
      /\ BeginRecv(Client(u), Received(Client(u), 1))
      /\ cl' = [cl EXCEPT ![u].at = "get_file_name", ![u].left = Received(Client(u), 2)]
      /\ UNCHANGED <<wire, open, reset, srv, store, shared, src, put>>
  BY DEF GetFileName, Called, kernel, serverSide
<1>2. PICK k \in Conn, F \in File, g \in Seq(Unit), l \in Nat :
           /\ k = cl[u].conn /\ F = src[k] /\ g = io[Client(u)].got /\ Len(g) = 2 /\ l = Len(F)
           /\ Live(u) /\ io[Client(u)].out = <<>> /\ io[Client(u)].want = 0
           /\ cl[u].first /\ srv[k].at \notin Early
           /\ g[1] = <<"name_length", 1>> /\ g[2] = <<"file_length", l>>
  BY <1>1, HasProt
<1>3. g[1][2] = 1 /\ g[2][2] = l
  BY <1>2
<1>10. Received(Client(u), 1) = 1 /\ Received(Client(u), 2) = l
  BY <1>2, <1>3 DEF Received
<1>11. PICK c \in CRecord : /\ c.conn = k /\ c.at = "get_file_name" /\ cl' = [cl EXCEPT ![u] = c]
                            /\ c.name = cl[u].name /\ c.first = cl[u].first /\ c.left = l
  <2> DEFINE d == [cl[u] EXCEPT !.at = "get_file_name", !.left = l]
  <2>1. cl[u] \in CRecord /\ cl \in [User -> CRecord]
    BY Seen
  <2>2. d \in CRecord
    BY <2>1 DEF CRecord, ClientAt
  <2>3. /\ d.conn = cl[u].conn /\ d.at = "get_file_name" /\ d.name = cl[u].name
        /\ d.first = cl[u].first /\ d.left = l
    BY <2>1 DEF CRecord
  <2>4. cl' = [cl EXCEPT ![u] = d]
    BY <1>1, <1>10, <2>1 DEF CRecord
  <2> QED BY <1>2, <2>2, <2>3, <2>4
<1>12. cl'[u] = c
  BY <1>11, Seen
<1>13. Recvs(u, k, c, 1)
  <2>1. cl[u].at \in GetAt
    BY <1>1 DEF GetAt
  <2>2. ClientAsks(u)' = 1
    BY <1>11, <1>12 DEF ClientAsks
  <2> QED BY <1>1, <1>2, <1>3, <1>10, <1>11, <2>1, <2>2 DEF Recvs
<1>14. Reply(u)'
  <2>1. Taken(u)' = 2 /\ Taken(u) = 0
    BY <1>1, <1>11, <1>12 DEF Taken
  <2>2. Taken(u)' = Taken(u) + Len(io[Client(u)].got)
    BY <1>2, <2>1
  <2> QED BY <1>2, <1>13, <2>2, RecvsReply
<1>15. GotFile(c, src[k], shared)
  BY <1>2, <1>11 DEF GotFile
<1> QED BY <1>13, <1>14, <1>15, RecvsKeep

\* Client u has file of the file it gets, and waits for left pieces more.
GetStep(u, k, file, left) ==
    /\ k = cl[u].conn /\ Live(u) /\ io[Client(u)].out = <<>> /\ io[Client(u)].want = 0
    /\ cl[u].first /\ cl[u].at \in {"get_file_name", "get_data"} /\ srv[k].at \notin Early
    /\ GetMore(u, file, left) /\ UNCHANGED <<wire, open, reset, srv, store, shared, src, put>>
    /\ left + Len(file) = Len(src[k])
    /\ Taken(u) + Len(io[Client(u)].got) = 3 + Len(file)
    /\ k \notin shared => \A i \in 1 .. Len(file) : file[i] = src[k][i]

\* What follows the last piece of a reply.
LEMMA ReplyEnds ==
  ASSUME NEW k, NEW S, NEW F \in File, NEW nm, NEW r \in Seq(Unit),
         Along(Replies(k, S, F, nm), r, 3 + Len(F))
  PROVE  r = <<>>
<1>1. PICK l \in Nat : l = Len(F)
  BY LenProperties DEF File
<1>2. ASSUME 1 \in 1 .. Len(r) PROVE FALSE
  <2>1. r[1] \in Replies(k, S, F, nm)[3 + l + 1]
    BY <1>1, <1>2 DEF Along
  <2>2. PICK p \in Nat : p = 3 + l + 1 /\ p > 3 /\ ~(p - 3 <= l)
    OBVIOUS
  <2>3. Replied(k, S, F, nm, p, r[1])
    BY <2>1, <2>2, ReplyIs
  <2> QED BY <1>1, <2>2, <2>3 DEF Replied
<1>3. Len(r) = 0
  <2>1. Len(r) \in Nat
    BY LenProperties
  <2> QED BY <1>2, <2>1
<1> QED BY <1>3, EmptySeq

\* Two sequences that make an empty one are empty.
LEMMA NothingInTwo ==
  ASSUME NEW w \in Seq(Unit), NEW o \in Seq(Unit), w \o o = <<>>
  PROVE  w = <<>> /\ o = <<>>
<1>1. PICK m \in Nat, n \in Nat : m = Len(w) /\ n = Len(o)
  BY LenProperties
<1>2. Len(w \o o) = m + n
  BY <1>1, Concat
<1>3. m + n = 0
  <2>1. Len(<<>>) = 0
    OBVIOUS
  <2>2. Len(w \o o) = 0
    BY <2>1, Zenon
  <2> QED BY <1>2, <2>2
<1>4. m = 0 /\ n = 0
  BY <1>3
<1> QED BY <1>1, <1>4, EmptySeq

\* A step of get() that waits for the next chunk, or that has the whole file.
LEMMA GetStepKeeps ==
  ASSUME Inv, NEW u \in User, NEW k \in Conn, NEW file \in File, NEW left \in Nat,
         GetStep(u, k, file, left)
  PROVE  Inv'
<1>1. /\ k = cl[u].conn /\ Live(u) /\ io[Client(u)].out = <<>> /\ io[Client(u)].want = 0
      /\ cl[u].first /\ cl[u].at \in {"get_file_name", "get_data"} /\ srv[k].at \notin Early
      /\ GetMore(u, file, left) /\ UNCHANGED <<wire, open, reset, srv, store, shared, src, put>>
      /\ k \notin shared => \A i \in 1 .. Len(file) : file[i] = src[k][i]
  BY DEF GetStep
<1>2. PICK F \in File, L \in Nat, n \in Nat : /\ F = src[k] /\ L = Len(F) /\ n = Len(file)
                                             /\ left + n = L
                                             /\ Taken(u) + Len(io[Client(u)].got) = 3 + n
  <2>1. src[k] \in File /\ Len(src[k]) \in Nat /\ Len(file) \in Nat
    BY Served, LenProperties DEF File
  <2> QED BY <2>1 DEF GetStep
<1>3. cl[u] \in CRecord /\ cl \in [User -> CRecord] /\ io \in [Thread -> Call] /\ cl[u].at \in GetAt
      /\ cl[u].at \notin {"new", "gone"}
  BY <1>1, Seen DEF GetAt
<1>4. CASE left > 0
  <2>1. PICK c \in CRecord : /\ c.conn = k /\ c.at = "get_data" /\ cl' = [cl EXCEPT ![u] = c]
                             /\ c.name = cl[u].name /\ c.first = cl[u].first
                             /\ c.left = left /\ c.file = file
    <3> DEFINE d == [cl[u] EXCEPT !.at = "get_data", !.left = left, !.file = file]
    <3>1. d \in CRecord
      BY <1>3 DEF CRecord, ClientAt
    <3>2. /\ d.conn = cl[u].conn /\ d.at = "get_data" /\ d.name = cl[u].name
          /\ d.first = cl[u].first /\ d.left = left /\ d.file = file
      BY <1>3 DEF CRecord
    <3>3. cl' = [cl EXCEPT ![u] = d]
      BY <1>1, <1>3, <1>4 DEF CRecord, GetMore
    <3> QED BY <1>1, <3>1, <3>2, <3>3
  <2>2. cl'[u] = c
    BY <1>3, <2>1
  <2>3. PICK m \in Nat : m = FileChunk(left)
    BY Chunks
  <2>4. Recvs(u, k, c, m)
    <3>1. ClientAsks(u)' = m
      BY <2>1, <2>2, <2>3 DEF ClientAsks
    <3>2. BeginRecv(Client(u), m)
      BY <1>1, <1>4, <2>3 DEF GetMore
    <3> QED BY <1>1, <1>3, <2>1, <3>1, <3>2 DEF Recvs
  <2>5. Reply(u)'
    <3>1. Taken(u)' = 3 + n
      BY <1>2, <2>1, <2>2 DEF Taken
    <3>2. Taken(u)' = Taken(u) + Len(io[Client(u)].got)
      BY <1>2, <3>1
    <3> QED BY <1>1, <2>4, <3>2, RecvsReply
  <2>6. GotFile(c, F, shared)
    <3>1. c.left > 0 /\ c.left + Len(c.file) = Len(F)
      BY <1>2, <1>4, <2>1
    <3>2. c.conn \notin shared => \A i \in 1 .. Len(c.file) : c.file[i] = F[i]
      BY <1>1, <1>2, <2>1
    <3> QED BY <2>1, <3>1, <3>2 DEF GotFile
  <2> QED BY <1>2, <2>4, <2>5, <2>6, RecvsKeep
<1>5. CASE left = 0
  <2>1. PICK c \in CRecord : /\ c.conn = k /\ c.at = "prompt" /\ cl' = [cl EXCEPT ![u] = c] /\ ~c.first
    <3> DEFINE d == [cl[u] EXCEPT !.at = "prompt", !.left = 0, !.file = file, !.first = FALSE]
    <3>1. d \in CRecord
      BY <1>3 DEF CRecord, ClientAt
    <3>2. d.conn = cl[u].conn /\ d.at = "prompt" /\ ~d.first
      BY <1>3 DEF CRecord
    <3>3. cl' = [cl EXCEPT ![u] = d]
      BY <1>1, <1>3, <1>5 DEF CRecord, GetMore
    <3> QED BY <1>1, <3>1, <3>2, <3>3
  <2>2. io' = io
    BY <1>1, <1>5 DEF GetMore
  <2>3. Within(u, k) /\ cl'[u] = c
    <3>1. Only(Client(u)) /\ io' \in [Thread -> Call]
      BY <1>3, <2>2 DEF Only
    <3> QED BY <1>1, <1>3, <2>1, <3>1, Going
  <2>4. PICK g \in Seq(Unit), r \in Seq(Unit), t \in Nat : Getting(u, k, g, r, t)
    BY <1>1, <1>3, Takes
  <2>5. t + Len(g) = 3 + L /\ n = L
    <3>1. n = L
      BY <1>2, <1>5
    <3>2. t = Taken(u) /\ g = io[Client(u)].got
      BY <2>4 DEF Getting
    <3> QED BY <1>2, <3>1, <3>2
  <2>6. r = <<>>
    <3>1. Along(Replies(k, shared, F, cl[u].name), r, 3 + Len(F))
      BY <1>2, <2>4, <2>5 DEF Getting
    <3> QED BY <3>1, ReplyEnds
  <2>7. wire[k]["server"] = <<>> /\ io[Server(k)].out = <<>>
    <3>1. wire[k]["server"] \o io[Server(k)].out = <<>>
      BY <2>4, <2>6 DEF Getting
    <3>2. wire[k]["server"] \in Seq(Unit) /\ io[Server(k)].out \in Seq(Unit)
      BY Served
    <3> QED BY <3>1, <3>2, NothingInTwo
  <2>8. srv[k].at \in Reading => srv[k].at # "get_prot" /\ srv[k].left = 0
    <3> SUFFICES ASSUME srv[k].at \in Reading PROVE srv[k].at # "get_prot" /\ srv[k].left = 0
      OBVIOUS
    <3>1. t + Len(g) + Len(r) = Given(k)
      BY <2>4 DEF Getting
    <3>2. Given(k) = 3 + L
      <4>1. Len(r) = 0
        BY <2>6
      <4>2. t + Len(g) + 0 = 3 + L
        BY <2>5
      <4> QED BY <3>1, <4>1, <4>2
    <3>3. PICK o \in Nat, x \in Nat :
            /\ o = srv[k].off /\ x = srv[k].left /\ o + x = L
            /\ srv[k].at \in {"get_prot", "get_name"} => o = 0
      <4>1. ServerFile(k) /\ srv[k].off \in Nat /\ srv[k].left \in Nat
        BY Served
      <4> QED BY <1>2, <4>1 DEF ServerFile
    <3>4. srv[k].at # "get_prot"
      <4>1. srv[k].at = "get_prot" => Given(k) = 2
        BY DEF Given
      <4> QED BY <3>2, <4>1
    <3>5. x = 0
      <4>1. CASE srv[k].at = "get_name"
        <5>1. Given(k) = 3 /\ o = 0
          BY <3>3, <4>1 DEF Given
        <5>2. 3 = 3 + L
          BY <3>2, <5>1
        <5> QED BY <3>3, <5>1, <5>2
      <4>2. CASE srv[k].at = "get_data"
        <5>1. Given(k) = 3 + o
          BY <3>3, <4>2 DEF Given
        <5>2. 3 + o = 3 + L
          BY <3>2, <5>1
        <5> QED BY <3>3, <5>2, SMTT(30)
      <4> QED BY <3>4, <4>1, <4>2 DEF Reading
    <3> QED BY <3>3, <3>4, <3>5
  <2>9. Reply(u)'
    <3>1. /\ wire'[k]["server"] = <<>> /\ io'[Server(k)].out = <<>>
          /\ srv'[k].at \in Reading => srv'[k].at # "get_prot" /\ srv'[k].left = 0
          /\ srv'[k].at \notin Early
      BY <1>1, <2>2, <2>7, <2>8
    <3> QED BY <2>1, <2>3, <3>1, NoReply
  <2>10. Request(k)'
    BY <1>1, <2>1, <2>3, WithinRequest
  <2>11. ClientCalls(u)'
    <3>1. cl'[u].at = "prompt"
      BY <2>1, <2>3
    <3>2. ClientAsks(u)' = 0
      BY <3>1 DEF ClientAsks
    <3>3. io[Client(u)].rc = 0
      BY <1>1 DEF Live
    <3> QED BY <1>1, <2>2, <3>1, <3>2, <3>3 DEF ClientCalls, Asked, Failed
  <2>12. ClientFile(u)'
    BY <2>1, <2>3 DEF ClientFile
  <2> QED BY <1>1, <2>3, <2>9, <2>10, <2>11, <2>12, WithinKeeps
<1> QED BY <1>4, <1>5

\* A call in the middle of a get has received what it asked for.
LEMMA Has ==
  ASSUME Inv, NEW u \in User, Succeeded(Client(u)), cl[u].at \in {"get_file_name", "get_data"}
  PROVE  \E k \in Conn, F \in File, g \in Seq(Unit), t \in Nat :
           /\ k = cl[u].conn /\ F = src[k] /\ g = io[Client(u)].got /\ t = Taken(u)
           /\ Live(u) /\ io[Client(u)].out = <<>> /\ io[Client(u)].want = 0
           /\ cl[u].first /\ srv[k].at \notin Early /\ GotFile(cl[u], F, shared)
           /\ Along(Replies(k, shared, F, cl[u].name), g, t)
           /\ ClientAsks(u) # 0 => Len(g) = ClientAsks(u)
<1>1. /\ Live(u) /\ io[Client(u)].out = <<>> /\ io[Client(u)].want = 0
      /\ \E k \in Conn : k = cl[u].conn
  BY Alive
<1>2. PICK k \in Conn, F \in File : k = cl[u].conn /\ F = src[k]
  BY <1>1, Served
<1>3. cl[u].first
  BY <1>1, Seen DEF Reply
<1>4. GotFile(cl[u], F, shared)
  BY <1>1, <1>2, <1>3, Seen DEF ClientFile
<1>5. cl[u].at \in GetAt
  BY DEF GetAt
<1>6. PICK g \in Seq(Unit), r \in Seq(Unit), t \in Nat : Getting(u, k, g, r, t)
  BY <1>1, <1>2, <1>3, <1>5, Takes
<1>7. /\ g = io[Client(u)].got /\ t = Taken(u) /\ srv[k].at \notin Early
      /\ Along(Replies(k, shared, F, cl[u].name), g, t)
  BY <1>2, <1>6, Zenon DEF Getting
<1>8. ASSUME ClientAsks(u) # 0 PROVE Len(g) = ClientAsks(u)
  <2>1. PICK n \in Nat : n = ClientAsks(u)
    <3>1. FileChunk(cl[u].left) \in Nat
      BY Seen, Chunks DEF CRecord
    <3> QED BY <3>1 DEF ClientAsks
  <2>2. Asked(Client(u), n) /\ n # 0
    BY <1>1, <1>8, <2>1, Seen DEF ClientCalls
  <2>3. 0 = n - Len(g)
    BY <1>1, <1>7, <2>2 DEF Asked
  <2>4. Len(g) \in Nat
    BY LenProperties
  <2> QED BY <2>1, <2>3, <2>4
<1> QED BY <1>1, <1>2, <1>3, <1>4, <1>7, <1>8

\* Opening the file is such a step.
LEMMA GetOpens ==
  ASSUME Inv, NEW u \in User, GetOpen(u)
  PROVE  \E k \in Conn, left \in Nat : GetStep(u, k, NoFile, left)
<1>1. /\ cl[u].at = "get_file_name" /\ Succeeded(Client(u))
      /\ GetMore(u, NoFile, cl[u].left)
      /\ UNCHANGED <<wire, open, reset, srv, store, shared, src, put>>
  BY DEF GetOpen, Called, kernel, serverSide
<1>2. PICK k \in Conn, F \in File, g \in Seq(Unit), t \in Nat :
           /\ k = cl[u].conn /\ F = src[k] /\ g = io[Client(u)].got /\ t = Taken(u)
           /\ Live(u) /\ io[Client(u)].out = <<>> /\ io[Client(u)].want = 0
           /\ cl[u].first /\ srv[k].at \notin Early /\ GotFile(cl[u], F, shared)
           /\ ClientAsks(u) # 0 => Len(g) = ClientAsks(u)
  BY <1>1, Has
<1>3. PICK left \in Nat : left = cl[u].left /\ left = Len(F)
  BY <1>1, <1>2, Seen DEF CRecord, GotFile
<1>4. Len(NoFile) = 0
  BY DEF NoFile
<1>5. t = 2 /\ Len(g) = 1
  BY <1>1, <1>2 DEF Taken, ClientAsks
<1>6. left + Len(NoFile) = Len(src[k]) /\ Taken(u) + Len(io[Client(u)].got) = 3 + Len(NoFile)
  BY <1>2, <1>3, <1>4, <1>5
<1>7. \A i \in 1 .. Len(NoFile) : NoFile[i] = src[k][i]
  BY <1>4
<1>8. GetStep(u, k, NoFile, left)
  BY <1>1, <1>2, <1>3, <1>6, <1>7 DEF GetStep
<1> QED BY <1>8

\* Two parts of a file appended, unit by unit.
LEMMA FileConcat ==
  ASSUME NEW f \in File, NEW d \in File
  PROVE  /\ f \o d \in File /\ Len(f \o d) = Len(f) + Len(d)
         /\ \A i \in 1 .. Len(f) + Len(d) :
              (f \o d)[i] = IF i <= Len(f) THEN f[i] ELSE d[i - Len(f)]
  BY ConcatProperties DEF File

\* Writing a chunk is such a step.
LEMMA GetWrites ==
  ASSUME Inv, NEW u \in User, GetWrite(u)
  PROVE  \E k \in Conn, file \in File, left \in Nat : GetStep(u, k, file, left)
<1>1. /\ cl[u].at = "get_data" /\ Succeeded(Client(u))
      /\ GetMore(u, cl[u].file \o Pieces(io[Client(u)].got), cl[u].left - Len(Pieces(io[Client(u)].got)))
      /\ UNCHANGED <<wire, open, reset, srv, store, shared, src, put>>
  BY DEF GetWrite, Called, kernel, serverSide
<1>2. PICK k \in Conn, F \in File, g \in Seq(Unit), t \in Nat :
           /\ k = cl[u].conn /\ F = src[k] /\ g = io[Client(u)].got /\ t = Taken(u)
           /\ Live(u) /\ io[Client(u)].out = <<>> /\ io[Client(u)].want = 0
           /\ cl[u].first /\ srv[k].at \notin Early /\ GotFile(cl[u], F, shared)
           /\ Along(Replies(k, shared, F, cl[u].name), g, t)
           /\ ClientAsks(u) # 0 => Len(g) = ClientAsks(u)
  BY <1>1, Has
<1>3. PICK f \in File, n \in Nat, l \in Nat, L \in Nat :
        /\ f = cl[u].file /\ n = Len(f) /\ l = cl[u].left /\ L = Len(F) /\ l > 0 /\ l + n = L
        /\ k \notin shared => \A i \in 1 .. n : f[i] = F[i]
  <2>1. cl[u].file \in File /\ Len(cl[u].file) \in Nat /\ cl[u].left \in Nat /\ Len(F) \in Nat
    BY Seen, LenProperties DEF CRecord, File
  <2>2. /\ cl[u].left > 0 /\ cl[u].left + Len(cl[u].file) = Len(F)
        /\ k \notin shared => \A i \in 1 .. Len(cl[u].file) : cl[u].file[i] = F[i]
    BY <1>1, <1>2 DEF GotFile
  <2> QED BY <2>1, <2>2
<1>4. PICK m \in Nat : m = Len(g) /\ m <= l
  <2>1. FileChunk(l) \in Nat /\ FileChunk(l) > 0 /\ FileChunk(l) <= l
    BY <1>3, Chunks
  <2>2. ClientAsks(u) = FileChunk(l)
    BY <1>1, <1>3 DEF ClientAsks
  <2>3. Len(g) = FileChunk(l)
    BY <1>2, <2>1, <2>2
  <2> QED BY <2>1, <2>3
<1>5. PICK d \in File : d = Pieces(g) /\ Len(d) = m /\ \A i \in 1 .. m : d[i] = g[i][2]
  BY <1>4, Contents
<1>6. PICK file \in File : /\ file = f \o d /\ Len(file) = n + m
                           /\ \A i \in 1 .. n + m : file[i] = IF i <= n THEN f[i] ELSE d[i - n]
  <2>1. PICK x : x = f \o d
    OBVIOUS
  <2>2. /\ x \in File /\ Len(x) = Len(f) + Len(d)
        /\ \A i \in 1 .. Len(f) + Len(d) : x[i] = IF i <= Len(f) THEN f[i] ELSE d[i - Len(f)]
    BY <2>1, FileConcat
  <2>3. Len(f) = n /\ Len(d) = m
    BY <1>3, <1>5
  <2>4. /\ x \in File /\ Len(x) = n + m
        /\ \A i \in 1 .. n + m : x[i] = IF i <= n THEN f[i] ELSE d[i - n]
    BY <2>2, <2>3
  <2> QED BY <2>1, <2>4
<1>7. PICK left \in Nat : left = l - m
  BY <1>4
<1>8. GetMore(u, file, left)
  BY <1>1, <1>2, <1>3, <1>5, <1>6, <1>7
<1>9. t = 3 + n
  BY <1>1, <1>2, <1>3 DEF Taken
<1>10. left + (n + m) = L /\ t + m = 3 + (n + m)
  <2>1. l + n = L
    BY <1>3
  <2> QED BY <1>7, <1>9, <2>1
<1>11. ASSUME k \notin shared, NEW i \in 1 .. n + m PROVE file[i] = F[i]
  <2>1. CASE i <= n
    BY <1>3, <1>6, <1>11, <2>1
  <2>2. CASE ~(i <= n)
    <3>1. PICK j \in 1 .. m, p \in Nat : j = i - n /\ p = t + j /\ p - 3 = i /\ p > 3
      BY <1>9, <2>2
    <3>2. g[j] \in Replies(k, shared, F, cl[u].name)[p]
      BY <1>2, <1>4, <3>1 DEF Along
    <3>3. Replied(k, shared, F, cl[u].name, p, g[j])
      BY <3>2, ReplyIs
    <3>4. g[j] = Data(F)[i] /\ i <= Len(F)
      BY <1>11, <3>1, <3>3 DEF Replied
    <3>5. Data(F)[i] = <<"data", F[i]>>
      BY <3>4, Datas, SMTT(30)
    <3>6. g[j][2] = F[i]
      BY <3>4, <3>5
    <3> QED BY <1>5, <1>6, <2>2, <3>1, <3>6
  <2> QED BY <2>1, <2>2
<1>12. left + Len(file) = Len(src[k]) /\ Taken(u) + Len(io[Client(u)].got) = 3 + Len(file)
  BY <1>2, <1>3, <1>4, <1>6, <1>10
<1>13. k \notin shared => \A i \in 1 .. Len(file) : file[i] = src[k][i]
  BY <1>2, <1>6, <1>11
<1>14. GetStep(u, k, file, left)
  BY <1>1, <1>2, <1>8, <1>12, <1>13 DEF GetStep
<1> QED BY <1>14

\* get() opens its file or writes a chunk.
LEMMA GetFileKeeps ==
  ASSUME Inv, NEW u \in User, GetOpen(u) \/ GetWrite(u)
  PROVE  Inv'
<1>1. CASE GetOpen(u)
  <2>1. NoFile \in File
    BY EmptySeq DEF File, NoFile
  <2> QED BY <1>1, <2>1, GetOpens, GetStepKeeps
<1>2. CASE GetWrite(u)
  BY <1>2, GetWrites, GetStepKeeps
<1> QED BY <1>1, <1>2

\* The client leaves its connection: Reconnect and Kill.
LEMMA LeaveKeeps ==
  ASSUME Inv, NEW u \in User, Reconnect(u) \/ Kill(u)
  PROVE  Inv'
<1>1. PICK at \in {"new", "gone"} :
        /\ cl[u].at \notin {"new", "gone"} /\ Close(cl[u].conn, "client")
        /\ io' = [io EXCEPT ![Client(u)] = NoCall]
        /\ cl' = [cl EXCEPT ![u].at = at, ![u].file = NoFile, ![u].left = 0]
        /\ UNCHANGED <<srv, store, shared, src, put>>
  <2>1. CASE Reconnect(u)
    BY <2>1 DEF Reconnect, Leave, serverSide
  <2>2. CASE Kill(u)
    BY <2>2 DEF Kill, Leave, serverSide
  <2> QED BY <2>1, <2>2
<1>2. PICK k \in Conn :
           /\ k = cl[u].conn /\ open[k]["client"] /\ \A v \in User \ {u} : cl[v].conn # k
           /\ ServerCalls(k) /\ ServerLink(k) /\ Request(k) /\ ServerFile(k)
  BY <1>1, Sees
<1>3. /\ TypeOK /\ StreamTypeOK(Thread, Unit) /\ cl \in [User -> CRecord] /\ cl[u] \in CRecord
      /\ io \in [Thread -> Call] /\ Client(u) \in Thread
  BY Seen
<1>4. PICK c \in CRecord : c.conn = k /\ c.at = at /\ cl' = [cl EXCEPT ![u] = c]
  <2> DEFINE d == [cl[u] EXCEPT !.at = at, !.file = NoFile, !.left = 0]
  <2>1. NoFile \in File
    BY EmptySeq DEF File, NoFile
  <2>2. d \in CRecord
    BY <1>3, <2>1 DEF CRecord, ClientAt
  <2>3. d.conn = cl[u].conn /\ d.at = at
    BY <1>3 DEF CRecord
  <2>4. cl' = [cl EXCEPT ![u] = d]
    BY <1>1, <1>3 DEF CRecord
  <2> QED BY <1>2, <2>2, <2>3, <2>4
<1>5. /\ cl'[u] = c /\ cl' \in [User -> CRecord] /\ \A v \in User \ {u} : cl'[v] = cl[v]
  BY <1>3, <1>4
<1>6. io' \in [Thread -> Call] /\ Only(Client(u)) /\ io'[Client(u)] = NoCall
  BY <1>1, <1>3, NoCalls DEF Only
<1>7. Close(k, "client")
  BY <1>1, <1>2
<1>8. /\ wire' \in [Conn -> [Side -> Seq(Unit)]] /\ open' \in [Conn -> [Side -> BOOLEAN]]
      /\ reset' \subseteq Conn
      /\ Touch(k, "server") /\ wire'[k]["server"] = <<>>
      /\ \A d \in Conn, s \in Side : d # k \/ s # "client" => open'[d][s] = open[d][s]
      /\ ~open'[k]["client"]
      /\ \A d \in Conn : d # k => (d \in reset' <=> d \in reset)
  BY <1>3, <1>7, Closes, Sides
<1>9. wire'[k]["client"] = wire[k]["client"] /\ open'[k]["server"] = open[k]["server"]
  BY <1>8, Sides DEF Touch
<1>10. io'[Server(k)] = io[Server(k)]
  BY <1>6, Threads DEF Only
<1>11. TypeOK'
  <2>1. StreamTypeOK(Thread, Unit)'
    BY <1>6, <1>8 DEF StreamTypeOK, Call
  <2> QED BY <1>1, <1>3, <1>5, <2>1 DEF TypeOK, CRecord
<1>12. ClientMoves(u, k)
  <2>1. \A j \in Conn \ {k}, s \in Side : wire'[j][s] = wire[j][s] /\ open'[j][s] = open[j][s]
    BY <1>8 DEF Touch
  <2> QED BY <1>1, <1>4, <1>5, <1>6, <1>8, <2>1 DEF ClientMoves
<1>13. ~Live(u)'
  BY <1>4, <1>5 DEF Live
<1>14. ~Free(k)'
  <2>1. ~Free(k)
    BY <1>2, Sides DEF Free
  <2>2. srv[k].at = "none" => open'[k]["server"]
    BY <1>2, <1>9 DEF ServerLink
  <2> QED BY <1>1, <2>2, Sides DEF Free
<1>15. ServerLink(k)'
  <2>1. srv[k].at \in Early => k \notin reset'
    <3>1. reset' = IF wire[k]["server"] # <<>> THEN reset \union {k} ELSE reset
      BY <1>7, Sides DEF Close
    <3> QED BY <1>2, <3>1 DEF ServerLink
  <2> QED BY <1>1, <1>2, <1>8, <1>9, <1>14, <2>1 DEF ServerLink
<1>16. ServerCalls(k)'
  <2>1. srv[k].at \in Early \union Reading \union {"leaked"} /\ Failed(Server(k)) => k \notin put
    BY <1>2 DEF ServerCalls
  <2> QED BY <1>1, <1>2, <1>8, <1>10, <2>1, StillServerCalls
<1>17. Request(k)'
  <2>1. \A v \in User : cl'[v].conn = k => ~Live(v)'
    BY <1>2, <1>5, <1>13
  <2> QED BY <1>1, <1>2, <1>9, <1>10, <2>1, StillRequest
<1>18. ServerFile(k)'
  <2>1. srv[k].at \in Reading => k \notin put'
    BY <1>1, <1>2 DEF ServerFile
  <2> QED BY <1>1, <1>2, <2>1, StillServerFile
<1>19. ClientCalls(u)'
  <2>1. ~Failed(Client(u))'
    BY <1>6, NoCalls DEF Failed
  <2>2. cl'[u].at \in {"new", "gone"}
    BY <1>4, <1>5
  <2> QED BY <1>6, <1>13, <2>1, <2>2 DEF ClientCalls
<1>20. Reply(u)' /\ ClientFile(u)'
  BY <1>13 DEF Reply, ClientFile
<1>21. cl'[u].at \in {"new", "gone"}
  BY <1>4, <1>5
<1> QED BY <1>2, <1>8, <1>11, <1>12, <1>14, <1>15, <1>16, <1>17, <1>18, <1>19, <1>20, <1>21, ClientKeeps

\* A set of connections that is not empty has a first one.
LEMMA FirstOf ==
  ASSUME NEW S, S \subseteq Conn, S # {}
  PROVE  Min(S) \in S
<1>1. S \subseteq Nat
  BY FileAssumption
<1>2. IsWellFoundedOn(OpToRel(<, Nat), Nat)
  BY NatLessThanWellFounded
<1>3. PICK x \in S : \A y \in S : ~(<<y, x>> \in OpToRel(<, Nat))
  BY <1>1, <1>2, WFMin
<1>4. \A y \in S : ~(y < x)
  BY <1>1, <1>3 DEF OpToRel
<1>5. \A y \in S : x <= y
  BY <1>1, <1>4
<1> QED BY <1>5 DEF Min

\* A client connects.
LEMMA ConnectKeeps ==
  ASSUME Inv, NEW u \in User, Connect(u)
  PROVE  Inv'
<1>1. PICK k \in Conn :
        /\ cl[u].at = "new" /\ Free(k) /\ Establish(k)
        /\ cl' = [cl EXCEPT ![u].at = "prompt", ![u].conn = k, ![u].first = TRUE]
        /\ UNCHANGED <<io, srv, store, shared, src, put>>
  <2>1. Min({j \in Conn : Free(j)}) \in {j \in Conn : Free(j)}
    <3>1. {j \in Conn : Free(j)} \subseteq Conn /\ {j \in Conn : Free(j)} # {}
      BY DEF Connect
    <3> HIDE DEF Free
    <3> QED BY <3>1, FirstOf
  <2> QED BY <2>1 DEF Connect, serverSide
<1>2. /\ TypeOK /\ ServerCalls(k) /\ ServerLink(k) /\ Request(k) /\ ServerFile(k)
      /\ \A v \in User : ClientLink(v)
  BY Served
<1>3. /\ StreamTypeOK(Thread, Unit) /\ cl \in [User -> CRecord] /\ cl[u] \in CRecord
      /\ io \in [Thread -> Call] /\ Client(u) \in Thread /\ ClientCalls(u)
  BY Seen
<1>4. PICK c \in CRecord : /\ c.conn = k /\ c.at = "prompt" /\ c.first
                           /\ cl' = [cl EXCEPT ![u] = c]
  <2> DEFINE d == [cl[u] EXCEPT !.at = "prompt", !.conn = k, !.first = TRUE]
  <2>1. d \in CRecord
    BY <1>3 DEF CRecord, ClientAt
  <2>2. d.conn = k /\ d.at = "prompt" /\ d.first
    BY <1>3 DEF CRecord
  <2>3. cl' = [cl EXCEPT ![u] = d]
    BY <1>1, <1>3 DEF CRecord
  <2> QED BY <2>1, <2>2, <2>3
<1>5. /\ cl'[u] = c /\ cl' \in [User -> CRecord] /\ \A v \in User \ {u} : cl'[v] = cl[v]
  BY <1>3, <1>4
<1>6. \A v \in User \ {u} : cl[v].conn # k
  BY <1>1, <1>2, Types DEF ClientLink
<1>7. /\ srv[k].at = "none" /\ ~open[k]["client"] /\ ~open[k]["server"]
      /\ k \notin put /\ k \notin shared /\ src[k] = Unopened
      /\ wire[k]["client"] = <<>> /\ wire[k]["server"] = <<>> /\ k \notin reset
      /\ io[Server(k)] = NoCall
  BY <1>1, <1>2, Sides DEF Free, ServerLink, ServerCalls, Early
<1>8. /\ open' \in [Conn -> [Side -> BOOLEAN]] /\ open'[k]["client"] /\ open'[k]["server"]
      /\ \A j \in Conn \ {k}, s \in Side : open'[j][s] = open[j][s]
      /\ wire' = wire /\ reset' = reset
  <2>1. open \in [Conn -> [Side -> BOOLEAN]]
    BY <1>3 DEF StreamTypeOK
  <2>2. open' = [open EXCEPT ![k] = [s \in Side |-> TRUE]] /\ wire' = wire /\ reset' = reset
    BY <1>1 DEF Establish
  <2>3. [s \in Side |-> TRUE] \in [Side -> BOOLEAN]
    OBVIOUS
  <2>4. open' \in [Conn -> [Side -> BOOLEAN]] /\ open'[k] = [s \in Side |-> TRUE]
    BY <2>1, <2>2, <2>3
  <2>5. \A j \in Conn \ {k} : open'[j] = open[j]
    BY <2>1, <2>2
  <2> QED BY <2>2, <2>4, <2>5, Sides
<1>9. io[Client(u)] = NoCall
  BY <1>1, <1>3 DEF ClientCalls
<1>10. TypeOK'
  <2>1. StreamTypeOK(Thread, Unit)'
    BY <1>1, <1>3, <1>8 DEF StreamTypeOK
  <2> QED BY <1>1, <1>2, <1>5, <2>1 DEF TypeOK, CRecord
<1>11. ClientMoves(u, k)
  BY <1>1, <1>4, <1>5, <1>8 DEF ClientMoves, Only
<1>12. ~Free(k)'
  BY <1>8, Sides DEF Free
<1>13. ServerLink(k)'
  BY <1>1, <1>7, <1>8, <1>12 DEF ServerLink, Reading
<1>14. ServerCalls(k)'
  <2>1. ~Failed(Server(k))
    BY <1>7, NoCalls DEF Failed
  <2> QED BY <1>1, <1>2, <2>1, StillServerCalls
<1>15. Request(k)'
  <2>1. Incoming(k)' = <<>>
    <3>1. io'[Server(k)].got = <<>> /\ wire'[k]["client"] = <<>>
      BY <1>1, <1>7, <1>8, NoCalls
    <3>2. <<>> \o <<>> = <<>>
      BY EmptySeq, ConcatEmptySeq
    <3> QED BY <3>1, <3>2 DEF Incoming
  <2>2. Begun(k, MSG_PUT, 0, 0)'
    BY <1>1, <1>7 DEF Begun
  <2>3. ASSUME NEW v \in User, cl'[v].conn = k
        PROVE  /\ io'[Client(v)].out = <<>>
               /\ Sent(v, src[k], MSG_PUT, 0, 0)'
    <3>1. v = u
      BY <1>5, <1>6, <2>3
    <3>2. io'[Client(u)].out = <<>>
      BY <1>1, <1>9, NoCalls
    <3> QED BY <1>4, <1>5, <3>1, <3>2 DEF Sent
  <2>4. k \notin put'
    BY <1>1, <1>7
  <2>5. PICK R : R = Requests(src[k], MSG_PUT, 0)'
    OBVIOUS
  <2>6. 0 + Len(<<>>) = 0
    OBVIOUS
  <2>7. ASSUME NEW v \in User, cl'[v].conn = k
        PROVE  /\ Along(R, io'[Client(v)].out, 0)
               /\ Sent(v, src[k], MSG_PUT, 0, 0 + Len(io[Client(v)].out))'
    <3>1. io'[Client(v)].out = <<>> /\ Sent(v, src[k], MSG_PUT, 0, 0)'
      BY <2>3, <2>7
    <3>2. 0 + Len(io'[Client(v)].out) = 0
      BY <2>6, <3>1
    <3> QED BY <3>1, <3>2, AlongNothing
  <2>8. Along(R, <<>>, 0)
    BY AlongNothing
  <2>9. MSG_PUT \in {MSG_PUT, MSG_GET} /\ 0 \in Nat
    OBVIOUS
  <2> QED BY <2>1, <2>2, <2>4, <2>5, <2>6, <2>7, <2>8, <2>9 DEF Request
<1>16. ServerFile(k)'
  BY <1>1, <1>2, <1>7, StillServerFile
<1>17. cl'[u].at = "prompt" /\ cl'[u].conn = k /\ cl'[u].first
  BY <1>4, <1>5
<1>18. ClientCalls(u)'
  <2>1. io'[Client(u)] = NoCall
    BY <1>1, <1>9
  <2>2. ClientAsks(u)' = 0
    BY <1>17 DEF ClientAsks
  <2> QED BY <1>17, <2>1, <2>2, NoCalls DEF ClientCalls, Asked, Failed
<1>19. Reply(u)'
  <2>1. wire'[k]["server"] = <<>> /\ io'[Server(k)].out = <<>> /\ srv'[k].at \notin Reading
    BY <1>1, <1>7, <1>8, NoCalls DEF Reading
  <2>2. cl'[u].at \notin GetAt
    BY <1>17 DEF GetAt
  <2> QED BY <1>17, <2>1, <2>2, NoReply DEF GetAt
<1>20. ClientFile(u)'
  <2>1. src'[k] = Unopened
    BY <1>1, <1>7
  <2> QED BY <1>17, <2>1 DEF ClientFile, PutFile, GotFile
<1> QED BY <1>6, <1>8, <1>10, <1>11, <1>12, <1>13, <1>14, <1>15, <1>16, <1>17, <1>18, <1>19, <1>20,
           ClientKeeps

\* Client u has a call under way.
LEMMA ClientCalling ==
  ASSUME Inv, NEW u \in User, ~Returned(Client(u))
  PROVE  /\ Live(u) /\ cl[u].at \notin {"new", "gone", "failed", "prompt"}
         /\ io[Client(u)].out # <<>> =>
              ClientAsks(u) = 0 /\ io[Client(u)].want = 0 /\ io[Client(u)].got = <<>>
         /\ io[Client(u)].want > 0 =>
              /\ io[Client(u)].out = <<>> /\ ClientAsks(u) \in Nat \ {0}
              /\ io[Client(u)].want = ClientAsks(u) - Len(io[Client(u)].got)
<1>1. ClientCalls(u) /\ io[Client(u)] \in Call /\ cl[u] \in CRecord
  BY Seen
<1>2. /\ [NoCall EXCEPT !.rc = -1].out = <<>> /\ [NoCall EXCEPT !.rc = -1].want = 0
      /\ NoCall.out = <<>> /\ NoCall.want = 0
  BY DEF NoCall
<1>3. io[Client(u)].rc = 0
  <2>1. io[Client(u)].rc \in {0, -1}
    BY <1>1 DEF Call
  <2> QED BY <1>1, <1>2, <2>1 DEF ClientCalls, Failed, Returned
<1>4. cl[u].at \notin {"new", "gone", "failed"}
  BY <1>1, <1>2 DEF ClientCalls, Returned
<1>5. Live(u)
  BY <1>3, <1>4 DEF Live
<1>6. Asked(Client(u), ClientAsks(u)) /\ (cl[u].at = "prompt" => io[Client(u)].out = <<>>)
      /\ (ClientAsks(u) = 0 /\ cl[u].at # "prompt" => io[Client(u)].got = <<>>)
  BY <1>1, <1>5 DEF ClientCalls
<1>7. cl[u].at # "prompt"
  <2> SUFFICES ASSUME cl[u].at = "prompt" PROVE FALSE
    OBVIOUS
  <2>1. ClientAsks(u) = 0
    BY DEF ClientAsks
  <2> QED BY <1>6, <2>1 DEF Asked, Returned
<1>8. ClientAsks(u) \in Nat
  <2>1. FileChunk(cl[u].left) \in Nat
    BY <1>1, Chunks DEF CRecord
  <2> QED BY <2>1 DEF ClientAsks
<1>9. ASSUME io[Client(u)].out # <<>>
      PROVE  ClientAsks(u) = 0 /\ io[Client(u)].want = 0 /\ io[Client(u)].got = <<>>
  BY <1>6, <1>7, <1>9 DEF Asked
<1>10. ASSUME io[Client(u)].want > 0
       PROVE  /\ io[Client(u)].out = <<>> /\ ClientAsks(u) \in Nat \ {0}
              /\ io[Client(u)].want = ClientAsks(u) - Len(io[Client(u)].got)
  <2>1. io[Client(u)].want # 0
    BY <1>10
  <2>2. ClientAsks(u) # 0
    BY <1>6, <2>1 DEF Asked
  <2> QED BY <1>6, <1>8, <2>2 DEF Asked
<1> QED BY <1>4, <1>5, <1>7, <1>9, <1>10

\* A step of a call of client u keeps the invariant when it keeps these.
LEMMA ClientCallMoves ==
  ASSUME Inv, NEW u \in User, NEW k \in Conn, cl[u].conn = k, Live(u), NEW s \in Side,
         UNCHANGED <<cl, srv, store, src, shared, put, open>>,
         StreamTypeOK(Thread, Unit)', Only(Client(u)), Touch(k, s),
         \A j \in Conn : j # k => (j \in reset' <=> j \in reset),
         ServerLink(k)', Request(k)', ClientCalls(u)', Reply(u)'
  PROVE  Inv'
<1>1. cl[u].at \notin {"new", "gone"}
  BY DEF Live
<1>2. /\ open[k]["client"] /\ \A v \in User \ {u} : cl[v].conn # k
      /\ ServerCalls(k) /\ ServerFile(k)
  BY <1>1, Sees
<1>3. TypeOK /\ ClientFile(u)
  BY Seen
<1>4. TypeOK'
  BY <1>3 DEF TypeOK
<1>5. ClientMoves(u, k)
  <2>1. \A j \in Conn \ {k}, t \in Side : wire'[j][t] = wire[j][t]
    BY DEF Touch
  <2> QED BY <2>1 DEF ClientMoves
<1>6. ServerCalls(k)'
  <2>1. io'[Server(k)] = io[Server(k)]
    BY Threads DEF Only
  <2>2. srv[k].at \in Early \union Reading \union {"leaked"} /\ Failed(Server(k)) =>
          ~open'[k]["client"] /\ k \notin put'
    BY <1>2 DEF ServerCalls
  <2> QED BY <1>2, <2>1, <2>2, StillServerCalls
<1>7. ServerFile(k)'
  <2>1. srv[k].at \in Reading => k \notin put'
    BY <1>2 DEF ServerFile
  <2> QED BY <1>2, <2>1, StillServerFile
<1>8. ClientFile(u)'
  BY <1>3, StillClientFile
<1>9. ~Free(k)'
  BY <1>2, Sides DEF Free
<1> QED BY <1>1, <1>2, <1>4, <1>5, <1>6, <1>7, <1>8, <1>9, ClientKeeps

\* The reply to client u is the same, in its hands or on its way.
LEMMA ReplyGoesOn ==
  ASSUME NEW u \in User, NEW k \in Conn, cl[u].conn = k, Reply(u), Live(u),
         UNCHANGED <<cl, srv, src, shared, put>>, io'[Client(u)].rc = io[Client(u)].rc,
         Outgoing(u, k)' = Outgoing(u, k), io'[Server(k)] = io[Server(k)],
         \/ io'[Client(u)].got = io[Client(u)].got /\ wire'[k]["server"] = wire[k]["server"]
         \/ wire[k]["server"] # <<>> /\ srv[k].at \notin Early
  PROVE  Reply(u)'
<1>1. Taken(u)' = Taken(u) /\ Given(k)' = Given(k) /\ Live(u)'
  BY DEF Taken, Given, Live
<1>2. CASE cl[u].first /\ cl[u].at \in GetAt
  <2>1. /\ Along(Replies(k, shared, src[k], cl[u].name), Outgoing(u, k), Taken(u))
        /\ srv[k].at \in Reading =>
             Taken(u) + Len(Outgoing(u, k)) = Given(k) /\ srv[k].name = cl[u].name
        /\ srv[k].at \in Early =>
             cl[u].at \in {"get_name", "get_file"} /\ io[Client(u)].got = <<>>
    BY <1>2 DEF Reply
  <2> QED BY <1>1, <1>2, <2>1 DEF Reply
<1>3. CASE ~(cl[u].first /\ cl[u].at \in GetAt)
  <2>1. wire[k]["server"] = <<>>
    BY <1>3 DEF Reply
  <2>2. io'[Client(u)].got = io[Client(u)].got /\ wire'[k]["server"] = wire[k]["server"]
    BY <2>1
  <2> QED BY <1>3, <2>2 DEF Reply
<1> QED BY <1>2, <1>3

\* A file that is whole stays whole.
LEMMA WholeStays ==
  ASSUME NEW F \in File, NEW m \in Nat, NEW n \in Nat, m <= n, Whole(F, m)
  PROVE  Whole(F, n)
<1>1. n >= 5
  BY DEF Whole
<1>2. ASSUME NEW j \in Nat, Block(j) < Len(F)
      PROVE  n >= 6 + Block(j) + j + FileChunk(Len(F) - Block(j))
  <2>1. m >= 6 + Block(j) + j + FileChunk(Len(F) - Block(j))
    BY <1>2 DEF Whole
  <2>2. PICK x \in Nat : x = 6 + Block(j) + j + FileChunk(Len(F) - Block(j))
    <3>1. Block(j) \in Nat
      BY Blocks
    <3>2. FileChunk(Len(F) - Block(j)) \in 1 .. FILE_BUFF_SIZE
      BY <1>2, ChunkOf
    <3>3. FileChunk(Len(F) - Block(j)) \in Nat
      BY <3>2, FileAssumption
    <3>4. PICK o \in Nat, d \in Nat : o = Block(j) /\ d = FileChunk(Len(F) - Block(j))
      BY <3>1, <3>3
    <3>5. 6 + o + j + d \in Nat
      OBVIOUS
    <3> QED BY <3>4, <3>5
  <2> QED BY <2>1, <2>2
<1> QED BY <1>1, <1>2 DEF Whole

\* A send() makes what is left shorter.
LEMMA SendsPart ==
  ASSUME StreamTypeOK(Thread, Unit), NEW p \in Thread, NEW c \in Conn, NEW s, SendSome(p, c, s)
  PROVE  Len(io'[p].out) <= Len(io[p].out)
<1>1. PICK o \in Seq(Unit), l \in Nat : o = io[p].out /\ l = Len(o) /\ io \in [Thread -> Call]
  BY LenProperties DEF StreamTypeOK, Call
<1>2. PICK n \in 1 .. l : io' = [io EXCEPT ![p].out = SubSeq(@, n + 1, Len(@))]
  BY <1>1 DEF SendSome
<1>3. PICK f \in Seq(Unit), r \in Seq(Unit) :
        r = SubSeq(o, n + 1, l) /\ Len(f) = n /\ f \o r = o
  <2>1. n \in 1 .. Len(o) /\ l = Len(o)
    BY <1>1, <1>2
  <2>2. /\ SubSeq(o, 1, n) \in Seq(Unit) /\ SubSeq(o, n + 1, Len(o)) \in Seq(Unit)
        /\ Len(SubSeq(o, 1, n)) = n /\ SubSeq(o, 1, n) \o SubSeq(o, n + 1, Len(o)) = o
    BY <2>1, Cut
  <2> QED BY <2>1, <2>2
<1>4. io'[p].out = r
  BY <1>1, <1>2, <1>3 DEF Call
<1>5. Len(r) \in Nat /\ Len(f \o r) = n + Len(r)
  BY <1>3, Concat, LenProperties
<1>6. l = n + Len(r)
  BY <1>1, <1>3, <1>5
<1>7. Len(r) <= l
  BY <1>5, <1>6
<1> QED BY <1>1, <1>4, <1>7

\* When some units move from what is to come to what has come, both continue the request.
Split(R, a, i, o, ii, oo) ==
    ii \o oo = i \o o /\ Len(oo) <= Len(o) /\ Along(R, i, a) /\ Along(R, o, a + Len(i))

\* A request cut at another place stands at the same positions.
LEMMA RequestSplit ==
  ASSUME NEW R, NEW a \in Nat, NEW i \in Seq(Unit), NEW o \in Seq(Unit), NEW ii \in Seq(Unit),
         NEW oo \in Seq(Unit), Split(R, a, i, o, ii, oo)
  PROVE  /\ Along(R, ii, a) /\ Along(R, oo, a + Len(ii))
         /\ a + Len(ii) + Len(oo) = a + Len(i) + Len(o)
         /\ a + Len(i) \in Nat /\ a + Len(ii) \in Nat /\ a + Len(i) <= a + Len(ii)
<1>0. ii \o oo = i \o o /\ Len(oo) <= Len(o) /\ Along(R, i, a) /\ Along(R, o, a + Len(i))
  BY DEF Split
<1>1. Along(R, i \o o, a)
  BY <1>0, AlongJoin
<1>2. Along(R, ii \o oo, a)
  BY <1>0, <1>1
<1>3. Along(R, ii, a) /\ Along(R, oo, a + Len(ii))
  BY <1>2, AlongJoin
<1>4. Len(i \o o) = Len(i) + Len(o) /\ Len(ii \o oo) = Len(ii) + Len(oo)
  BY Concat
<1>5. PICK p \in Nat, q \in Nat, pp \in Nat, qq \in Nat :
        p = Len(i) /\ q = Len(o) /\ pp = Len(ii) /\ qq = Len(oo)
  BY LenProperties
<1>6. pp + qq = p + q /\ qq <= q
  BY <1>0, <1>4, <1>5
<1>7. a + pp + qq = a + p + q /\ a + p \in Nat /\ a + pp \in Nat /\ a + p <= a + pp
  BY <1>6
<1> QED BY <1>3, <1>5, <1>7

\* Anything can follow a whole put.
LEMMA AlongAfter ==
  ASSUME NEW F \in File, NEW nm, NEW m \in Nat, Whole(F, m), NEW s \in Seq(Unit)
  PROVE  Along(Requests(F, MSG_PUT, nm), s, m)
<1> SUFFICES ASSUME NEW i \in 1 .. Len(s) PROVE s[i] \in Requests(F, MSG_PUT, nm)[m + i]
  BY DEF Along
<1>1. s[i] \in Unit /\ Len(s) \in Nat
  BY ElementOfSeq, LenProperties
<1>2. m + i \in Nat /\ m + i > m
  BY <1>1
<1> QED BY <1>1, <1>2, RequestEnds

\* A client that has sent some more of its request.
LEMMA RequestSends ==
  ASSUME Inv, NEW u \in User, NEW k \in Conn, cl[u].conn = k, Live(u),
         UNCHANGED <<cl, srv, src, put, open>>, Only(Client(u)), io'[Client(u)].rc = io[Client(u)].rc,
         NEW i \in Seq(Unit), NEW o \in Seq(Unit), NEW ii \in Seq(Unit), NEW oo \in Seq(Unit),
         i = Incoming(k), ii = Incoming(k)', o = io[Client(u)].out, oo = io'[Client(u)].out,
         ii \o oo = i \o o, Len(oo) <= Len(o)
  PROVE  Request(k)'
<1>0. io'[Server(k)] = io[Server(k)]
  BY Threads DEF Only
<1> SUFFICES ASSUME open[k]["server"], srv[k].at \in Early, io[Server(k)].rc = 0
             PROVE  Request(k)'
  BY <1>0 DEF Request
<1>1. /\ Request(k) /\ Reply(u) /\ src[k] \in File
      /\ \A v \in User : cl[v].conn = k => v = u
  <2>1. cl[u].at \notin {"new", "gone"}
    BY DEF Live
  <2> QED BY <2>1, Served, Sees
<1>2. PICK F \in File, type \in {MSG_PUT, MSG_GET}, nm \in Nat, a \in Nat, m \in Nat :
        /\ F = src[k] /\ m = a + Len(i) /\ Begun(k, type, nm, a)
        /\ Along(Requests(F, type, nm), i, a)
        /\ k \in put => type = MSG_PUT /\ Whole(F, m)
        /\ cl[u].first => Along(Requests(F, type, nm), o, m) /\ Sent(u, F, type, nm, m + Len(o))
  <2>1. PICK type \in {MSG_PUT, MSG_GET}, nm \in Nat, a \in Nat :
          /\ Begun(k, type, nm, a) /\ Along(Requests(src[k], type, nm), Incoming(k), a)
          /\ k \in put => type = MSG_PUT /\ Whole(src[k], a + Len(Incoming(k)))
          /\ \A v \in User : cl[v].conn = k /\ Live(v) /\ cl[v].first =>
               /\ Along(Requests(src[k], type, nm), io[Client(v)].out, a + Len(Incoming(k)))
               /\ Sent(v, src[k], type, nm, a + Len(Incoming(k)) + Len(io[Client(v)].out))
    BY <1>1 DEF Request
  <2>2. a + Len(i) \in Nat
    <3>1. Len(i) \in Nat
      BY LenProperties
    <3> QED BY <3>1
  <2>3. cl[u].first => /\ Along(Requests(src[k], type, nm), o, a + Len(i))
                       /\ Sent(u, src[k], type, nm, a + Len(i) + Len(o))
    BY <2>1
  <2> QED BY <1>1, <2>1, <2>2, <2>3
<1>3. Along(Requests(F, type, nm), o, m)
  <2>1. CASE cl[u].first
    BY <1>2, <2>1
  <2>2. CASE ~cl[u].first
    <3>1. k \in put
      BY <1>1, <2>2 DEF Reply
    <3> QED BY <1>2, <3>1, AlongAfter
  <2> QED BY <2>1, <2>2
<1>4. PICK mm \in Nat :
        /\ mm = a + Len(ii) /\ mm + Len(oo) = m + Len(o) /\ m <= mm
        /\ Along(Requests(F, type, nm), ii, a) /\ Along(Requests(F, type, nm), oo, mm)
  <2>1. PICK R : R = Requests(F, type, nm)
    OBVIOUS
  <2>2. Split(R, a, i, o, ii, oo)
    BY <1>2, <1>3, <2>1 DEF Split
  <2>3. /\ Along(R, ii, a) /\ Along(R, oo, a + Len(ii))
        /\ a + Len(ii) + Len(oo) = a + Len(i) + Len(o)
        /\ a + Len(i) \in Nat /\ a + Len(ii) \in Nat /\ a + Len(i) <= a + Len(ii)
    <3>1. /\ i \in Seq(Unit) /\ o \in Seq(Unit) /\ ii \in Seq(Unit) /\ oo \in Seq(Unit)
          /\ a \in Nat
      OBVIOUS
    <3> QED BY ONLY <2>2, <3>1, RequestSplit
  <2> QED BY <1>2, <2>1, <2>3
<1>5. k \in put => type = MSG_PUT /\ Whole(F, mm)
  BY <1>2, <1>4, WholeStays
<1>6. PICK z \in Nat : z = mm + Len(oo) /\ (cl[u].first => Sent(u, F, type, nm, z))
  <2>1. mm + Len(oo) \in Nat
    <3>1. Len(oo) \in Nat
      BY LenProperties
    <3> QED BY <3>1
  <2> QED BY <1>2, <1>4, <2>1
<1>7. Begun(k, type, nm, a)'
  BY <1>2 DEF Begun
<1>8. ASSUME NEW v \in User, cl'[v].conn = k, Live(v)', cl'[v].first
      PROVE  io'[Client(v)].out = oo /\ Sent(v, F, type, nm, z)'
  <2>1. v = u /\ cl[u].first
    BY <1>1, <1>8
  <2>2. Sent(u, F, type, nm, z)
    BY <1>6, <2>1
  <2>3. Sent(u, F, type, nm, z)'
    BY <2>2 DEF Sent
  <2> QED BY <2>1, <2>3
<1>9. src'[k] = F /\ Incoming(k)' = ii /\ mm = a + Len(ii)
  BY <1>2, <1>4
<1>10. /\ Begun(k, type, nm, a)' /\ Along(Requests(src'[k], type, nm), Incoming(k)', a)
       /\ k \in put' => type = MSG_PUT /\ Whole(src'[k], a + Len(Incoming(k)'))
  BY <1>4, <1>5, <1>7, <1>9
<1>11. ASSUME NEW v \in User, cl'[v].conn = k, Live(v)', cl'[v].first
       PROVE  /\ Along(Requests(src'[k], type, nm), io'[Client(v)].out, a + Len(Incoming(k)'))
              /\ Sent(v, src[k], type, nm, a + Len(Incoming(k)) + Len(io[Client(v)].out))'
  <2>1. io'[Client(v)].out = oo /\ Sent(v, F, type, nm, z)'
    BY <1>8, <1>11
  <2>2. Along(Requests(src'[k], type, nm), io'[Client(v)].out, a + Len(Incoming(k)'))
    BY <1>4, <1>9, <2>1
  <2>4. src'[k] = F /\ a + Len(Incoming(k)') + Len(io'[Client(v)].out) = z
    BY <1>6, <1>9, <2>1
  <2>5. Sent(v, src[k], type, nm, a + Len(Incoming(k)) + Len(io[Client(v)].out))'
    BY <2>1, <2>4 DEF Sent
  <2> QED BY <2>2, <2>5
<1> QED BY <1>10, <1>11 DEF Request


\* Client u sends.
LEMMA ClientSends ==
  ASSUME Inv, NEW u \in User, NEW k \in Conn, cl[u].conn = k, SendSome(Client(u), k, "client"),
         UNCHANGED <<cl, srv, store, src, shared, put>>
  PROVE  Inv'
<1> DEFINE p == Client(u)
<1>1. /\ StreamTypeOK(Thread, Unit) /\ ClientCalls(u) /\ ClientLink(u) /\ Reply(u)
      /\ p \in Thread /\ io[p] \in Call /\ "server" = Peer("client") /\ "client" \in Side
      /\ "server" \in Side
  BY Seen, Sides
<1>0. SentOver(p, k, "client", "server")
  BY <1>1, Sends
<1>2. /\ StreamTypeOK(Thread, Unit)' /\ UNCHANGED open
      /\ Only(p) /\ Touch(k, "client")
      /\ io[p].out # <<>> /\ open[k]["client"] /\ k \notin reset
      /\ io'[p].rc = io[p].rc /\ io'[p].want = io[p].want /\ io'[p].got = io[p].got
      /\ \/ open[k]["server"] /\ reset' = reset /\ wire'[k]["client"] # <<>>
         \/ ~open[k]["server"] /\ reset' = reset \union {k} /\ wire' = wire
  BY <1>0, Zenon DEF SentOver
<1>3. ~Returned(p)
  BY <1>2 DEF Returned
<1>4. /\ Live(u) /\ cl[u].at \notin {"new", "gone", "failed", "prompt"}
      /\ ClientAsks(u) = 0 /\ io[p].want = 0 /\ io[p].got = <<>>
  BY <1>2, <1>3, ClientCalling
<1>5. /\ ServerLink(k) /\ io[Server(k)].got \in Seq(Unit)
      /\ wire[k]["client"] \in Seq(Unit) /\ wire[k]["server"] \in Seq(Unit)
  BY Served
<1>6. io'[Server(k)] = io[Server(k)] /\ wire'[k]["server"] = wire[k]["server"]
  BY <1>1, <1>2, Threads, Sides DEF Only, Touch
<1>7. ClientCalls(u)'
  <2>1. io[p].rc = 0
    BY <1>4 DEF Live
  <2>2. io'[p].rc = 0 /\ io'[p].want = 0 /\ io'[p].got = <<>>
    BY <1>2, <1>4, <2>1
  <2>5. ~Failed(p)'
    BY <2>2 DEF Failed
  <2>3. ClientAsks(u)' = 0
    BY <1>4 DEF ClientAsks
  <2>4. Asked(p, ClientAsks(u))'
    BY <2>2, <2>3 DEF Asked
  <2> QED BY <1>1, <1>4, <2>2, <2>4, <2>5 DEF ClientCalls
<1>8. Outgoing(u, k)' = Outgoing(u, k)
  BY <1>2, <1>6 DEF Outgoing
<1>9. Reply(u)'
  BY <1>1, <1>2, <1>4, <1>6, <1>8, ReplyGoesOn
<1>10. ~Free(k)'
  BY <1>2, Sides DEF Free
<1>11. CASE open[k]["server"]
  <2>1. /\ reset' = reset
        /\ \A g \in Seq(Unit) :
             (g \o wire'[k]["client"]) \o io'[p].out = (g \o wire[k]["client"]) \o io[p].out
    BY <1>0, <1>11, Zenon DEF SentOver
  <2>2. ServerLink(k)'
    BY <1>2, <1>5, <1>6, <1>10, <1>11 DEF ServerLink
  <2>3. PICK i \in Seq(Unit), o \in Seq(Unit), ii \in Seq(Unit), oo \in Seq(Unit) :
          /\ i = Incoming(k) /\ ii = Incoming(k)' /\ o = io[p].out /\ oo = io'[p].out
          /\ ii \o oo = i \o o /\ Len(oo) <= Len(o)
    <3>1. io[p].out \in Seq(Unit) /\ io'[p].out \in Seq(Unit) /\ wire'[k]["client"] \in Seq(Unit)
      <4>1. io'[p] \in Call /\ wire' \in [Conn -> [Side -> Seq(Unit)]]
        BY <1>1, <1>2 DEF StreamTypeOK, Call
      <4> QED BY <1>1, <4>1 DEF Call
    <3>2. Len(io'[p].out) <= Len(io[p].out)
      BY <1>1, SendsPart
    <3>3. Incoming(k) \in Seq(Unit) /\ Incoming(k)' \in Seq(Unit)
      BY <1>5, <1>6, <3>1, Concat DEF Incoming
    <3>4. Incoming(k)' \o io'[p].out = Incoming(k) \o io[p].out
      BY <1>5, <1>6, <2>1 DEF Incoming
    <3> QED BY <3>1, <3>2, <3>3, <3>4
  <2>4. Request(k)'
    BY <1>2, <1>4, <2>3, RequestSends
  <2> QED BY <1>1, <1>2, <1>4, <1>7, <1>9, <1>11, <2>2, <2>4, ClientCallMoves
<1>12. CASE ~open[k]["server"]
  <2>1. reset' = reset \union {k} /\ wire' = wire
    BY <1>2, <1>12
  <2>2. srv[k].at \notin Early \union Reading
    BY <1>2, <1>5, <1>12 DEF ServerLink, Early, Reading
  <2>3. ServerLink(k)'
    BY <1>2, <1>5, <1>10, <2>1, <2>2 DEF ServerLink
  <2>4. Request(k)'
    BY <2>2 DEF Request
  <2> QED BY <1>1, <1>2, <1>4, <1>7, <1>9, <2>1, <2>3, <2>4, ClientCallMoves
<1> QED BY <1>11, <1>12

\* Client u receives.
LEMMA ClientReceives ==
  ASSUME Inv, NEW u \in User, NEW k \in Conn, cl[u].conn = k, RecvSome(Client(u), k, "client"),
         UNCHANGED <<cl, srv, store, src, shared, put>>
  PROVE  Inv'
<1> DEFINE p == Client(u)
<1>1. /\ StreamTypeOK(Thread, Unit) /\ ClientCalls(u) /\ ClientLink(u) /\ Reply(u)
      /\ p \in Thread /\ io[p] \in Call /\ "server" = Peer("client") /\ "client" \in Side
      /\ "server" \in Side
  BY Seen, Sides
<1>2. /\ StreamTypeOK(Thread, Unit)' /\ UNCHANGED <<open, reset>>
      /\ Only(p) /\ Touch(k, "server")
      /\ io[p].want > 0 /\ open[k]["client"]
      /\ io'[p].rc = io[p].rc /\ io'[p].out = io[p].out
      /\ io'[p].want + Len(io'[p].got) = io[p].want + Len(io[p].got)
      /\ io'[p].got \o wire'[k]["server"] = io[p].got \o wire[k]["server"]
      /\ wire[k]["server"] # <<>> /\ io'[p].got # <<>>
  <2>1. RecvSome(p, k, "client") /\ k \in Conn
    OBVIOUS
  <2> HIDE DEF p
  <2>2. /\ StreamTypeOK(Thread, Unit) /\ p \in Thread /\ "client" \in Side /\ "server" \in Side
        /\ "server" = Peer("client")
    BY <1>1
  <2> QED BY ONLY <2>1, <2>2, Receives
<1>3. ~Returned(p)
  <2>0. io[p].want > 0
    BY <1>2
  <2>1. io[p].want # 0
    BY ONLY <2>0
  <2> QED BY <2>1 DEF Returned
<1>4. /\ Live(u) /\ cl[u].at \notin {"new", "gone", "failed", "prompt"}
      /\ io[p].out = <<>> /\ ClientAsks(u) \in Nat \ {0}
      /\ io[p].want = ClientAsks(u) - Len(io[p].got)
  BY <1>2, <1>3, ClientCalling
<1>5. ServerLink(k) /\ srv[k].at \notin Early
  BY <1>2, Served DEF ServerLink
<1>6. io'[Server(k)] = io[Server(k)] /\ wire'[k]["client"] = wire[k]["client"]
  BY <1>1, <1>2, Threads, Sides DEF Only, Touch
<1>7. ClientCalls(u)'
  <2>1. PICK g \in Nat, w \in Nat, gg \in Nat, ww \in Nat :
          /\ g = Len(io[p].got) /\ w = io[p].want /\ gg = Len(io'[p].got) /\ ww = io'[p].want
    <3>1. io'[p] \in Call
      BY <1>1, <1>2 DEF StreamTypeOK, Call
    <3> QED BY <1>1, <3>1, LenProperties DEF Call
  <2>2. ww = ClientAsks(u) - gg
    <3>1. ww + gg = w + g
      BY <1>2, <2>1
    <3>2. w = ClientAsks(u) - g
      BY <1>4, <2>1
    <3> QED BY <1>4, <3>1, <3>2
  <2>3. io[p].rc = 0
    BY <1>4 DEF Live
  <2>7. io'[p].rc = 0
    BY <1>2, <2>3
  <2>4. ClientAsks(u)' = ClientAsks(u) /\ ~Failed(p)' /\ io'[p].rc = 0
    BY <2>7 DEF ClientAsks, Failed
  <2>5. Asked(p, ClientAsks(u))'
    BY <1>2, <1>4, <2>1, <2>2, <2>4 DEF Asked
  <2>6. ClientAsks(u)' # 0
    BY <1>4, <2>4
  <2> QED BY <1>1, <1>4, <2>4, <2>5, <2>6 DEF ClientCalls
<1>8. Outgoing(u, k)' = Outgoing(u, k)
  BY <1>2, <1>6 DEF Outgoing
<1>9. Reply(u)'
  BY <1>1, <1>2, <1>4, <1>5, <1>6, <1>8, ReplyGoesOn
<1>10. Request(k)'
  BY <1>5 DEF Request
<1>11. ServerLink(k)'
  <2>1. ~Free(k)'
    BY <1>2, Sides DEF Free
  <2> QED BY <1>2, <1>5, <2>1 DEF ServerLink
<1> QED BY <1>1, <1>2, <1>4, <1>7, <1>9, <1>10, <1>11, ClientCallMoves

\* A call of client u fails.
LEMMA ClientFails ==
  ASSUME Inv, NEW u \in User, NEW k \in Conn, cl[u].conn = k,
         SendFails(Client(u), k, "client") \/ RecvFails(Client(u), k, "client"),
         UNCHANGED <<cl, srv, store, src, shared, put>>
  PROVE  Inv'
<1> DEFINE p == Client(u)
<1>1. /\ TypeOK /\ StreamTypeOK(Thread, Unit) /\ ClientCalls(u) /\ ClientLink(u) /\ ClientFile(u)
      /\ p \in Thread /\ io \in [Thread -> Call] /\ cl[u] \in CRecord
  BY Seen
<1>2. Fail(p)
  BY DEF SendFails, RecvFails
<1>3. /\ StreamTypeOK(Thread, Unit)' /\ UNCHANGED <<wire, open, reset>> /\ Only(p)
      /\ io'[p].rc = -1 /\ ~Returned(p)
  BY <1>1, <1>2, FailsCall
<1>4. io'[p] = [NoCall EXCEPT !.rc = -1]
  BY <1>1, <1>2 DEF Fail
<1>5. cl[u].at \notin {"new", "gone", "failed", "prompt"}
  BY <1>3, ClientCalling
<1>6. ~Live(u)'
  BY <1>3 DEF Live
<1>7. ClientCalls(u)'
  BY <1>1, <1>4, <1>5, <1>6 DEF ClientCalls
<1>8. Reply(u)' /\ ClientFile(u)'
  BY <1>6 DEF Reply, ClientFile
<1>9. Within(u, k)
  <2>1. io' \in [Thread -> Call]
    BY <1>3 DEF StreamTypeOK, Call
  <2>2. cl' \in [User -> CRecord] /\ cl'[u].conn = k /\ \A v \in User \ {u} : cl'[v] = cl[v]
    BY Seen
  <2> QED BY <1>3, <1>5, <2>1, <2>2 DEF Within
<1>10. Request(k)'
  BY <1>6, <1>9, WithinRequest
<1> QED BY <1>7, <1>8, <1>9, <1>10, WithinKeeps

\* Every step of a client.
LEMMA ClientTransferKeeps ==
  ASSUME Inv, NEW u \in User, ClientTransfer(u)
  PROVE  Inv'
<1>1. /\ cl[u].conn # 0 /\ Transfer(Client(u), cl[u].conn, "client")
      /\ UNCHANGED <<cl, srv, store, src, shared, put>>
  BY DEF ClientTransfer, history
<1>2. PICK k \in Conn : k = cl[u].conn
  BY <1>1, Seen DEF CRecord
<1>3. \/ SendSome(Client(u), k, "client") \/ RecvSome(Client(u), k, "client")
      \/ SendFails(Client(u), k, "client") \/ RecvFails(Client(u), k, "client")
  BY <1>1, <1>2 DEF Transfer
<1> QED BY <1>1, <1>2, <1>3, ClientSends, ClientReceives, ClientFails

\* A step of a client, of its user or of its thread.
LEMMA ClientStepKeeps ==
  ASSUME Inv, NEW u \in User, CommandStep(u) \/ UserStep(u)
  PROVE  Inv'
<1>1. CASE SendName(u) \/ PutOpen(u) \/ PutChunkLength(u) \/ PutChunk(u) \/ PutReturns(u)
  BY <1>1, SendNameKeeps, PutOpenKeeps, PutChunkLengthKeeps, PutChunkKeeps, PutReturnsKeeps
<1>2. CASE GetFileProt(u) \/ GetFileName(u) \/ GetOpen(u) \/ GetWrite(u)
  BY <1>2, GetFileProtKeeps, GetFileNameKeeps, GetFileKeeps
<1>3. CASE PutNoName(u) \/ LocalError(u) \/ CallFails(u) \/ Reconnect(u) \/ Kill(u)
  BY <1>3, FailsKeep, LeaveKeeps
<1>4. CASE Connect(u) \/ ClientTransfer(u) \/ \E nm \in Name : Put(u, nm) \/ Get(u, nm)
  BY <1>4, ConnectKeeps, ClientTransferKeeps, CommandKeeps
<1> QED BY <1>1, <1>2, <1>3, <1>4 DEF CommandStep, UserStep

\* Every step keeps the invariant.
LEMMA NextKeeps ==
  ASSUME Inv, Next
  PROVE  Inv'
  BY ClientStepKeeps, ServerStepKeeps DEF Next

\* A step that changes nothing keeps it.
LEMMA StutterKeeps ==
  ASSUME Inv, UNCHANGED vars
  PROVE  Inv'
<1>1. UNCHANGED <<wire, open, reset, io, cl, srv, store, src, shared, put>>
  BY DEF vars, streamVars, history
<1>2. TypeOK'
  BY <1>1 DEF Inv, TypeOK, StreamTypeOK
<1>3. ASSUME NEW k \in Conn
      PROVE  (ServerCalls(k) /\ ServerLink(k) /\ Request(k) /\ ServerFile(k))'
  <2>1. ServerCalls(k) /\ ServerLink(k) /\ Request(k) /\ ServerFile(k)
    BY DEF Inv
  <2>2. ServerCalls(k)'
    BY <1>1, <2>1 DEF ServerCalls, ServerAsks, Asked, Failed
  <2>3. ServerLink(k)'
    BY <1>1, <2>1 DEF ServerLink, Free
  <2>4. Request(k)'
    BY <1>1, <2>1, StillRequest DEF Live
  <2>5. ServerFile(k)'
    BY <1>1, <2>1 DEF ServerFile
  <2> QED BY <2>2, <2>3, <2>4, <2>5
<1>4. ASSUME NEW u \in User
      PROVE  (ClientCalls(u) /\ ClientLink(u) /\ Reply(u) /\ ClientFile(u))'
  <2>1. ClientCalls(u) /\ ClientLink(u) /\ Reply(u) /\ ClientFile(u)
    BY DEF Inv
  <2>2. ClientCalls(u)'
    BY <1>1, <2>1 DEF ClientCalls, ClientAsks, Asked, Failed, Returned, Live
  <2>3. ClientLink(u)'
    BY <1>1, <2>1 DEF ClientLink, Free
  <2>4. Reply(u)'
    BY <1>1, <2>1 DEF Reply, Live, Taken, Given, Outgoing
  <2>5. ClientFile(u)'
    BY <1>1, <2>1 DEF ClientFile, Live
  <2> QED BY <2>2, <2>3, <2>4, <2>5
<1>5. ASSUME NEW j \in Conn, NEW k \in Conn PROVE Clash(j, k)'
  BY <1>1 DEF Inv, Clash
<1> QED BY <1>2, <1>3, <1>4, <1>5 DEF Inv

\* Nobody is connected yet.
LEMMA InitKeeps ==
  ASSUME Init
  PROVE  Inv
<1>1. /\ wire = [c \in Conn |-> [s \in Side |-> <<>>]]
      /\ open = [c \in Conn |-> [s \in Side |-> FALSE]] /\ reset = {}
      /\ io = [p \in Thread |-> NoCall] /\ src = [k \in Conn |-> Unopened]
      /\ shared = {} /\ put = {}
      /\ srv = [k \in Conn |-> [at |-> "none", name |-> 0, left |-> 0, off |-> 0]]
  BY DEF Init, StreamInit
<1>2. cl = [u \in User |-> [at |-> "new", conn |-> 0, first |-> TRUE, name |-> 0, left |-> 0,
                            file |-> NoFile]]
  BY DEF Init
<1>3. \A k \in Conn : /\ srv[k] \in Record /\ srv[k].at = "none" /\ srv[k].off = 0
                      /\ io[Server(k)] = NoCall /\ src[k] = Unopened
                      /\ wire[k]["client"] = <<>> /\ wire[k]["server"] = <<>>
                      /\ ~open[k]["client"] /\ ~open[k]["server"]
  BY <1>1, Threads, Sides DEF Record, ServerAt
<1>4. <<>> \in Seq(Unit) /\ NoFile \in File /\ Unopened \in File
  BY EmptySeq DEF NoFile, File, Unopened
<1>5. \A u \in User : /\ cl[u] \in CRecord /\ cl[u].at = "new" /\ cl[u].conn = 0
                      /\ io[Client(u)] = NoCall
  BY <1>1, <1>2, <1>4, Threads DEF CRecord, ClientAt
<1>6. TypeOK
  <2>1. StreamTypeOK(Thread, Unit)
    <3>1. wire \in [Conn -> [Side -> Seq(Unit)]] /\ open \in [Conn -> [Side -> BOOLEAN]]
          /\ reset \subseteq Conn
      BY <1>1, <1>4
    <3>2. io \in [Thread -> Call]
      BY <1>1, NoCalls
    <3> QED BY <3>1, <3>2 DEF StreamTypeOK, Call
  <2>2. cl \in [User -> CRecord] /\ srv \in [Conn -> Record]
    BY <1>1, <1>2, <1>3, <1>5
  <2>3. PICK S \in SUBSET Name : store = [nm \in S |-> OldFile]
    BY DEF Init
  <2>4. DOMAIN store \subseteq Name /\ \A nm \in DOMAIN store : store[nm] \in File
    BY <2>3 DEF OldFile, File
  <2>5. src \in [Conn -> File] /\ {shared, put} \subseteq SUBSET Conn
    BY <1>1, <1>4
  <2> QED BY <2>1, <2>2, <2>4, <2>5 DEF TypeOK, CRecord, Record
<1>7. ASSUME NEW k \in Conn
      PROVE  ServerCalls(k) /\ ServerLink(k) /\ Request(k) /\ ServerFile(k)
  <2>1. /\ srv[k].at = "none" /\ srv[k].off = 0 /\ io[Server(k)] = NoCall /\ src[k] = Unopened
        /\ wire[k]["client"] = <<>> /\ wire[k]["server"] = <<>>
        /\ ~open[k]["client"] /\ ~open[k]["server"]
    BY <1>3
  <2>2. ServerCalls(k)
    <3>1. ServerAsks(k) = 0
      BY <2>1 DEF ServerAsks
    <3> QED BY <2>1, <3>1, NoCalls DEF ServerCalls, Asked, Failed, Reading
  <2>3. ServerLink(k)
    BY <1>1, <2>1 DEF ServerLink, Free, Reading
  <2>4. Request(k)
    BY <2>1 DEF Request
  <2>5. ServerFile(k)
    BY <1>1, <2>1 DEF ServerFile, Early, Reading, Writing
  <2> QED BY <2>2, <2>3, <2>4, <2>5
<1>8. ASSUME NEW u \in User
      PROVE  ClientCalls(u) /\ ClientLink(u) /\ Reply(u) /\ ClientFile(u)
  <2>1. /\ cl[u].at = "new" /\ cl[u].conn = 0 /\ io[Client(u)] = NoCall /\ ~Live(u)
    BY <1>5 DEF Live
  <2>2. ClientCalls(u)
    BY <2>1, NoCalls DEF ClientCalls, Failed
  <2>3. ClientLink(u)
    BY <2>1, <1>5 DEF ClientLink
  <2> QED BY <2>1, <2>2, <2>3 DEF Reply, ClientFile
<1>9. ASSUME NEW j \in Conn, NEW k \in Conn PROVE Clash(j, k)
  BY <1>3 DEF Clash, Writing
<1> QED BY <1>6, <1>7, <1>8, <1>9 DEF Inv

(***************************************************************************)
(* What the invariant says of the runs' properties.                        *)
(***************************************************************************)
\* The kinds of one unit, and of two.
LEMMA KindsOf ==
  ASSUME NEW p, NEW g \in Seq(Unit), g = io[p].got
  PROVE  /\ \A x : Len(g) = 1 /\ g[1][1] = x => Kinds(p) = <<x>>
         /\ \A x, y : Len(g) = 2 /\ g[1][1] = x /\ g[2][1] = y => Kinds(p) = <<x, y>>
         /\ \A i \in DOMAIN io[p].got : Kinds(p)[i] = g[i][1]
         /\ DOMAIN io[p].got = 1 .. Len(g)
<1>1. Kinds(p) = [i \in 1 .. Len(g) |-> g[i][1]] /\ DOMAIN io[p].got = 1 .. Len(g)
  BY LenProperties DEF Kinds
<1>2. ASSUME NEW x, Len(g) = 1, g[1][1] = x PROVE Kinds(p) = <<x>>
  <2>1. Kinds(p) = [i \in 1 .. 1 |-> g[i][1]]
    BY <1>1, <1>2
  <2> QED BY <1>2, <2>1
<1>3. ASSUME NEW x, NEW y, Len(g) = 2, g[1][1] = x, g[2][1] = y PROVE Kinds(p) = <<x, y>>
  <2>1. Kinds(p) = [i \in 1 .. 2 |-> g[i][1]]
    BY <1>1, <1>3
  <2> QED BY <1>3, <2>1
<1>4. \A i \in 1 .. Len(g) : Kinds(p)[i] = g[i][1]
  BY <1>1
<1> QED BY <1>1, <1>2, <1>3, <1>4

\* What thread k has received, at its place in the request.
LEMMA ServerInFrame ==
  ASSUME Inv, NEW k \in Conn, Succeeded(Server(k)), srv[k].at \in Early \ {"none"}
  PROVE  CASE srv[k].at = "prot" -> Kinds(Server(k)) = <<"type", "length">>
           [] srv[k].at \in {"get_url", "put_name"} -> Kinds(Server(k)) = <<"name">>
           [] srv[k].at = "put_prot" -> Kinds(Server(k)) = <<"name_length", "file_length">>
           [] srv[k].at = "put_length" -> Kinds(Server(k)) = <<"chunk_length">>
           [] OTHER -> \A i \in DOMAIN io[Server(k)].got : Kinds(Server(k))[i] = "data"
<1>1. PICK g \in Seq(Unit), type \in {MSG_PUT, MSG_GET}, nm \in Nat, a \in Nat, F \in File :
        /\ g = io[Server(k)].got /\ F = src[k] /\ Len(g) = ServerAsks(k) /\ Begun(k, type, nm, a)
        /\ Along(Requests(F, type, nm), g, a)
  <2>1. src[k] \in File
    BY Served
  <2> QED BY <2>1, HasRead
<1>2. type \in Nat
  BY DEF MSG_PUT, MSG_GET
<1>3. CASE srv[k].at = "prot"
  <2>1. a = 0 /\ Len(g) = 2
    BY <1>1, <1>3 DEF Begun, ServerAsks
  <2>2. ASSUME NEW i \in {1, 2} PROVE g[i] = Prot(type)[i]
    <3>1. i \in 1 .. Len(g) /\ 0 + i = i
      BY <2>1
    <3>2. Requested(F, type, nm, i, g[i])
      BY <1>1, <2>1, <3>1, ComesNext
    <3> QED BY <3>2 DEF Requested
  <2>3. g[1] = <<"type", type>> /\ g[2] = <<"length", 1>>
    BY <1>2, <2>2, Units
  <2>4. Kinds(Server(k)) = <<"type", "length">>
    BY <1>1, <2>1, <2>3, KindsOf
  <2> QED BY <1>3, <2>4
<1>4. CASE srv[k].at \in {"get_url", "put_name"}
  <2>1. a = 2 /\ Len(g) = 1
    BY <1>1, <1>4 DEF Begun, ServerAsks
  <2>2. g[1] = NameUnit(nm)[1]
    <3>1. 1 \in 1 .. Len(g) /\ 2 + 1 = 3
      BY <2>1
    <3>2. Requested(F, type, nm, 3, g[1])
      BY <1>1, <2>1, <3>1, ComesNext
    <3> QED BY <3>2 DEF Requested
  <2>3. g[1] = <<"name", nm>>
    BY <2>2, Units
  <2>4. Kinds(Server(k)) = <<"name">>
    BY <1>1, <2>1, <2>3, KindsOf
  <2> QED BY <1>4, <2>4
<1>5. CASE srv[k].at = "put_prot"
  <2>1. a = 3 /\ type = MSG_PUT /\ Len(g) = 2
    BY <1>1, <1>5 DEF Begun, ServerAsks
  <2>2. ASSUME NEW i \in {1, 2} PROVE g[i] = FileProt(Len(F))[i]
    <3>1. i \in 1 .. Len(g) /\ 3 + i \in {4, 5} /\ 3 + i - 3 = i
      BY <2>1
    <3>2. Requested(F, type, nm, 3 + i, g[i])
      BY <1>1, <2>1, <3>1, ComesNext
    <3> QED BY <2>1, <3>1, <3>2 DEF Requested
  <2>3. Len(F) \in Nat
    BY LenProperties DEF File
  <2>4. g[1] = <<"name_length", 1>> /\ g[2] = <<"file_length", Len(F)>>
    BY <2>2, <2>3, Units
  <2>5. Kinds(Server(k)) = <<"name_length", "file_length">>
    BY <1>1, <2>1, <2>4, KindsOf
  <2> QED BY <1>5, <2>5
<1>6. CASE srv[k].at = "put_length"
  <2>1. PICK j \in Nat : srv[k].off = Block(j) /\ type = MSG_PUT /\ a = 5 + Block(j) + j
    BY <1>1, <1>6 DEF Begun
  <2>2. Len(g) = 1
    BY <1>1, <1>6 DEF ServerAsks
  <2>3. PICK l \in Nat, o \in Nat, n \in Nat :
          l = srv[k].left /\ o = Block(j) /\ n = Len(F) /\ o + l = n /\ l > 0
    <3>1. srv[k].off + srv[k].left = Len(src[k]) /\ srv[k].left > 0
      BY <1>6, Served DEF ServerFile, Writing
    <3>2. srv[k].left \in Nat /\ Block(j) \in Nat /\ Len(F) \in Nat
      BY Served, Blocks, LenProperties DEF File
    <3> QED BY <1>1, <2>1, <3>1, <3>2
  <2>4. o < n /\ l = n - o
    BY <2>3
  <2>5. PICK c \in Nat : c = FileChunk(l) /\ c = FileChunk(Len(F) - Block(j))
    BY <2>3, <2>4, Chunks
  <2>6. g[1] = ChunkLength(c)[1]
    <3>1. 1 \in 1 .. Len(g) /\ Block(j) < Len(F)
      BY <2>2, <2>3, <2>4
    <3>2. Requested(F, type, nm, a + 1, g[1])
      BY <1>1, <3>1, ComesNext
    <3>3. a + 1 = 6 + Block(j) + j
      BY <2>1, <2>3
    <3> QED BY <2>1, <2>5, <3>1, <3>2, <3>3 DEF Requested
  <2>7. g[1] = <<"chunk_length", c>>
    BY <2>6, Units
  <2>8. Kinds(Server(k)) = <<"chunk_length">>
    BY <1>1, <2>2, <2>7, KindsOf
  <2> QED BY <1>6, <2>8
<1>7. CASE srv[k].at = "put_data"
  <2>1. \A i \in 1 .. Len(g) : g[i][1] = "data"
    BY <1>1, <1>7, ChunkRead
  <2>2. \A i \in DOMAIN io[Server(k)].got : Kinds(Server(k))[i] = "data"
    BY <1>1, <2>1, KindsOf
  <2> QED BY <1>7, <2>2
<1> QED BY <1>3, <1>4, <1>5, <1>6, <1>7 DEF Early

\* What client u has received, at its place in the reply.
LEMMA ClientInFrame ==
  ASSUME Inv, NEW u \in User, Succeeded(Client(u)),
         cl[u].at \in {"get_file", "get_file_name", "get_data"}
  PROVE  CASE cl[u].at = "get_file" -> Kinds(Client(u)) = <<"name_length", "file_length">>
           [] cl[u].at = "get_file_name" -> io[Client(u)].got = NameUnit(cl[u].name)
           [] OTHER -> \A i \in DOMAIN io[Client(u)].got : Kinds(Client(u))[i] = "data"
<1>1. CASE cl[u].at = "get_file"
  <2>1. PICK g \in Seq(Unit), l \in Nat :
          /\ g = io[Client(u)].got /\ Len(g) = 2
          /\ g[1] = <<"name_length", 1>> /\ g[2] = <<"file_length", l>>
    BY <1>1, HasProt
  <2>2. Kinds(Client(u)) = <<"name_length", "file_length">>
    BY <2>1, KindsOf
  <2> QED BY <1>1, <2>2
<1>2. CASE cl[u].at \in {"get_file_name", "get_data"}
  <2>1. PICK k \in Conn, F \in File, g \in Seq(Unit), t \in Nat :
           /\ g = io[Client(u)].got /\ t = Taken(u)
           /\ Along(Replies(k, shared, F, cl[u].name), g, t)
           /\ ClientAsks(u) # 0 => Len(g) = ClientAsks(u)
    BY <1>2, Has
  <2>2. ASSUME NEW i \in 1 .. Len(g)
        PROVE  Replied(k, shared, F, cl[u].name, t + i, g[i]) /\ t + i \in Nat
    <3>1. g[i] \in Replies(k, shared, F, cl[u].name)[t + i] /\ t + i \in Nat
      BY <2>1 DEF Along
    <3> QED BY <3>1, ReplyIs
  <2>3. CASE cl[u].at = "get_file_name"
    <3>1. t = 2 /\ Len(g) = 1
      BY <2>1, <2>3 DEF Taken, ClientAsks
    <3>2. g[1] = NameUnit(cl[u].name)[1]
      <4>1. 1 \in 1 .. Len(g) /\ 2 + 1 = 3
        BY <3>1
      <4>2. Replied(k, shared, F, cl[u].name, 3, g[1])
        BY <2>2, <3>1, <4>1
      <4> QED BY <4>2 DEF Replied
    <3>3. g = NameUnit(cl[u].name)
      <4>1. cl[u].name \in Nat
        BY Seen DEF CRecord
      <4>2. NameUnit(cl[u].name) \in Seq(Unit) /\ Len(NameUnit(cl[u].name)) = 1
        BY <4>1, Units
      <4> QED BY <3>1, <3>2, <4>2, SeqEqual
    <3> QED BY <2>1, <2>3, <3>3
  <2>4. CASE cl[u].at = "get_data"
    <3>1. PICK n \in Nat : t = 3 + n
      <4>1. Len(cl[u].file) \in Nat
        BY Seen, LenProperties DEF CRecord, File
      <4> QED BY <2>1, <2>4, <4>1 DEF Taken
    <3>2. ASSUME NEW i \in 1 .. Len(g) PROVE g[i][1] = "data"
      <4>1. t + i > 3
        BY <3>1, LenProperties
      <4> QED BY <2>2, <4>1 DEF Replied
    <3>3. \A i \in DOMAIN io[Client(u)].got : Kinds(Client(u))[i] = "data"
      BY <2>1, <3>2, KindsOf
    <3> QED BY <2>4, <3>3
  <2> QED BY <1>2, <2>3, <2>4
<1> QED BY <1>1, <1>2

\* A successful Recv of either side returns what the stage asks for.
LEMMA FramesKept ==
  ASSUME Inv
  PROVE  InFrame
<1>1. ASSUME NEW k \in Conn, Succeeded(Server(k)),
             srv[k].at \in {"prot", "get_url", "put_name", "put_prot", "put_length", "put_data"}
      PROVE  srv[k].at \in Early \ {"none"}
  BY <1>1 DEF Early
<1> QED BY <1>1, ServerInFrame, ClientInFrame DEF InFrame

\* A put that returned 0 is with its thread until it is done.
LEMMA PutsKept ==
  ASSUME Inv
  PROVE  PutArrives
<1> SUFFICES ASSUME NEW k \in put, Failed(Server(k)) PROVE srv[k].at \in {"close", "ended"}
  BY DEF PutArrives
<1>1. k \in Conn
  BY DEF Inv, TypeOK
<1>2. ServerCalls(k) /\ srv[k].at \in ServerAt
  BY <1>1, Served
<1>3. srv[k].at \notin Early \union Reading \union {"leaked"}
  BY <1>2 DEF ServerCalls
<1>4. srv[k].at # "done"
  BY <1>2 DEF ServerCalls, Failed
<1> QED BY <1>2, <1>3, <1>4 DEF ServerAt, Early, Reading

\* Two sequences that agree at each place.
LEMMA SameFile ==
  ASSUME NEW f \in File, NEW F \in File, Len(f) = Len(F), \A i \in 1 .. Len(f) : f[i] = F[i]
  PROVE  f = F
  BY SeqEqual DEF File

\* A sequence is its own prefix of full length.
LEMMA WholeFile ==
  ASSUME NEW F \in File, NEW n, n = Len(F)
  PROVE  SubSeq(F, 1, n) = F
<1>1. PICK l \in Nat : l = Len(F)
  BY LenProperties DEF File
<1>2. /\ SubSeq(F, 1, l) \in File /\ Len(SubSeq(F, 1, l)) = l
      /\ \A i \in 1 .. l : SubSeq(F, 1, l)[i] = F[i]
  BY <1>1, Halves
<1>3. PICK f \in File : f = SubSeq(F, 1, l) /\ Len(f) = l /\ \A i \in 1 .. l : f[i] = F[i]
  BY <1>2
<1>4. f = F
  BY <1>1, <1>3, SameFile
<1> QED BY <1>1, <1>3, <1>4

\* A thread that has the last piece of a put has written it.
LEMMA PutsExact ==
  ASSUME Inv, NEW k \in Conn, PutOpenFile(k) \/ PutDataReceived(k), srv'[k].at = "done",
         k \notin shared'
  PROVE  store'[srv[k].name] = src[k]
<1>1. PICK left \in Nat, off \in Nat : PutStep(k, left, off)
  BY PutOpens, PutWrites
<1>2. /\ PutMore(k, left, off) /\ off + left = Len(src[k]) /\ srv[k].at \in ServerAt
      /\ store'[srv[k].name] = SubSeq(src[k], 1, off)
  BY <1>1, Served DEF PutStep
<1>3. srv \in [Conn -> Record]
  BY Served DEF TypeOK, Record
<1>4. left = 0
  <2>1. ASSUME left > 0 PROVE srv'[k].at = "put_length"
    BY <1>2, <1>3, <2>1 DEF PutMore, Record
  <2> QED BY <2>1
<1>5. PICK F \in File : F = src[k] /\ off = Len(F)
  <2>1. off + 0 = off
    OBVIOUS
  <2> QED BY <1>2, <1>4, <2>1, Served
<1> QED BY <1>2, <1>5, WholeFile

\* A client whose get has returned has the file.
LEMMA GetsExact ==
  ASSUME Inv, NEW u \in User, GetOpen(u) \/ GetWrite(u), cl'[u].at = "prompt",
         cl[u].conn \notin shared
  PROVE  cl'[u].file = src[cl[u].conn]
<1>1. PICK k \in Conn, file \in File, left \in Nat : GetStep(u, k, file, left)
  <2>1. NoFile \in File
    BY EmptySeq DEF NoFile, File
  <2> QED BY <2>1, GetOpens, GetWrites
<1>2. /\ k = cl[u].conn /\ GetMore(u, file, left) /\ left + Len(file) = Len(src[k])
      /\ \A i \in 1 .. Len(file) : file[i] = src[k][i]
  BY <1>1 DEF GetStep
<1>3. cl \in [User -> CRecord]
  BY Seen
<1>4. left = 0
  <2>1. ASSUME left > 0 PROVE cl'[u].at = "get_data"
    BY <1>2, <1>3, <2>1 DEF GetMore, CRecord
  <2> QED BY <2>1
<1>5. cl'[u].file = file
  <2>1. ~(left > 0)
    BY <1>4
  <2> QED BY <1>2, <1>3, <2>1 DEF GetMore, CRecord
<1>6. PICK F \in File, n \in Nat : F = src[k] /\ n = Len(file) /\ n = Len(F)
  <2>1. Len(file) \in Nat
    BY LenProperties DEF File
  <2>2. 0 + Len(file) = Len(file)
    BY <2>1
  <2> QED BY <1>2, <1>4, <2>1, <2>2, Served, Zenon
<1>7. file = F
  BY <1>2, <1>6, SameFile
<1> QED BY <1>2, <1>5, <1>6, <1>7

\* The steps that matter to each part of CopyExact.
LEMMA PutDone ==
  ASSUME Inv, NEW k \in Conn, Next, srv[k].at \in {"put_prot", "put_data"}, srv'[k].at = "done"
  PROVE  PutOpenFile(k) \/ PutDataReceived(k)
<1>1. srv \in [Conn -> Record] /\ srv[k].at # "done"
  BY Served DEF TypeOK, Record
<1>2. ASSUME NEW u \in User, CommandStep(u) \/ UserStep(u) PROVE srv' = srv
  BY <1>2, Zenon DEF CommandStep, UserStep, SendName, PutOpen, PutChunkLength, PutChunk, PutReturns,
     GetFileProt, GetFileName, GetOpen, GetWrite, LocalError, CallFails, Reconnect, Kill, Leave,
     ClientTransfer, Connect, PutNoName, Put, Get, Command, serverSide
<1>3. PICK j \in Conn : ServerStep(j)
  BY <1>1, <1>2 DEF Next
<1>4. ASSUME j # k PROVE srv'[k] = srv[k]
  BY <1>1, <1>3, <1>4 DEF ServerStep, Accept, RunFails, ProtReceived, GetOpenFile, GetSendName,
     GetSendChunk, GetDone, PutNameReceived, PutOpenFile, PutLengthReceived, PutDataReceived,
     StoreError, SrvCallFails, EndThread, ServerTransfer, SrvGoto, PutMore
<1>5. ServerStep(k)
  BY <1>1, <1>3, <1>4
<1>6. ASSUME NEW at \in ServerAt \ {"done"}, SrvGoto(k, at) PROVE srv'[k].at # "done"
  BY <1>1, <1>6 DEF SrvGoto, Record
<1>7. CASE Accept(k) \/ RunFails(k) \/ StoreError(k) \/ SrvCallFails(k) \/ EndThread(k)
           \/ GetSendName(k) \/ PutLengthReceived(k)
  BY <1>6, <1>7 DEF Accept, RunFails, StoreError, SrvCallFails, EndThread, GetSendName,
     PutLengthReceived, ServerAt
<1>8. CASE ProtReceived(k) \/ GetOpenFile(k) \/ GetSendChunk(k) \/ GetDone(k)
           \/ PutNameReceived(k)
  BY <1>8 DEF ProtReceived, GetOpenFile, GetSendChunk, GetDone, PutNameReceived, SrvCalled
<1>9. CASE ServerTransfer(k)
  BY <1>1, <1>9 DEF ServerTransfer
<1> QED BY <1>5, <1>7, <1>8, <1>9 DEF ServerStep

\* A get that ends well ends when its last chunk, or none, was to be written.
LEMMA GetDoneByClient ==
  ASSUME Inv, NEW u \in User, Next, cl[u].at \in {"get_file_name", "get_data"},
         cl'[u].at = "prompt"
  PROVE  GetOpen(u) \/ GetWrite(u)
<1>1. cl \in [User -> CRecord] /\ cl[u].at # "prompt"
  BY Seen
<1>2. ASSUME NEW k \in Conn, ServerStep(k) PROVE cl' = cl
  BY <1>2, Zenon DEF ServerStep, Accept, RunFails, ProtReceived, GetOpenFile, GetSendName,
     GetSendChunk, GetDone, PutNameReceived, PutOpenFile, PutLengthReceived, PutDataReceived,
     StoreError, SrvCallFails, EndThread, ServerTransfer, clientSide
<1>3. PICK v \in User : CommandStep(v) \/ UserStep(v)
  BY <1>1, <1>2 DEF Next
<1>4. ASSUME v # u PROVE cl'[u] = cl[u]
  BY <1>1, <1>3, <1>4, Zenon DEF CommandStep, UserStep, SendName, PutOpen, PutChunkLength, PutChunk,
     PutReturns, GetFileProt, GetFileName, GetOpen, GetWrite, GetMore, LocalError, CallFails,
     Reconnect, Kill, Leave, ClientTransfer, Connect, PutNoName, Put, Get, Command, Goto
<1>5. CommandStep(u) \/ UserStep(u)
  BY <1>1, <1>3, <1>4
<1>6. ASSUME NEW at, at # "prompt", Goto(u, at) PROVE cl'[u].at # "prompt"
  BY <1>1, <1>6 DEF Goto, CRecord
<1>7. CASE LocalError(u) \/ CallFails(u) \/ PutNoName(u)
  BY <1>6, <1>7 DEF LocalError, CallFails, PutNoName
<1>8. CASE Reconnect(u) \/ Kill(u)
  BY <1>1, <1>8 DEF Reconnect, Kill, Leave, CRecord
<1>9. CASE ClientTransfer(u)
  BY <1>1, <1>9, SMTT(30) DEF ClientTransfer
<1>10. CASE SendName(u) \/ PutOpen(u) \/ PutChunkLength(u) \/ PutChunk(u) \/ PutReturns(u)
            \/ GetFileProt(u) \/ GetFileName(u) \/ Connect(u)
            \/ \E nm \in Name : Put(u, nm) \/ Get(u, nm)
  BY <1>10 DEF SendName, PutOpen, PutChunkLength, PutChunk, PutReturns, GetFileProt, GetFileName,
     Connect, Put, Get, Command, Called
<1> QED BY <1>5, <1>7, <1>8, <1>9, <1>10 DEF CommandStep, UserStep

\* A file of the server changes only in a step of a put that opened one.
LEMMA StoreChanges ==
  ASSUME Inv, Next, store' # store
  PROVE  \E k \in Conn : srv'[k] # srv[k] /\ src[k] # Unopened
<1>1. ASSUME NEW u \in User, CommandStep(u) \/ UserStep(u) PROVE store' = store
  BY <1>1, Zenon DEF CommandStep, UserStep, SendName, PutOpen, PutChunkLength, PutChunk, PutReturns,
     GetFileProt, GetFileName, GetOpen, GetWrite, LocalError, CallFails, Reconnect, Kill, Leave,
     ClientTransfer, Connect, PutNoName, Put, Get, Command, serverSide
<1>2. PICK k \in Conn : ServerStep(k)
  BY <1>1 DEF Next
<1>3. PutOpenFile(k) \/ PutDataReceived(k)
  BY <1>2 DEF ServerStep, Accept, RunFails, ProtReceived, GetOpenFile, GetSendName,
     GetSendChunk, GetDone, PutNameReceived, PutLengthReceived, StoreError, SrvCallFails,
     EndThread, ServerTransfer
<1>4. PICK left \in Nat, off \in Nat : PutStep(k, left, off)
  BY <1>3, PutOpens, PutWrites
<1>5. src[k] # Unopened /\ srv[k].at \in {"put_prot", "put_data"} /\ PutMore(k, left, off)
  BY <1>4 DEF PutStep
<1>6. srv'[k].at \in {"put_length", "done"}
  <2>1. srv \in [Conn -> Record]
    BY Served DEF TypeOK, Record
  <2> QED BY <1>5, <2>1 DEF PutMore, Record
<1>7. srv'[k] # srv[k]
  BY <1>5, <1>6
<1> QED BY <1>5, <1>7

\* A step that ends a transfer that no other disturbed leaves an exact copy.
LEMMA CopiesExact ==
  ASSUME Inv, Next
  PROVE  /\ \A k \in Conn : PutExact(k)
         /\ \A u \in User : GetExact(u)
         /\ ReplacedLate
<1>1. \A k \in Conn : PutExact(k)
  BY PutDone, PutsExact DEF PutExact
<1>2. \A u \in User : GetExact(u)
  BY GetDoneByClient, GetsExact DEF GetExact
<1>3. ReplacedLate
  BY StoreChanges DEF ReplacedLate
<1> QED BY <1>1, <1>2, <1>3

-------------------------------------------------------------------------------
\* The invariant holds of every behaviour.
THEOREM FileTransferInvariant == Spec => []Inv
<1>1. Init => Inv
  BY InitKeeps
<1>2. Inv /\ [Next]_vars => Inv'
  BY NextKeeps, StutterKeeps
<1> QED BY <1>1, <1>2, PTL DEF Spec

\* The type invariant, for any number of clients, connections, names and sizes.
THEOREM FileTransferTypeCorrect == Spec => []TypeOK
<1>1. Inv => TypeOK
  BY DEF Inv
<1> QED BY <1>1, FileTransferInvariant, PTL

\* Each call that receives something returns what the other side sent for it, however
\* the kernel splits the stream and whatever Window, BUFF_SIZE and FILE_BUFF_SIZE are.
THEOREM FileTransferInFrame == Spec => []InFrame
<1>1. Inv => InFrame
  BY FramesKept
<1> QED BY <1>1, FileTransferInvariant, PTL

\* What a put that returned 0 has sent reaches the server's thread, although the client
\* may be gone by then.
THEOREM FileTransferPutArrives == Spec => []PutArrives
<1>1. Inv => PutArrives
  BY PutsKept
<1> QED BY <1>1, FileTransferInvariant, PTL

\* A transfer that no other one disturbs copies the file, and a file of the server is
\* replaced only after the client has opened its own.
THEOREM FileTransferCopyExact == Spec => CopyExact
<1> DEFINE Exact == /\ \A k \in Conn : PutExact(k)
                    /\ \A u \in User : GetExact(u)
                    /\ ReplacedLate
<1>1. Inv /\ [Next]_vars => [Exact]_vars
  BY CopiesExact
<1> QED BY <1>1, FileTransferInvariant, PTL DEF Spec, CopyExact
===============================================================================
