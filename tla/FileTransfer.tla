------------------------------ MODULE FileTransfer -----------------------------
(***************************************************************************)
(* The TCP file transfer: test_socket_tcp_server/ accepts connections and  *)
(* handles one put or get message on each, in a thread of its own, before  *)
(* it closes it; test_socket_tcp_client/ reads commands, sends each over   *)
(* the connection it has, and connects again only when one has failed.     *)
(*                                                                         *)
(* An int, a name and a piece of a file are one unit each.  What a put     *)
(* encrypts (module Crypto) is sent in the clear here, so a chunk is as    *)
(* long as its text.  Lines of test_socket_tcp_server.cpp are marked s,    *)
(* those of test_socket_tcp_client.cpp c.                                  *)
(***************************************************************************)
EXTENDS SocketStream

CONSTANTS
    User,           \* the clients
    Name,           \* the names of the files
    FILE_BUFF_SIZE, \* the most pieces in a chunk of a file
    Sizes           \* BOUND: the sizes of the files that are sent

ASSUME FileAssumption ==
    /\ Conn \subseteq Nat \ {0} /\ User \subseteq Nat \ {0} /\ Name \subseteq Nat
    /\ FILE_BUFF_SIZE \in Nat \ {0} /\ Sizes \subseteq Nat

VARIABLES
    cl,     \* cl[u]: the client: at, where it is; conn, its connection; first, the
            \* command is the first one on it; name, the name in it; left, fileSize
            \* of a get; file, what a put has left to send or a get has written
    srv,    \* srv[k]: the thread of connection k: at, name, left (fileSize) and off,
            \* the position in its file
    store,  \* the files of the server
    src,    \* history: src[k], the file sent over connection k, as opened by its reader
    shared, \* history: the connections whose file was open twice at a time, and
            \* written at least once
    put     \* history: the connections whose first command was a put that returned 0

history == <<src, shared, put>>
vars == <<streamVars, cl, srv, store, history>>

Client(u) == <<"client", u>>
Server(k) == <<"server", k>>
Thread == ({"client"} \X User) \union ({"server"} \X Conn)

\* AppProtocol, FileProtocol and the int before each chunk of a put.  The name length
\* of a put's FileProtocol is not set, and not used.
MSG_PUT == 0
MSG_GET == 1
Prot(type) == << <<"type", type>>, <<"length", 1>> >>
FileProt(n) == << <<"name_length", 1>>, <<"file_length", n>> >>
NameUnit(nm) == << <<"name", nm>> >>
ChunkLength(n) == << <<"chunk_length", n>> >>
Data(f) == [i \in DOMAIN f |-> <<"data", f[i]>>]
Pieces(units) == [i \in DOMAIN units |-> units[i][2]]

\* The number in unit i of what p has received.
Received(p, i) == io[p].got[i][2]

FileChunk(n) == Min({n, FILE_BUFF_SIZE})

\* A file of a user, and the files of the server at the start.
UserFile(u, n) == [i \in 1 .. n |-> 10 * u + i]
OldFile == <<1, 2, 3>>

NoFile == <<>>
Unopened == <<0>>

Init ==
    /\ StreamInit(Thread)
    /\ cl = [u \in User |->
              [at |-> "new", conn |-> 0, first |-> TRUE, name |-> 0, left |-> 0,
               file |-> NoFile]]
    /\ srv = [k \in Conn |-> [at |-> "none", name |-> 0, left |-> 0, off |-> 0]]
    /\ \E S \in SUBSET Name : store = [nm \in S |-> OldFile]
    /\ src = [k \in Conn |-> Unopened] /\ shared = {} /\ put = {}

-------------------------------------------------------------------------------
(* The client. *)

\* Client u goes to `at'; the connection is its own.
Goto(u, at) == cl' = [cl EXCEPT ![u].at = at]

\* The call of u has returned 0 and it starts another.
Called(u, at) == cl[u].at = at /\ Succeeded(Client(u))

kernel == <<wire, open, reset>>
serverSide == <<srv, store, shared>>

Free(k) == srv[k].at = "none" /\ \A s \in Side : ~open[k][s]

\* c411-424.
Connect(u) ==
    /\ cl[u].at = "new" /\ \E k \in Conn : Free(k)
    /\ LET k == Min({j \in Conn : Free(j)}) IN
         /\ Establish(k)
         /\ cl' = [cl EXCEPT ![u].at = "prompt", ![u].conn = k, ![u].first = TRUE]
    /\ UNCHANGED <<io, serverSide, src, put>>

\* c426-434, c228-244 and c317-320: a command is read and its header sent.
Command(u, nm, type, at) ==
    /\ cl[u].at = "prompt"
    /\ BeginSend(Client(u), Prot(type))
    /\ cl' = [cl EXCEPT ![u].at = at, ![u].name = nm, ![u].file = NoFile]
    /\ UNCHANGED <<kernel, serverSide, src, put>>

Put(u, nm) == Command(u, nm, MSG_PUT, "put_prot")
Get(u, nm) == Command(u, nm, MSG_GET, "get_prot")

\* c230-235: a put without a file name fails before anything is sent.
PutNoName(u) ==
    /\ cl[u].at = "prompt" /\ Goto(u, "failed")
    /\ UNCHANGED <<streamVars, serverSide, src, put>>

\* c246-247 and c322-323.
SendName(u) ==
    /\ \/ Called(u, "put_prot") /\ Goto(u, "put_name")
       \/ Called(u, "get_prot") /\ Goto(u, "get_name")
    /\ BeginSend(Client(u), NameUnit(cl[u].name))
    /\ UNCHANGED <<kernel, serverSide, src, put>>

\* c250-265: the file is opened after its name was sent.
PutOpen(u) ==
    /\ Called(u, "put_name")
    /\ \E n \in Sizes :
         /\ BeginSend(Client(u), FileProt(n))
         /\ cl' = [cl EXCEPT ![u].at = "put_file", ![u].file = UserFile(u, n)]
         /\ src' = IF cl[u].first
                   THEN [src EXCEPT ![cl[u].conn] = UserFile(u, n)] ELSE src
    /\ UNCHANGED <<kernel, serverSide, put>>

\* Variant of PutChunkLength: the last chunk is announced as a full one.
PutFullLength(u) ==
    /\ Called(u, "put_file") \/ Called(u, "put_data")
    /\ cl[u].file # NoFile
    /\ BeginSend(Client(u), ChunkLength(FILE_BUFF_SIZE))
    /\ Goto(u, "put_length")
    /\ UNCHANGED <<kernel, serverSide, src, put>>

\* c273-287.
PutChunkLength(u) ==
    /\ Called(u, "put_file") \/ Called(u, "put_data")
    /\ cl[u].file # NoFile
    /\ BeginSend(Client(u), ChunkLength(FileChunk(Len(cl[u].file))))
    /\ Goto(u, "put_length")
    /\ UNCHANGED <<kernel, serverSide, src, put>>

\* c293-299.
PutChunk(u) ==
    LET n == FileChunk(Len(cl[u].file)) IN
    /\ Called(u, "put_length")
    /\ BeginSend(Client(u), Data(SubSeq(cl[u].file, 1, n)))
    /\ cl' = [cl EXCEPT ![u].at = "put_data", ![u].file = SubSeq(@, n + 1, Len(@))]
    /\ UNCHANGED <<kernel, serverSide, src, put>>

\* c302-304: the put returns 0; the server need not have read any of it.
PutReturns(u) ==
    /\ Called(u, "put_file") \/ Called(u, "put_data")
    /\ cl[u].file = NoFile
    /\ cl' = [cl EXCEPT ![u].at = "prompt", ![u].first = FALSE]
    /\ put' = IF cl[u].first THEN put \union {cl[u].conn} ELSE put
    /\ UNCHANGED <<streamVars, serverSide, src>>

\* c325.
GetFileProt(u) ==
    /\ Called(u, "get_name")
    /\ BeginRecv(Client(u), 2) /\ Goto(u, "get_file")
    /\ UNCHANGED <<kernel, serverSide, src, put>>

\* c327-333 and c348.
GetFileName(u) ==
    /\ Called(u, "get_file")
    /\ BeginRecv(Client(u), Received(Client(u), 1))
    /\ cl' = [cl EXCEPT ![u].at = "get_file_name", ![u].left = Received(Client(u), 2)]
    /\ UNCHANGED <<kernel, serverSide, src, put>>

\* c349-352 and c369-375: with `left' pieces to go and `file' written, the next chunk
\* is received, or the get returns 0.
GetMore(u, file, left) ==
    IF left > 0
    THEN /\ BeginRecv(Client(u), FileChunk(left))
         /\ cl' = [cl EXCEPT ![u].at = "get_data", ![u].left = left, ![u].file = file]
    ELSE /\ cl' = [cl EXCEPT ![u].at = "prompt", ![u].left = 0, ![u].file = file,
                             ![u].first = FALSE]
         /\ UNCHANGED io

\* c340-352: the local file is opened.
GetOpen(u) ==
    /\ Called(u, "get_file_name")
    /\ GetMore(u, NoFile, cl[u].left)
    /\ UNCHANGED <<kernel, serverSide, src, put>>

\* c359-366.
GetWrite(u) ==
    LET got == Pieces(io[Client(u)].got) IN
    /\ Called(u, "get_data")
    /\ GetMore(u, cl[u].file \o got, cl[u].left - Len(got))
    /\ UNCHANGED <<kernel, serverSide, src, put>>

\* c251-255, c277-282, c341-346 and c359-364: fopen(), fread() or fwrite() fails.
LocalError(u) ==
    /\ \/ Called(u, "put_name") \/ Called(u, "get_file_name") \/ Called(u, "get_data")
       \/ cl[u].file # NoFile /\ (Called(u, "put_file") \/ Called(u, "put_data"))
    /\ Goto(u, "failed")
    /\ UNCHANGED <<streamVars, serverSide, src, put>>

\* A call returns -1, and with it the command: c243-247, c265-269, c287-297, c319-326,
\* c333-337, c352-357.
CallFails(u) ==
    /\ Failed(Client(u)) /\ cl[u].at \notin {"failed", "new", "prompt", "gone"}
    /\ Goto(u, "failed")
    /\ UNCHANGED <<streamVars, serverSide, src, put>>

Leave(u, at) ==
    /\ Close(cl[u].conn, "client")
    /\ io' = [io EXCEPT ![Client(u)] = NoCall]
    /\ cl' = [cl EXCEPT ![u].at = at, ![u].file = NoFile, ![u].left = 0]
    /\ UNCHANGED <<serverSide, src, put>>

\* c434-439: processCmd() returned -1; the next round connects again.
Reconnect(u) == cl[u].at = "failed" /\ Leave(u, "new")

\* The client is ended from outside.
Kill(u) == cl[u].at \notin {"new", "failed", "gone"} /\ Leave(u, "gone")

ClientTransfer(u) ==
    /\ cl[u].conn # 0 /\ Transfer(Client(u), cl[u].conn, "client")
    /\ UNCHANGED <<cl, srv, store, history>>

\* The steps of a command, without the user who types it.
CommandStep(u) ==
    \/ SendName(u) \/ PutOpen(u) \/ PutChunkLength(u) \/ PutChunk(u) \/ PutReturns(u)
    \/ GetFileProt(u) \/ GetFileName(u) \/ GetOpen(u) \/ GetWrite(u)
    \/ LocalError(u) \/ CallFails(u) \/ Reconnect(u) \/ ClientTransfer(u)

UserStep(u) ==
    \/ Connect(u) \/ PutNoName(u) \/ Kill(u)
    \/ \E nm \in Name : Put(u, nm) \/ Get(u, nm)

-------------------------------------------------------------------------------
(* The thread of a connection, ClientThread::run(). *)

SrvCalled(k, at) == srv[k].at = at /\ Succeeded(Server(k))
SrvGoto(k, at) == srv' = [srv EXCEPT ![k].at = at]

clientSide == <<cl, put>>

Writing == {"put_length", "put_data"}
Reading == {"get_prot", "get_name", "get_data"}

\* Thread k opens file nm: those that have it open too, when one of them writes.
Conflicts(k, nm, writes) ==
    {j \in Conn \ {k} : /\ srv[j].name = nm
                        /\ srv[j].at \in IF writes THEN Writing \union Reading ELSE Writing}

OpenShared(k, nm, writes) ==
    LET C == Conflicts(k, nm, writes)
    IN  shared' = IF C = {} THEN shared ELSE shared \union C \union {k}

\* s407-418 and s129.  start() (s417) is taken to succeed; its result is not looked at.
Accept(k) ==
    /\ srv[k].at = "none" /\ open[k]["server"]
    /\ SrvGoto(k, "prot") /\ BeginRecv(Server(k), 2)
    /\ UNCHANGED <<kernel, store, history, clientSide>>

\* s129-133: the connection is closed, but the ClientThread object is not deleted.
RunFails(k) ==
    /\ srv[k].at = "prot" /\ Failed(Server(k))
    /\ Close(k, "server") /\ SrvGoto(k, "leaked")
    /\ UNCHANGED <<io, store, history, clientSide>>

\* s135-145, s169 and s275.
ProtReceived(k) ==
    /\ SrvCalled(k, "prot")
    /\ SrvGoto(k, IF Received(Server(k), 1) = MSG_GET THEN "get_url" ELSE "put_name")
    /\ BeginRecv(Server(k), Received(Server(k), 2))
    /\ UNCHANGED <<kernel, store, history, clientSide>>

\* s183-210: the file is opened and its FileProtocol sent.
GetOpenFile(k) ==
    LET nm == Received(Server(k), 1) IN
    /\ SrvCalled(k, "get_url") /\ nm \in DOMAIN store
    /\ BeginSend(Server(k), FileProt(Len(store[nm])))
    /\ srv' = [srv EXCEPT ![k].at = "get_prot", ![k].name = nm,
                          ![k].left = Len(store[nm])]
    /\ src' = [src EXCEPT ![k] = store[nm]]
    /\ OpenShared(k, nm, FALSE)
    /\ UNCHANGED <<kernel, store, clientSide>>

\* s218.
GetSendName(k) ==
    /\ SrvCalled(k, "get_prot") /\ SrvGoto(k, "get_name")
    /\ BeginSend(Server(k), NameUnit(srv[k].name))
    /\ UNCHANGED <<kernel, store, history, clientSide>>

\* What fread() returns at the position of thread k.
FileData(k) ==
    LET f == store[srv[k].name] IN
    SubSeq(f, srv[k].off + 1, Min({Len(f), srv[k].off + FileChunk(srv[k].left)}))

\* s236-250: fread() returns what the file has now.
GetSendChunk(k) ==
    LET n == FileChunk(srv[k].left) IN
    /\ SrvCalled(k, "get_name") \/ SrvCalled(k, "get_data")
    /\ srv[k].left > 0 /\ Len(FileData(k)) = n
    /\ BeginSend(Server(k), Data(FileData(k)))
    /\ srv' = [srv EXCEPT ![k].at = "get_data", ![k].left = @ - n, ![k].off = @ + n]
    /\ UNCHANGED <<kernel, store, history, clientSide>>

\* s236 and s258-259.
GetDone(k) ==
    /\ SrvCalled(k, "get_name") \/ SrvCalled(k, "get_data")
    /\ srv[k].left = 0 /\ SrvGoto(k, "done")
    /\ UNCHANGED <<streamVars, store, history, clientSide>>

\* s295.
PutNameReceived(k) ==
    /\ SrvCalled(k, "put_name")
    /\ srv' = [srv EXCEPT ![k].at = "put_prot", ![k].name = Received(Server(k), 1)]
    /\ BeginRecv(Server(k), 2)
    /\ UNCHANGED <<kernel, store, history, clientSide>>

\* s309-311 and s338: the next chunk, or the end of the file.
PutMore(k, left, off) ==
    IF left > 0
    THEN /\ srv' = [srv EXCEPT ![k].at = "put_length", ![k].left = left, ![k].off = off]
         /\ BeginRecv(Server(k), 1)
    ELSE /\ srv' = [srv EXCEPT ![k].at = "done", ![k].left = 0, ![k].off = off]
         /\ UNCHANGED io

\* fopen(filename, "wb").
Truncate(nm) == [m \in DOMAIN store \union {nm} |-> IF m = nm THEN NoFile ELSE store[m]]

\* Variant of PutOpenFile: the file is opened with "r+b".
PutKeepFile(k) ==
    /\ SrvCalled(k, "put_prot")
    /\ store' = [m \in DOMAIN store \union {srv[k].name} |->
                   IF m \in DOMAIN store THEN store[m] ELSE NoFile]
    /\ PutMore(k, Received(Server(k), 2), 0)
    /\ OpenShared(k, srv[k].name, TRUE)
    /\ UNCHANGED <<kernel, src, clientSide>>

\* s295-311.
PutOpenFile(k) ==
    /\ SrvCalled(k, "put_prot")
    /\ store' = Truncate(srv[k].name)
    /\ PutMore(k, Received(Server(k), 2), 0)
    /\ OpenShared(k, srv[k].name, TRUE)
    /\ UNCHANGED <<kernel, src, clientSide>>

\* s311-320.
PutLengthReceived(k) ==
    /\ SrvCalled(k, "put_length") /\ SrvGoto(k, "put_data")
    /\ BeginRecv(Server(k), Received(Server(k), 1))
    /\ UNCHANGED <<kernel, store, history, clientSide>>

\* File f after data has been written at position off; what lies between is zero.
Written(f, off, data) ==
    [i \in 1 .. Max({Len(f), off + Len(data)}) |->
        IF i > off /\ i <= off + Len(data) THEN data[i - off]
        ELSE IF i \in DOMAIN f THEN f[i] ELSE 0]

\* s323-338.  fwrite() fills a buffer, which fclose() writes out at the latest; nothing
\* looks at the file in between but the transfers that are in `shared'.  For the last
\* piece fwrite() and fclose() are this one step, at the time of the fclose(), whose
\* result the code does not look at: it is taken to succeed.
PutDataReceived(k) ==
    LET data == Pieces(io[Server(k)].got)
        nm == srv[k].name
    IN
    /\ SrvCalled(k, "put_data")
    /\ store' = [store EXCEPT ![nm] = Written(@, srv[k].off, data)]
    /\ PutMore(k, srv[k].left - Len(data), srv[k].off + Len(data))
    /\ UNCHANGED <<kernel, history, clientSide>>

\* s183-200, s239-246, s300-304 and s329-333: fopen(), fread() or fwrite() fails; a
\* read fails when the file has become shorter.
StoreError(k) ==
    /\ \/ SrvCalled(k, "get_url") \/ SrvCalled(k, "put_prot") \/ SrvCalled(k, "put_data")
       \/ srv[k].left > 0 /\ (SrvCalled(k, "get_name") \/ SrvCalled(k, "get_data"))
    /\ SrvGoto(k, "close")
    /\ UNCHANGED <<streamVars, store, history, clientSide>>

\* s169-173, s210-223, s250-255, s275-279, s295, s311, s320.
SrvCallFails(k) ==
    /\ Failed(Server(k)) /\ srv[k].at \notin {"prot", "close", "ended", "leaked"}
    /\ SrvGoto(k, "close")
    /\ UNCHANGED <<streamVars, store, history, clientSide>>

\* Variant of EndThread: line s151 is missing.
EndThreadOpen(k) ==
    /\ srv[k].at \in {"done", "close"} /\ SrvGoto(k, "ended")
    /\ UNCHANGED <<streamVars, store, history, clientSide>>

\* s151-153.
EndThread(k) ==
    /\ srv[k].at \in {"done", "close"} /\ SrvGoto(k, "ended")
    /\ Close(k, "server")
    /\ io' = [io EXCEPT ![Server(k)] = NoCall]
    /\ UNCHANGED <<store, history, clientSide>>

ServerTransfer(k) ==
    /\ Transfer(Server(k), k, "server")
    /\ UNCHANGED <<cl, srv, store, history>>

ServerStep(k) ==
    \/ Accept(k) \/ RunFails(k) \/ ProtReceived(k)
    \/ GetOpenFile(k) \/ GetSendName(k) \/ GetSendChunk(k) \/ GetDone(k)
    \/ PutNameReceived(k) \/ PutOpenFile(k) \/ PutLengthReceived(k) \/ PutDataReceived(k)
    \/ StoreError(k) \/ SrvCallFails(k) \/ EndThread(k) \/ ServerTransfer(k)

-------------------------------------------------------------------------------
Next ==
    \/ \E u \in User : CommandStep(u) \/ UserStep(u)
    \/ \E k \in Conn : ServerStep(k)

Spec == Init /\ [][Next]_vars

\* Every thread is scheduled; nobody has to type a command, or to be killed.
FairSpec ==
    Spec /\ \A u \in User : WF_vars(CommandStep(u))
         /\ \A k \in Conn : WF_vars(ServerStep(k))

-------------------------------------------------------------------------------
ClientAt == {"new", "prompt", "failed", "gone",
    "put_prot", "put_name", "put_file", "put_length", "put_data",
    "get_prot", "get_name", "get_file", "get_file_name", "get_data"}
ServerAt == {"none", "prot", "done", "close", "ended", "leaked",
    "put_name", "put_prot", "put_length", "put_data",
    "get_url", "get_prot", "get_name", "get_data"}
Unit == {"type", "length", "name_length", "file_length", "name", "chunk_length", "data"}
        \X Nat
File == Seq(Nat)

\* The type invariant.
TypeOK ==
    /\ StreamTypeOK(Thread, Unit)
    /\ cl \in [User -> [at : ClientAt, conn : Conn \union {0}, first : BOOLEAN,
                        name : Nat, left : Nat, file : File]]
    /\ srv \in [Conn -> [at : ServerAt, name : Nat, left : Nat, off : Nat]]
    /\ DOMAIN store \subseteq Name /\ \A nm \in DOMAIN store : store[nm] \in File
    /\ src \in [Conn -> File] /\ {shared, put} \subseteq SUBSET Conn

\* However the kernel splits the stream, each call that receives
\* something returns what the other side sent for it, and sizes left over or missing on
\* one side never shift the other (c273-299 and s309-335, s236-256 and c349-367).
Kinds(p) == [i \in DOMAIN io[p].got |-> io[p].got[i][1]]
InFrame ==
    /\ \A k \in Conn : srv[k].at \in {"prot", "get_url", "put_name", "put_prot",
                                      "put_length", "put_data"} /\ Succeeded(Server(k)) =>
         CASE srv[k].at = "prot" -> Kinds(Server(k)) = <<"type", "length">>
           [] srv[k].at \in {"get_url", "put_name"} -> Kinds(Server(k)) = <<"name">>
           [] srv[k].at = "put_prot" -> Kinds(Server(k)) = <<"name_length", "file_length">>
           [] srv[k].at = "put_length" -> Kinds(Server(k)) = <<"chunk_length">>
           [] OTHER -> \A i \in DOMAIN io[Server(k)].got : Kinds(Server(k))[i] = "data"
    /\ \A u \in User : cl[u].at \in {"get_file", "get_file_name", "get_data"}
                       /\ Succeeded(Client(u)) =>
         CASE cl[u].at = "get_file" -> Kinds(Client(u)) = <<"name_length", "file_length">>
           [] cl[u].at = "get_file_name" -> io[Client(u)].got = NameUnit(cl[u].name)
           [] OTHER -> \A i \in DOMAIN io[Client(u)].got : Kinds(Client(u))[i] = "data"

\* A transfer that no other one disturbs is exact: when the server has handled a put,
\* the file it holds is the client's, and when a get returns 0 the copy is the file as
\* the server opened it.  A file of the server is replaced only after the client has
\* opened the file to replace it with: s299 comes after s295, which waits for c265.
PutExact(k) ==
    srv[k].at \in {"put_prot", "put_data"} /\ srv'[k].at = "done" /\ k \notin shared' =>
        store'[srv[k].name] = src[k]
GetExact(u) ==
    cl[u].at \in {"get_file_name", "get_data"} /\ cl'[u].at = "prompt"
    /\ cl[u].conn \notin shared => cl'[u].file = src[cl[u].conn]
ReplacedLate == store' # store => \E k \in Conn : srv'[k] # srv[k] /\ src[k] # Unopened
CopyExact ==
    [][ /\ \A k \in Conn : PutExact(k)
        /\ \A u \in User : GetExact(u)
        /\ ReplacedLate ]_vars

\* A put that is the first command of a connection and returned 0 is not lost on the
\* way: closing the connection, or ending the client, leaves what is under way to the
\* server (c304 comes before the server has read anything).
PutArrives ==
    \A k \in put : Failed(Server(k)) => srv[k].at \in {"close", "ended"}

\* A command ends, whatever became of the server's thread, and the server's thread
\* ends when the client has closed the connection or was killed.
EveryoneReturns ==
    /\ \A u \in User : cl[u].at \notin {"new", "prompt", "gone"} ~>
                       cl[u].at \in {"new", "prompt", "gone"}
    /\ \A k \in Conn : srv[k].at # "none" /\ ~open[k]["client"] ~>
                       srv[k].at \in {"ended", "leaked"}
===============================================================================
