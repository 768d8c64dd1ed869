------------------------------ MODULE RequestReply -----------------------------
(***************************************************************************)
(* What a client of socket_server may rely on: on its connection questions *)
(* and acknowledgements alternate, and an acknowledgement is given for a   *)
(* message that was received, once.                                        *)
(***************************************************************************)
CONSTANT Conn

VARIABLE turn   \* whose turn it is on each connection

Init == turn = [c \in Conn |-> "ask"]

Pass(c, from, to) == turn[c] = from /\ turn' = [turn EXCEPT ![c] = to]

Ask(c) == Pass(c, "ask", "serve")       \* the client has sent a message
Serve(c) == Pass(c, "serve", "answer")  \* the server has received all of it
Answer(c) == Pass(c, "answer", "ask")   \* the client has the acknowledgement

\* A client, or the server with all its connections, goes away.
Hangup(C) == turn' = [c \in Conn |-> IF c \in C THEN "closed" ELSE turn[c]]

Next ==
    \/ \E c \in Conn : Ask(c) \/ Serve(c) \/ Answer(c)
    \/ \E C \in SUBSET Conn : Hangup(C)

Spec == Init /\ [][Next]_turn
===============================================================================
