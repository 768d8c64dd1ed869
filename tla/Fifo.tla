---------------------------------- MODULE Fifo ---------------------------------
(***************************************************************************)
(* What a circle buffer promises (circlebuffer.h:3, "first in first out"): *)
(* the items 0, 1, 2, ... are offered in order; each is queued, or dropped *)
(* because the queue is full; the queued ones are delivered in order, each *)
(* of them once.                                                           *)
(***************************************************************************)
EXTENDS Naturals, Sequences

CONSTANT Size

VARIABLES next, queue, delivered, dropped

vars == <<next, queue, delivered, dropped>>

Init == next = 0 /\ queue = <<>> /\ delivered = <<>> /\ dropped = {}

Put ==
    /\ Len(queue) < Size
    /\ queue' = Append(queue, next)
    /\ next' = next + 1
    /\ UNCHANGED <<delivered, dropped>>

Drop ==
    /\ Len(queue) = Size
    /\ dropped' = dropped \cup {next}
    /\ next' = next + 1
    /\ UNCHANGED <<queue, delivered>>

Take ==
    /\ queue # <<>>
    /\ delivered' = Append(delivered, Head(queue))
    /\ queue' = Tail(queue)
    /\ UNCHANGED <<next, dropped>>

Next == Put \/ Drop \/ Take

Spec == Init /\ [][Next]_vars
===============================================================================
