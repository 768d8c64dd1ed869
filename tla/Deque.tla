---------------------------------- MODULE Deque --------------------------------
(***************************************************************************)
(* What class_lib/list.h promises: a sequence that grows and shrinks at    *)
(* both ends, and from which an element in the middle can be erased.       *)
(***************************************************************************)
EXTENDS Naturals, Sequences, SequencesExt

CONSTANT Data

VARIABLES
    seq,    \* the elements
    next,   \* the position the last erase() returned, 0 for end()
    cells   \* the number of elements that are allocated

Init == seq = <<>> /\ next = 0 /\ cells = 0

Become(s) == seq' = s /\ cells' = Len(s)

PushBack == \E d \in Data : Become(Append(seq, d)) /\ next' = 0
PushFront == \E d \in Data : Become(<<d>> \o seq) /\ next' = 0
PopBack == Become(IF seq = <<>> THEN seq ELSE Front(seq)) /\ next' = 0
PopFront == Become(IF seq = <<>> THEN seq ELSE Tail(seq)) /\ next' = 0
Clear == Become(<<>>) /\ next' = 0

\* erase() returns the position after the element.
Erase(i) == Become(RemoveAt(seq, i)) /\ next' = IF i = Len(seq) THEN 0 ELSE i

Next ==
    \/ PushBack \/ PushFront \/ PopBack \/ PopFront \/ Clear
    \/ \E i \in DOMAIN seq : Erase(i)

Spec == Init /\ [][Next]_<<seq, next, cells>>
===============================================================================
