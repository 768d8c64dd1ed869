------------------------------- MODULE LinkedList ------------------------------
(***************************************************************************)
(* template class list (class_lib/list.h): a doubly linked list.           *)
(* pForward leads to the front and pBackward to the back.  Line numbers    *)
(* are those of list.h.                                                    *)
(***************************************************************************)
EXTENDS Naturals, FiniteSets, FiniteSetsExt, Functions

CONSTANTS
    Data,
    Address     \* BOUND: the elements that can be allocated at a time

ASSUME ListAssumption == Address \subseteq Nat \ {0}

NULL == 0

VARIABLES
    heap,       \* the elements that exist: [data, pForward, pBackward]
    pBegin, pEnd, m_nSize,
    it          \* the iterator of the last erase()

listVars == <<heap, pBegin, pEnd, m_nSize, it>>

\* Lines 87-91.
ListInit ==
    /\ heap = [p \in {} |-> NULL]
    /\ pBegin = NULL /\ pEnd = NULL /\ m_nSize = 0 /\ it = NULL

Element(d, forward, backward) == [data |-> d, pForward |-> forward, pBackward |-> backward]

\* operator new.
Unused == Address \ DOMAIN heap
New == Min(Unused)

\* The heap h with element e at address p, and without the elements at P.
With(h, p, e) == [q \in DOMAIN h \union {p} |-> IF q = p THEN e ELSE h[q]]
Without(h, P) == Restrict(h, DOMAIN h \ P)

-------------------------------------------------------------------------------
\* Lines 133-153.
push_back(d) ==
    /\ Unused # {}
    /\ m_nSize' = m_nSize + 1
    /\ pEnd' = New
    /\ pBegin' = IF pEnd = NULL THEN New ELSE pBegin
    /\ LET h == IF pEnd = NULL THEN heap ELSE [heap EXCEPT ![pEnd].pBackward = New]
       IN  heap' = With(h, New, Element(d, pEnd, NULL))
    /\ it' = NULL

\* Lines 155-175.
push_front(d) ==
    /\ Unused # {}
    /\ m_nSize' = m_nSize + 1
    /\ pBegin' = New
    /\ pEnd' = IF pBegin = NULL THEN New ELSE pEnd
    /\ LET h == IF pBegin = NULL THEN heap ELSE [heap EXCEPT ![pBegin].pForward = New]
       IN  heap' = With(h, New, Element(d, NULL, pBegin))
    /\ it' = NULL

\* delete: the element at p is gone and the size is one less (lines 191-192, 210-211,
\* 281-285).
Delete(h, p) == heap' = Without(h, {p}) /\ m_nSize' = m_nSize - 1

Empty == pBegin' = NULL /\ pEnd' = NULL

\* Lines 177-194.
pop_back ==
    /\ pEnd # NULL
    /\ LET last == heap[pEnd].pForward IN
         IF last # NULL
         THEN /\ pEnd' = last /\ UNCHANGED pBegin
              /\ Delete([heap EXCEPT ![last].pBackward = NULL], pEnd)
         ELSE Empty /\ Delete(heap, pEnd)
    /\ it' = NULL

\* Lines 196-213.
pop_front ==
    /\ pBegin # NULL
    /\ LET first == heap[pBegin].pBackward IN
         IF first # NULL
         THEN /\ pBegin' = first /\ UNCHANGED pEnd
              /\ Delete([heap EXCEPT ![first].pForward = NULL], pBegin)
         ELSE Empty /\ Delete(heap, pBegin)
    /\ it' = NULL

\* Where n steps along a link lead from p: the loops of lines 116-122 and 237-242.
Steps(p, n, link) ==
    LET at[i \in 0 .. n] ==
          IF i = 0 THEN p
          ELSE IF at[i - 1] = NULL THEN NULL ELSE heap[at[i - 1]][link]
    IN  at[n]

\* Lines 114-125: the elements that are found from the back are deleted.
clear ==
    /\ heap' = Without(heap, {Steps(pEnd, i, "pForward") : i \in 0 .. m_nSize})
    /\ Empty /\ m_nSize' = 0 /\ it' = NULL

\* Lines 277-278.
Unlink(p) ==
    [heap EXCEPT ![heap[p].pForward].pBackward = heap[p].pBackward,
                 ![heap[p].pBackward].pForward = heap[p].pForward]

\* Variant of Following: the other link is taken.
Preceding(p) == heap[p].pForward

\* Lines 256, 263, 270 and 280: where erase() leaves an iterator at p.
Following(p) == heap[p].pBackward

\* Lines 246-288, for the iterator at element p.
erase(p) ==
    LET forward == heap[p].pForward
        backward == heap[p].pBackward
    IN
    /\ it' = Following(p)
    /\ CASE forward = NULL /\ backward = NULL ->
              Empty /\ Delete(heap, p)
         [] forward = NULL /\ backward # NULL ->
              /\ pBegin' = backward /\ UNCHANGED pEnd
              /\ Delete([heap EXCEPT ![backward].pForward = NULL], p)
         [] forward # NULL /\ backward = NULL ->
              /\ pEnd' = forward /\ UNCHANGED pBegin
              /\ Delete([heap EXCEPT ![forward].pBackward = NULL], p)
         [] OTHER ->
              /\ Delete(Unlink(p), p) /\ UNCHANGED <<pBegin, pEnd>>

\* Lines 104-107 and 41-46, 228-244: the element reached from begin(), in n steps.
at(n) == Steps(pBegin, n, "pBackward")

ListNext ==
    \/ \E d \in Data : push_back(d) \/ push_front(d)
    \/ pop_back \/ pop_front \/ clear
    \/ \E i \in 0 .. m_nSize - 1 : erase(at(i))

-------------------------------------------------------------------------------
\* What the list stands for, walked from the front.
Content == [i \in 1 .. m_nSize |-> heap[at(i - 1)].data]
Position(p) == IF p = NULL THEN 0 ELSE CHOOSE i \in 1 .. m_nSize : at(i - 1) = p

D == INSTANCE Deque
     WITH seq <- Content, next <- Position(it), cells <- Cardinality(DOMAIN heap)

\* After any sequence of pushes, pops and erasures the two chains of pointers hold the
\* same elements, in the order of a double-ended queue, erase() returns the element
\* after the one that is erased, and none is lost or deleted twice (list.h:114-288).
IsDeque == D!Spec
===============================================================================
