------------------------------ MODULE LibraryProofs ----------------------------
(***************************************************************************)
(* What holds of the parts of class_lib without threads that are state     *)
(* machines, for every value of their constants.                           *)
(*                                                                         *)
(* class list implements a double-ended queue, however many elements there *)
(* are.  The invariant names the sequence of addresses both chains of      *)
(* pointers lead through; every operation is shown to keep the chains      *)
(* equal, and to do to the sequence what Deque says.                       *)
(*                                                                         *)
(* RecvBytes() of class UdpSocket ends up with the file, for every size of *)
(* the file, of the buffer and of the parts that are sent, and whatever    *)
(* datagrams are lost, repeated or overtaken.  The invariant says where    *)
(* each datagram was cut from the stream of the header and the file:       *)
(* pos[i] units stand before datagram i.  A cut never lies inside a        *)
(* datagram that holds a part of the header, because the header is a call  *)
(* of SendBytes() of its own.                                              *)
(***************************************************************************)
EXTENDS LinkedList, UdpTransfer, SequenceTheorems, FiniteSetTheorems, TLAPS

(* The list. *)

ListSpec == ListInit /\ [][ListNext]_listVars

-------------------------------------------------------------------------------
Pointer == Address \union {NULL}

\* The list has n elements, and c[i] is the address of the i-th one from the front.
Chain(c, n) ==
    /\ n \in Nat
    /\ c \in [1 .. n -> DOMAIN heap]
    /\ \A i, j \in 1 .. n : c[i] = c[j] => i = j
    /\ \A p \in DOMAIN heap : \E i \in 1 .. n : c[i] = p

\* Both chains of pointers lead through c, from end to end.
Linked(c, n) ==
    /\ pBegin = IF n = 0 THEN NULL ELSE c[1]
    /\ pEnd = IF n = 0 THEN NULL ELSE c[n]
    /\ \A i \in 1 .. n :
         /\ heap[c[i]].pForward = IF i = 1 THEN NULL ELSE c[i - 1]
         /\ heap[c[i]].pBackward = IF i = n THEN NULL ELSE c[i + 1]

\* The list holds the elements at c.
Holds(c) == m_nSize \in Nat /\ Chain(c, m_nSize) /\ Linked(c, m_nSize)

Typed ==
    /\ DOMAIN heap \subseteq Address
    /\ heap \in [DOMAIN heap -> [data : Data, pForward : Pointer, pBackward : Pointer]]
    /\ it = NULL \/ it \in DOMAIN heap

ListInv == Typed /\ \E c : Holds(c)

-------------------------------------------------------------------------------
LEMMA Least ==
    ASSUME NEW T, T \subseteq Nat, T # {}
    PROVE  \E x \in T : \A y \in T : x <= y
<1>1. IsWellFoundedOn(OpToRel(<, Nat), Nat)
  BY NatLessThanWellFounded
<1>2. PICK x \in T : \A y \in T : ~(<<y, x>> \in OpToRel(<, Nat))
  BY <1>1, WFMin
<1>3. \A y \in T : ~(y < x)
  BY <1>2 DEF OpToRel
<1> QED BY <1>3

\* operator new returns an address that is not in use.
LEMMA NewUnused ==
    ASSUME Unused # {}
    PROVE  New \in Address /\ New \notin DOMAIN heap /\ New # NULL
<1>1. Unused \subseteq Nat
  BY ListAssumption DEF Unused
<1>2. \E x \in Unused : \A y \in Unused : x <= y
  BY <1>1, Least
<1>3. New \in Unused
  BY <1>2, Zenon DEF New, Min
<1> QED BY <1>3, ListAssumption DEF Unused, NULL

\* The walk of n steps is the only function that starts at p and follows the link.
LEMMA WalkIs ==
    ASSUME NEW p, NEW n \in Nat, NEW l,
           NEW g, g \in [0 .. n -> Pointer], g[0] = p,
           \A i \in 1 .. n : g[i] = IF g[i - 1] = NULL THEN NULL ELSE heap[g[i - 1]][l]
    PROVE  Steps(p, n, l) = g[n]
<1> DEFINE next(h, i) == IF h[i - 1] = NULL THEN NULL ELSE heap[h[i - 1]][l]
           Walks(h) == h = [i \in 0 .. n |-> IF i = 0 THEN p
                                             ELSE IF h[i - 1] = NULL THEN NULL
                                             ELSE heap[h[i - 1]][l]]
           w == CHOOSE h : Walks(h)
<1>1. Walks(g)
  <2>1. ASSUME NEW i \in 0 .. n
        PROVE  g[i] = IF i = 0 THEN p ELSE IF g[i - 1] = NULL THEN NULL ELSE heap[g[i - 1]][l]
    BY <2>1
  <2> QED BY <2>1
<1>2. Walks(w)
  <2> HIDE DEF Walks
  <2> QED BY <1>1, Zenon
<1>3. Steps(p, n, l) = w[n]
  BY DEF Steps
<1> HIDE DEF w
<1>4. \A i \in 0 .. n : w[i] = g[i]
  <2> DEFINE T == {i \in 0 .. n : w[i] # g[i]}
  <2> SUFFICES ASSUME T # {} PROVE FALSE
    OBVIOUS
  <2>1. PICK x \in T : \A y \in T : x <= y
    <3>1. T \subseteq Nat
      OBVIOUS
    <3> HIDE DEF T
    <3> QED BY <3>1, Least
  <2>2. x \in 0 .. n /\ w[x] # g[x]
    OBVIOUS
  <2>3. CASE x = 0
    BY <1>2, <2>2, <2>3
  <2>4. CASE x # 0
    <3>1. x \in 1 .. n /\ x - 1 \in 0 .. n /\ ~(x <= x - 1)
      BY <2>2, <2>4
    <3>2. w[x - 1] = g[x - 1]
      BY <2>1, <3>1
    <3>3. w[x] = IF w[x - 1] = NULL THEN NULL ELSE heap[w[x - 1]][l]
      BY <1>2, <2>2, <2>4
    <3> QED BY <2>2, <3>1, <3>2, <3>3
  <2> QED BY <2>3, <2>4
<1> QED BY <1>3, <1>4

\* From the front, element i is found behind i - 1 steps.
LEMMA WalkFromFront ==
    ASSUME Typed, NEW c, NEW n, Chain(c, n), Linked(c, n), NEW i \in 1 .. n
    PROVE  at(i - 1) = c[i]
<1> DEFINE g == [j \in 0 .. i - 1 |-> c[j + 1]]
<1>1. n \in Nat /\ i - 1 \in Nat /\ c \in [1 .. n -> DOMAIN heap]
  BY DEF Chain
<1>2. \A j \in 1 .. n : c[j] \in Address /\ c[j] # NULL
  BY <1>1, ListAssumption DEF Typed, NULL
<1>3. g \in [0 .. i - 1 -> Pointer] /\ g[0] = c[1] /\ g[i - 1] = c[i] /\ pBegin = c[1]
  BY <1>1, <1>2 DEF Pointer, Linked
<1>4. ASSUME NEW j \in 1 .. i - 1
      PROVE  g[j] = IF g[j - 1] = NULL THEN NULL ELSE heap[g[j - 1]]["pBackward"]
  <2>1. g[j] = c[j + 1] /\ g[j - 1] = c[j] /\ j \in 1 .. n /\ j # n
    BY <1>1
  <2>2. heap[c[j]].pBackward = c[j + 1]
    BY <2>1 DEF Linked
  <2> QED BY <1>2, <2>1, <2>2
<1> HIDE DEF g
<1>5. Steps(pBegin, i - 1, "pBackward") = g[i - 1]
  BY <1>1, <1>3, <1>4, WalkIs
<1> QED BY <1>3, <1>5 DEF at

\* From the back, clear() finds every element.
LEMMA WalkFromBack ==
    ASSUME Typed, NEW c, NEW n, Chain(c, n), Linked(c, n), NEW i \in 0 .. n
    PROVE  Steps(pEnd, i, "pForward") = IF i = n THEN NULL ELSE c[n - i]
<1> DEFINE g == [j \in 0 .. i |-> IF j = n THEN NULL ELSE c[n - j]]
<1>1. n \in Nat /\ i \in Nat /\ c \in [1 .. n -> DOMAIN heap]
  BY DEF Chain
<1>2. \A j \in 1 .. n : c[j] \in Address /\ c[j] # NULL
  BY <1>1, ListAssumption DEF Typed, NULL
<1>3. g \in [0 .. i -> Pointer]
  <2>1. \A j \in 0 .. i : j # n => n - j \in 1 .. n
    BY <1>1
  <2> QED BY <1>2, <2>1 DEF Pointer
<1>4. g[0] = pEnd /\ g[i] = IF i = n THEN NULL ELSE c[n - i]
  BY <1>1 DEF Linked
<1>5. ASSUME NEW j \in 1 .. i
      PROVE  g[j] = IF g[j - 1] = NULL THEN NULL ELSE heap[g[j - 1]]["pForward"]
  <2>1. n - (j - 1) \in 1 .. n /\ n - (j - 1) - 1 = n - j /\ j - 1 # n
    BY <1>1
  <2>2. g[j - 1] = c[n - (j - 1)] /\ g[j] = IF j = n THEN NULL ELSE c[n - j]
    BY <1>1, <2>1
  <2>3. heap[c[n - (j - 1)]].pForward = IF n - (j - 1) = 1 THEN NULL ELSE c[n - (j - 1) - 1]
    BY <2>1 DEF Linked
  <2>4. n - (j - 1) = 1 <=> j = n
    BY <1>1
  <2> QED BY <1>2, <2>1, <2>2, <2>3, <2>4
<1> HIDE DEF g
<1>6. Steps(pEnd, i, "pForward") = g[i]
  <2>1. i \in Nat /\ g[0] = pEnd
    BY <1>1, <1>4
  <2> QED BY <2>1, <1>3, <1>5, WalkIs
<1> QED BY <1>4, <1>6

-------------------------------------------------------------------------------
(* What the list stands for. *)

\* There are as many cells as positions.
LEMMA Counted ==
    ASSUME NEW c, NEW n, Chain(c, n)
    PROVE  Cardinality(DOMAIN heap) = n
<1>1. c \in Bijection(1 .. n, DOMAIN heap)
  BY DEF Chain, Bijection, Injection, Surjection, IsInjective
<1>2. ExistsBijection(1 .. n, DOMAIN heap)
  BY <1>1 DEF ExistsBijection
<1> QED BY <1>2, FS_CountingElements DEF Chain

DataAt(c) == [i \in 1 .. m_nSize |-> heap[c[i]].data]

\* Content, and the position of an element, read off the sequence of addresses.
Reads(c) ==
    /\ Content = DataAt(c) /\ Content \in Seq(Data) /\ Len(Content) = m_nSize
    /\ Cardinality(DOMAIN heap) = m_nSize
    /\ \A i \in 1 .. m_nSize : at(i - 1) = c[i] /\ Position(c[i]) = i
    /\ Position(NULL) = 0

LEMMA Reading == \A c : Typed /\ Holds(c) => Reads(c)
<1> SUFFICES ASSUME NEW c, Typed, Holds(c) PROVE Reads(c)
  OBVIOUS
<1>1. m_nSize \in Nat /\ c \in [1 .. m_nSize -> DOMAIN heap]
  BY DEF Holds, Chain
<1>2. \A i \in 1 .. m_nSize : at(i - 1) = c[i]
  BY WalkFromFront DEF Holds
<1>3. Content = DataAt(c)
  BY <1>2 DEF Content, DataAt
<1>4. Content \in Seq(Data) /\ Len(Content) = m_nSize
  <2>1. \A i \in 1 .. m_nSize : heap[c[i]].data \in Data
    BY <1>1 DEF Typed
  <2> QED BY <1>1, <1>3, <2>1 DEF DataAt
<1>5. Cardinality(DOMAIN heap) = m_nSize
  BY Counted DEF Holds
<1>6. ASSUME NEW i \in 1 .. m_nSize PROVE Position(c[i]) = i
  <2>1. c[i] # NULL
    BY <1>1, ListAssumption DEF Typed, NULL
  <2>2. \A j \in 1 .. m_nSize : at(j - 1) = c[i] <=> j = i
    BY <1>2 DEF Holds, Chain
  <2> QED BY <2>1, <2>2 DEF Position
<1>7. Position(NULL) = 0
  BY DEF Position
<1> QED BY <1>2, <1>3, <1>4, <1>5, <1>6, <1>7 DEF Reads

LEMMA ReadingNext == (\A c : Typed /\ Holds(c) => Reads(c))'
BY Reading, PTL

-------------------------------------------------------------------------------
(* What the operations do to the sequence of addresses. *)

LEMMA InitHolds == ListInit => ListInv /\ D!Init
<1> SUFFICES ASSUME ListInit PROVE ListInv /\ D!Init
  OBVIOUS
<1> DEFINE c == [i \in 1 .. 0 |-> NULL]
<1>1. /\ heap = [p \in {} |-> NULL] /\ DOMAIN heap = {}
      /\ pBegin = NULL /\ pEnd = NULL /\ m_nSize = 0 /\ it = NULL
  BY DEF ListInit
<1>2. Typed
  BY <1>1 DEF Typed
<1>3. Holds(c)
  BY <1>1 DEF Holds, Chain, Linked
<1>4. Reads(c)
  BY <1>2, <1>3, Reading
<1>5. Content = <<>> /\ Position(it) = 0 /\ Cardinality(DOMAIN heap) = 0
  BY <1>1, <1>4 DEF Reads
<1> QED BY <1>2, <1>3, <1>5 DEF ListInv, D!Init

\* The pointers of an element lead to its neighbours, and the ends have none.
LEMMA Neighbours ==
    ASSUME Typed, NEW c, Holds(c)
    PROVE  /\ c \in [1 .. m_nSize -> DOMAIN heap] /\ m_nSize \in Nat
           /\ \A i \in 1 .. m_nSize : c[i] \in DOMAIN heap /\ c[i] \in Address /\ c[i] # NULL
           /\ m_nSize = 0 <=> pEnd = NULL
           /\ m_nSize = 0 <=> pBegin = NULL
<1>1. c \in [1 .. m_nSize -> DOMAIN heap] /\ m_nSize \in Nat
  BY DEF Holds, Chain
<1>2. \A i \in 1 .. m_nSize : c[i] \in DOMAIN heap /\ c[i] \in Address /\ c[i] # NULL
  BY <1>1, ListAssumption DEF Typed, NULL
<1> QED BY <1>1, <1>2 DEF Holds, Linked

\* push_back puts an address that is not in use behind the others.
LEMMA Pushed ==
    ASSUME Typed, NEW c, Holds(c), NEW d \in Data, push_back(d)
    PROVE  /\ Typed' /\ it' = NULL
           /\ \E b : Holds(b)' /\ DataAt(b)' = Append(DataAt(c), d)
<1>1. PICK a, m : a = New /\ m = m_nSize
  OBVIOUS
<1>2. a \in Address /\ a \notin DOMAIN heap /\ a # NULL
  BY <1>1, NewUnused DEF push_back
<1>3. /\ c \in [1 .. m -> DOMAIN heap] /\ m \in Nat
      /\ \A i \in 1 .. m : c[i] \in DOMAIN heap /\ c[i] # NULL /\ c[i] # a
      /\ m = 0 <=> pEnd = NULL
      /\ m > 0 => pEnd = c[m] /\ pBegin = c[1]
  BY <1>1, <1>2, Neighbours DEF Holds, Linked
<1> DEFINE behind(q) == IF q = pEnd THEN a ELSE heap[q].pBackward
           h == [q \in DOMAIN heap \union {a} |->
                   IF q = a THEN [data |-> d, pForward |-> pEnd, pBackward |-> NULL]
                   ELSE [data |-> heap[q].data, pForward |-> heap[q].pForward,
                         pBackward |-> behind(q)]]
           b == [i \in 1 .. m + 1 |-> IF i = m + 1 THEN a ELSE c[i]]
<1>4. heap' = h
  <2>1. CASE pEnd = NULL
    <3>1. heap' = With(heap, a, Element(d, pEnd, NULL))
      BY <1>1, <2>1 DEF push_back
    <3>2. \A q \in DOMAIN heap : heap[q] = [data |-> heap[q].data, pForward |-> heap[q].pForward,
                                            pBackward |-> behind(q)]
      <4>1. \A q \in DOMAIN heap : q # NULL
        BY ListAssumption DEF Typed, NULL
      <4> QED BY <2>1, <4>1 DEF Typed
    <3> QED BY <3>1, <3>2, <1>2 DEF With, Element
  <2>2. CASE pEnd # NULL
    <3> DEFINE e == [heap EXCEPT ![pEnd].pBackward = a]
    <3>1. heap' = With(e, a, Element(d, pEnd, NULL)) /\ DOMAIN e = DOMAIN heap
      BY <1>1, <2>2 DEF push_back
    <3>2. \A q \in DOMAIN heap : e[q] = [data |-> heap[q].data, pForward |-> heap[q].pForward,
                                         pBackward |-> behind(q)]
      BY <2>2 DEF Typed
    <3> HIDE DEF e
    <3> QED BY <3>1, <3>2, <1>2 DEF With, Element
  <2> QED BY <2>1, <2>2
<1>5. m_nSize' = m + 1 /\ pEnd' = a /\ it' = NULL /\ pBegin' = IF pEnd = NULL THEN a ELSE pBegin
  BY <1>1 DEF push_back
<1>6. DOMAIN heap' = DOMAIN heap \union {a}
  BY <1>4
<1>7. Typed'
  <2>1. heap' \in [DOMAIN heap' -> [data : Data, pForward : Pointer, pBackward : Pointer]]
    <3>1. pEnd \in Pointer /\ a \in Pointer /\ NULL \in Pointer
      BY <1>2, <1>3 DEF Pointer, Typed
    <3> QED BY <1>4, <3>1 DEF Typed
  <2> QED BY <1>2, <1>5, <1>6, <2>1 DEF Typed, Pointer
<1>8. Chain(b, m + 1)'
  <2>1. b \in [1 .. m + 1 -> DOMAIN heap']
    BY <1>3, <1>6
  <2>2. \A i, j \in 1 .. m + 1 : b[i] = b[j] => i = j
    BY <1>1, <1>3 DEF Holds, Chain
  <2>3. ASSUME NEW p \in DOMAIN heap' PROVE \E i \in 1 .. m + 1 : b[i] = p
    <3>1. CASE p = a
      <4>1. m + 1 \in 1 .. m + 1 /\ b[m + 1] = a
        BY <1>3
      <4> QED BY <3>1, <4>1
    <3>2. CASE p \in DOMAIN heap
      <4>1. PICK i \in 1 .. m : c[i] = p
        BY <1>1, <3>2 DEF Holds, Chain
      <4>2. i \in 1 .. m + 1 /\ b[i] = p
        BY <1>3, <4>1
      <4> QED BY <4>2
    <3> QED BY <1>6, <3>1, <3>2
  <2> QED BY <1>3, <2>1, <2>2, <2>3 DEF Chain
<1>9. Linked(b, m + 1)'
  <2>1. b[m + 1] = a /\ b[1] = IF m = 0 THEN a ELSE c[1]
    BY <1>3
  <2>2. pBegin' = b[1] /\ pEnd' = b[m + 1]
    BY <1>3, <1>5, <2>1
  <2>3. heap'[a] = [data |-> d, pForward |-> pEnd, pBackward |-> NULL]
    BY <1>4, <1>2
  <2>4. ASSUME NEW i \in 1 .. m + 1
        PROVE  /\ heap'[b[i]].pForward = IF i = 1 THEN NULL ELSE b[i - 1]
               /\ heap'[b[i]].pBackward = IF i = m + 1 THEN NULL ELSE b[i + 1]
    <3>1. CASE i = m + 1
      BY <3>1, <1>3, <2>1, <2>3
    <3>2. CASE i # m + 1
      <4>1. i \in 1 .. m /\ b[i] = c[i] /\ c[i] \in DOMAIN heap /\ c[i] # a
        BY <1>3, <3>2
      <4>2. heap'[c[i]].pForward = heap[c[i]].pForward /\ heap'[c[i]].pBackward = behind(c[i])
        BY <1>4, <4>1
      <4>3. /\ heap[c[i]].pForward = IF i = 1 THEN NULL ELSE c[i - 1]
            /\ heap[c[i]].pBackward = IF i = m THEN NULL ELSE c[i + 1]
        BY <1>1, <4>1 DEF Holds, Linked
      <4>4. c[i] = pEnd <=> i = m
        BY <1>1, <1>3, <4>1 DEF Holds, Chain
      <4>5. i # 1 => b[i - 1] = c[i - 1]
        BY <1>3, <4>1
      <4>6. b[i + 1] = IF i = m THEN a ELSE c[i + 1]
        BY <1>3, <4>1
      <4> QED BY <3>2, <4>1, <4>2, <4>3, <4>4, <4>5, <4>6
    <3> QED BY <3>1, <3>2
  <2> QED BY <1>3, <2>2, <2>4 DEF Linked
<1>10. DataAt(b)' = Append(DataAt(c), d)
  <2> DEFINE s == DataAt(c)
             t == [i \in 1 .. m + 1 |-> heap'[b[i]].data]
  <2>1. s \in Seq(Data) /\ Len(s) = m /\ \A i \in 1 .. m : s[i] = heap[c[i]].data
    BY <1>1, Reading DEF Reads, DataAt
  <2>2. t \in Seq(Data) /\ Len(t) = m + 1
    <3>1. \A i \in 1 .. m + 1 : heap'[b[i]].data \in Data
      BY <1>7, <1>8 DEF Typed, Chain
    <3> QED BY <1>3, <3>1
  <2>3. \A i \in 1 .. m + 1 : t[i] = IF i = m + 1 THEN d ELSE s[i]
    BY <1>2, <1>3, <1>4, <2>1
  <2> HIDE DEF s, t
  <2>4. Append(s, d) \in Seq(Data) /\ Len(Append(s, d)) = m + 1
    BY <2>1, AppendProperties
  <2>5. \A i \in 1 .. m + 1 : Append(s, d)[i] = IF i = m + 1 THEN d ELSE s[i]
    BY <1>3, <2>1, AppendProperties
  <2>6. t = Append(s, d)
    BY <2>2, <2>3, <2>4, <2>5, SeqEqual
  <2> QED BY <1>5, <2>6 DEF DataAt, s, t
<1>11. Holds(b)'
  BY <1>3, <1>5, <1>8, <1>9 DEF Holds
<1> HIDE DEF b
<1> QED BY <1>5, <1>7, <1>10, <1>11

\* push_front puts it before them.
LEMMA PushedInFront ==
    ASSUME Typed, NEW c, Holds(c), NEW d \in Data, push_front(d)
    PROVE  /\ Typed' /\ it' = NULL
           /\ \E b : Holds(b)' /\ DataAt(b)' = <<d>> \o DataAt(c)
<1>1. PICK a, m : a = New /\ m = m_nSize
  OBVIOUS
<1>2. a \in Address /\ a \notin DOMAIN heap /\ a # NULL
  BY <1>1, NewUnused DEF push_front
<1>3. /\ c \in [1 .. m -> DOMAIN heap] /\ m \in Nat
      /\ \A i \in 1 .. m : c[i] \in DOMAIN heap /\ c[i] # NULL /\ c[i] # a
      /\ m = 0 <=> pBegin = NULL
      /\ m > 0 => pEnd = c[m] /\ pBegin = c[1]
  BY <1>1, <1>2, Neighbours DEF Holds, Linked
<1> DEFINE before(q) == IF q = pBegin THEN a ELSE heap[q].pForward
           h == [q \in DOMAIN heap \union {a} |->
                   IF q = a THEN [data |-> d, pForward |-> NULL, pBackward |-> pBegin]
                   ELSE [data |-> heap[q].data, pForward |-> before(q),
                         pBackward |-> heap[q].pBackward]]
           b == [i \in 1 .. m + 1 |-> IF i = 1 THEN a ELSE c[i - 1]]
<1>4. heap' = h
  <2>1. CASE pBegin = NULL
    <3>1. heap' = With(heap, a, Element(d, NULL, pBegin))
      BY <1>1, <2>1 DEF push_front
    <3>2. \A q \in DOMAIN heap : heap[q] = [data |-> heap[q].data, pForward |-> before(q),
                                            pBackward |-> heap[q].pBackward]
      <4>1. \A q \in DOMAIN heap : q # NULL
        BY ListAssumption DEF Typed, NULL
      <4> QED BY <2>1, <4>1 DEF Typed
    <3> QED BY <3>1, <3>2, <1>2 DEF With, Element
  <2>2. CASE pBegin # NULL
    <3> DEFINE e == [heap EXCEPT ![pBegin].pForward = a]
    <3>1. heap' = With(e, a, Element(d, NULL, pBegin)) /\ DOMAIN e = DOMAIN heap
      BY <1>1, <2>2 DEF push_front
    <3>2. \A q \in DOMAIN heap : e[q] = [data |-> heap[q].data, pForward |-> before(q),
                                         pBackward |-> heap[q].pBackward]
      BY <2>2 DEF Typed
    <3> HIDE DEF e
    <3> QED BY <3>1, <3>2, <1>2 DEF With, Element
  <2> QED BY <2>1, <2>2
<1>5. m_nSize' = m + 1 /\ pBegin' = a /\ it' = NULL /\ pEnd' = IF pBegin = NULL THEN a ELSE pEnd
  BY <1>1 DEF push_front
<1>6. DOMAIN heap' = DOMAIN heap \union {a}
  BY <1>4
<1>7. Typed'
  <2>1. heap' \in [DOMAIN heap' -> [data : Data, pForward : Pointer, pBackward : Pointer]]
    <3>1. pBegin \in Pointer /\ a \in Pointer /\ NULL \in Pointer
      BY <1>2, <1>3 DEF Pointer, Typed
    <3> QED BY <1>4, <3>1 DEF Typed
  <2> QED BY <1>2, <1>5, <1>6, <2>1 DEF Typed, Pointer
<1>8. Chain(b, m + 1)'
  <2>1. b \in [1 .. m + 1 -> DOMAIN heap']
    BY <1>3, <1>6
  <2>2. ASSUME NEW i \in 1 .. m + 1, NEW j \in 1 .. m + 1, b[i] = b[j] PROVE i = j
    <3>1. CASE i = 1 \/ j = 1
      BY <1>3, <2>2, <3>1
    <3>2. CASE i # 1 /\ j # 1
      <4>1. i - 1 \in 1 .. m /\ j - 1 \in 1 .. m /\ c[i - 1] = c[j - 1]
        BY <1>3, <2>2, <3>2
      <4>2. i - 1 = j - 1
        BY <1>1, <4>1 DEF Holds, Chain
      <4> QED BY <4>2
    <3> QED BY <3>1, <3>2
  <2>3. ASSUME NEW p \in DOMAIN heap' PROVE \E i \in 1 .. m + 1 : b[i] = p
    <3>1. CASE p = a
      <4>1. 1 \in 1 .. m + 1 /\ b[1] = a
        BY <1>3
      <4> QED BY <3>1, <4>1
    <3>2. CASE p \in DOMAIN heap
      <4>1. PICK i \in 1 .. m : c[i] = p
        BY <1>1, <3>2 DEF Holds, Chain
      <4>2. i + 1 \in 1 .. m + 1 /\ b[i + 1] = p
        BY <1>3, <4>1
      <4> QED BY <4>2
    <3> QED BY <1>6, <3>1, <3>2
  <2> QED BY <1>3, <2>1, <2>2, <2>3 DEF Chain
<1>9. Linked(b, m + 1)'
  <2>1. b[1] = a /\ b[m + 1] = IF m = 0 THEN a ELSE c[m]
    BY <1>3
  <2>2. pBegin' = b[1] /\ pEnd' = b[m + 1]
    BY <1>3, <1>5, <2>1
  <2>3. heap'[a] = [data |-> d, pForward |-> NULL, pBackward |-> pBegin]
    BY <1>4, <1>2
  <2>4. ASSUME NEW i \in 1 .. m + 1
        PROVE  /\ heap'[b[i]].pForward = IF i = 1 THEN NULL ELSE b[i - 1]
               /\ heap'[b[i]].pBackward = IF i = m + 1 THEN NULL ELSE b[i + 1]
    <3>1. CASE i = 1
      <4>1. m > 0 => b[2] = c[1]
        BY <1>3
      <4> QED BY <3>1, <4>1, <1>3, <2>1, <2>3
    <3>2. CASE i # 1
      <4> DEFINE k == i - 1
      <4>1. k \in 1 .. m /\ b[i] = c[k] /\ c[k] \in DOMAIN heap /\ c[k] # a /\ k + 1 = i
        BY <1>3, <3>2
      <4> HIDE DEF k
      <4>2. heap'[c[k]].pForward = before(c[k]) /\ heap'[c[k]].pBackward = heap[c[k]].pBackward
        BY <1>4, <4>1
      <4>3. /\ heap[c[k]].pForward = IF k = 1 THEN NULL ELSE c[k - 1]
            /\ heap[c[k]].pBackward = IF k = m THEN NULL ELSE c[k + 1]
        BY <1>1, <4>1 DEF Holds, Linked
      <4>4. c[k] = pBegin <=> k = 1
        BY <1>1, <1>3, <4>1 DEF Holds, Chain
      <4>5. b[i - 1] = IF k = 1 THEN a ELSE c[k - 1]
        BY <1>3, <4>1
      <4>6. k # m => b[i + 1] = c[k + 1]
        BY <1>3, <4>1
      <4>7. k = m <=> i = m + 1
        BY <1>3, <4>1
      <4> QED BY <3>2, <4>1, <4>2, <4>3, <4>4, <4>5, <4>6, <4>7
    <3> QED BY <3>1, <3>2
  <2>5. m + 1 # 0
    BY <1>3
  <2> HIDE DEF b
  <2> QED BY <2>2, <2>4, <2>5 DEF Linked
<1>10. DataAt(b)' = <<d>> \o DataAt(c)
  <2> DEFINE s == DataAt(c)
             t == [i \in 1 .. m + 1 |-> heap'[b[i]].data]
  <2>1. s \in Seq(Data) /\ Len(s) = m /\ \A i \in 1 .. m : s[i] = heap[c[i]].data
    BY <1>1, Reading DEF Reads, DataAt
  <2>2. t \in Seq(Data) /\ Len(t) = m + 1
    <3>1. \A i \in 1 .. m + 1 : heap'[b[i]].data \in Data
      BY <1>7, <1>8 DEF Typed, Chain
    <3> QED BY <1>3, <3>1
  <2>3. \A i \in 1 .. m + 1 : t[i] = IF i = 1 THEN d ELSE s[i - 1]
    BY <1>2, <1>3, <1>4, <2>1
  <2> HIDE DEF s, t
  <2>4. <<d>> \in Seq(Data) /\ Len(<<d>>) = 1 /\ <<d>>[1] = d
    OBVIOUS
  <2>5. /\ <<d>> \o s \in Seq(Data) /\ Len(<<d>> \o s) = 1 + m
        /\ \A i \in 1 .. 1 + m : (<<d>> \o s)[i] = IF i <= 1 THEN <<d>>[i] ELSE s[i - 1]
    BY <2>1, <2>4, ConcatProperties
  <2>6. \A i \in 1 .. m + 1 : (<<d>> \o s)[i] = t[i]
    BY <1>3, <2>3, <2>4, <2>5
  <2>7. t = <<d>> \o s
    BY <1>3, <2>2, <2>5, <2>6, SeqEqual
  <2> QED BY <1>5, <2>7 DEF DataAt, s, t
<1>11. Holds(b)'
  BY <1>3, <1>5, <1>8, <1>9 DEF Holds
<1> HIDE DEF b
<1> QED BY <1>5, <1>7, <1>10, <1>11

\* The heap without the element at p, whose neighbours are linked to each other.
Spliced(p) ==
    [q \in DOMAIN heap \ {p} |->
        [data |-> heap[q].data,
         pForward |-> IF q = heap[p].pBackward THEN heap[p].pForward ELSE heap[q].pForward,
         pBackward |-> IF q = heap[p].pForward THEN heap[p].pBackward ELSE heap[q].pBackward]]

\* The element at p is deleted; what pBegin or pEnd has to lead to is moved.
Removes(p) ==
    /\ heap' = Spliced(p) /\ m_nSize' = m_nSize - 1
    /\ pBegin' = IF heap[p].pForward = NULL THEN heap[p].pBackward ELSE pBegin
    /\ pEnd' = IF heap[p].pBackward = NULL THEN heap[p].pForward ELSE pEnd

\* The sequence s without its k-th element.
Shorter(s, k, n) == [i \in 1 .. n - 1 |-> IF i < k THEN s[i] ELSE s[i + 1]]

\* Removing an element closes the gap it leaves.
LEMMA Closed ==
    ASSUME Typed, NEW c, Holds(c), NEW m, m = m_nSize, NEW k \in 1 .. m, Removes(c[k]),
           it' = NULL \/ it' = heap[c[k]].pBackward
    PROVE  /\ Typed'
           /\ Holds(Shorter(c, k, m))'
           /\ DataAt(Shorter(c, k, m))' = Shorter(DataAt(c), k, m)
<1>1. PICK p, f, r : p = c[k] /\ f = heap[p].pForward /\ r = heap[p].pBackward
  OBVIOUS
<1> DEFINE b == Shorter(c, k, m)
<1>2. /\ c \in [1 .. m -> DOMAIN heap] /\ m \in Nat /\ k \in Nat /\ k <= m /\ m > 0
      /\ \A i \in 1 .. m : c[i] \in DOMAIN heap /\ c[i] # NULL
  BY Neighbours
<1>3. \A i, j \in 1 .. m : c[i] = c[j] => i = j
  BY DEF Holds, Chain
<1>4. /\ f = IF k = 1 THEN NULL ELSE c[k - 1]
      /\ r = IF k = m THEN NULL ELSE c[k + 1]
      /\ pBegin = c[1] /\ pEnd = c[m]
  BY <1>1, <1>2 DEF Holds, Linked
<1>5. f = NULL <=> k = 1
  BY <1>2, <1>4
<1>6. r = NULL <=> k = m
  BY <1>2, <1>4
<1>7. /\ heap' = Spliced(p) /\ DOMAIN heap' = DOMAIN heap \ {p} /\ m_nSize' = m - 1
      /\ pBegin' = (IF k = 1 THEN r ELSE pBegin) /\ pEnd' = (IF k = m THEN f ELSE pEnd)
  BY <1>1, <1>5, <1>6 DEF Removes, Spliced
<1>8. \A q \in DOMAIN heap \ {p} :
        /\ heap'[q].data = heap[q].data
        /\ heap'[q].pForward = IF q = r THEN f ELSE heap[q].pForward
        /\ heap'[q].pBackward = IF q = f THEN r ELSE heap[q].pBackward
  BY <1>1, <1>7 DEF Spliced
<1>9. m - 1 \in Nat /\ \A i \in 1 .. m - 1 : b[i] = IF i < k THEN c[i] ELSE c[i + 1]
  BY <1>2 DEF Shorter
<1>10. \A i \in 1 .. m - 1 : b[i] \in DOMAIN heap \ {p}
  <2> SUFFICES ASSUME NEW i \in 1 .. m - 1 PROVE b[i] \in DOMAIN heap \ {p}
    OBVIOUS
  <2>1. CASE i < k
    BY <2>1, <1>1, <1>2, <1>3, <1>9
  <2>2. CASE ~(i < k)
    <3>1. i + 1 \in 1 .. m /\ i + 1 # k
      BY <2>2, <1>2
    <3> QED BY <2>2, <3>1, <1>1, <1>2, <1>3, <1>9
  <2> QED BY <2>1, <2>2
<1>11. Typed'
  <2>1. f \in Pointer /\ r \in Pointer
    BY <1>1, <1>2 DEF Typed
  <2>2. heap' \in [DOMAIN heap' -> [data : Data, pForward : Pointer, pBackward : Pointer]]
    BY <1>1, <1>7, <2>1 DEF Typed, Spliced
  <2>3. it' = NULL \/ it' \in DOMAIN heap'
    <3>1. k # m => k + 1 \in 1 .. m /\ k + 1 # k
      BY <1>2
    <3>2. k # m => c[k + 1] \in DOMAIN heap /\ c[k + 1] # p
      BY <3>1, <1>1, <1>2, <1>3
    <3> QED BY <3>2, <1>1, <1>4, <1>7
  <2> QED BY <1>7, <2>2, <2>3 DEF Typed
<1>12. Chain(b, m - 1)'
  <2>1. b \in [1 .. m - 1 -> DOMAIN heap']
    BY <1>7, <1>10 DEF Shorter
  <2>2. ASSUME NEW i \in 1 .. m - 1, NEW j \in 1 .. m - 1, b[i] = b[j] PROVE i = j
    <3>1. PICK x \in 1 .. m, y \in 1 .. m : /\ x = (IF i < k THEN i ELSE i + 1)
                                            /\ y = (IF j < k THEN j ELSE j + 1)
      BY <1>2
    <3>2. c[x] = c[y]
      BY <2>2, <3>1, <1>9
    <3>3. x = y
      BY <1>3, <3>2
    <3> QED BY <1>2, <3>1, <3>3
  <2>3. ASSUME NEW q \in DOMAIN heap' PROVE \E i \in 1 .. m - 1 : b[i] = q
    <3>1. q \in DOMAIN heap /\ q # p
      BY <1>7
    <3>2. PICK j \in 1 .. m : c[j] = q
      BY <3>1 DEF Holds, Chain
    <3>3. CASE j < k
      <4>1. j \in 1 .. m - 1 /\ b[j] = q
        BY <3>2, <3>3, <1>2, <1>9
      <4> QED BY <4>1
    <3>4. CASE j > k
      <4>1. j - 1 \in 1 .. m - 1 /\ ~(j - 1 < k) /\ j - 1 + 1 = j
        BY <3>4, <1>2
      <4>2. b[j - 1] = q
        BY <4>1, <3>2, <1>9
      <4> QED BY <4>1, <4>2
    <3> QED BY <3>1, <3>2, <3>3, <3>4, <1>1, <1>2
  <2> HIDE DEF b
  <2> QED BY <1>9, <2>1, <2>2, <2>3 DEF Chain
<1>13. Linked(b, m - 1)'
  <2>1. pBegin' = IF m - 1 = 0 THEN NULL ELSE b[1]
    <3>1. CASE m = 1
      BY <3>1, <1>2, <1>4, <1>7
    <3>2. CASE m # 1
      <4>1. b[1] = IF k = 1 THEN c[2] ELSE c[1]
        BY <3>2, <1>2, <1>9
      <4> QED BY <3>2, <4>1, <1>2, <1>4, <1>7
    <3> QED BY <3>1, <3>2
  <2>2. pEnd' = IF m - 1 = 0 THEN NULL ELSE b[m - 1]
    <3>1. CASE m = 1
      BY <3>1, <1>2, <1>4, <1>7
    <3>2. CASE m # 1
      <4>1. b[m - 1] = IF k = m THEN c[m - 1] ELSE c[m]
        <5>1. m - 1 \in 1 .. m - 1 /\ (m - 1 < k <=> k = m) /\ m - 1 + 1 = m
          BY <3>2, <1>2
        <5> QED BY <5>1, <1>9
      <4> QED BY <3>2, <4>1, <1>2, <1>4, <1>7
    <3> QED BY <3>1, <3>2
  <2>3. ASSUME NEW i \in 1 .. m - 1
        PROVE  /\ heap'[b[i]].pForward = IF i = 1 THEN NULL ELSE b[i - 1]
               /\ heap'[b[i]].pBackward = IF i = m - 1 THEN NULL ELSE b[i + 1]
    <3>1. PICK x \in 1 .. m : x = (IF i < k THEN i ELSE i + 1)
      BY <1>2
    <3>2. b[i] = c[x] /\ c[x] \in DOMAIN heap \ {p}
      BY <3>1, <1>9, <1>10
    <3>3. /\ heap[c[x]].pForward = IF x = 1 THEN NULL ELSE c[x - 1]
          /\ heap[c[x]].pBackward = IF x = m THEN NULL ELSE c[x + 1]
      BY DEF Holds, Linked
    <3>4. c[x] = r <=> k # m /\ x = k + 1
      BY <1>2, <1>3, <1>4
    <3>5. c[x] = f <=> k # 1 /\ x = k - 1
      BY <1>2, <1>3, <1>4
    <3>6. i # 1 => b[i - 1] = IF i - 1 < k THEN c[i - 1] ELSE c[i]
      BY <1>2, <1>9
    <3>7. i # m - 1 => b[i + 1] = IF i + 1 < k THEN c[i + 1] ELSE c[i + 2]
      BY <1>2, <1>9
    <3>8. heap'[b[i]].pForward = IF i = 1 THEN NULL ELSE b[i - 1]
      <4>1. heap'[b[i]].pForward = IF k # m /\ x = k + 1 THEN f ELSE heap[c[x]].pForward
        BY <1>8, <3>2, <3>4
      <4>2. CASE i < k
        BY <4>1, <4>2, <1>2, <3>1, <3>3, <3>6
      <4>3. CASE i = k
        BY <4>1, <4>3, <1>2, <1>4, <3>1, <3>6
      <4>4. CASE i > k
        BY <4>1, <4>4, <1>2, <3>1, <3>3, <3>6
      <4> QED BY <1>2, <4>2, <4>3, <4>4
    <3>9. heap'[b[i]].pBackward = IF i = m - 1 THEN NULL ELSE b[i + 1]
      <4>1. heap'[b[i]].pBackward = IF k # 1 /\ x = k - 1 THEN r ELSE heap[c[x]].pBackward
        BY <1>8, <3>2, <3>5
      <4>2. CASE i >= k
        <5>1. x = i + 1 /\ x # k - 1 /\ x + 1 = i + 2 /\ ~(i + 1 < k) /\ (x = m <=> i = m - 1)
          BY <4>2, <1>2, <3>1
        <5> QED BY <4>1, <5>1, <3>3, <3>7
      <4>3. CASE i = k - 1
        <5>1. x = i /\ k # 1 /\ ~(i + 1 < k) /\ (k = m <=> i = m - 1) /\ i + 2 = k + 1
          BY <4>3, <1>2, <3>1
        <5> QED BY <4>1, <4>3, <5>1, <1>4, <3>7
      <4>4. CASE i < k - 1
        <5>1. x = i /\ i + 1 < k /\ i # m /\ i # m - 1 /\ x # k - 1
          BY <4>4, <1>2, <3>1
        <5> QED BY <4>1, <5>1, <3>3, <3>7
      <4> QED BY <1>2, <4>2, <4>3, <4>4
    <3> QED BY <3>8, <3>9
  <2> HIDE DEF b
  <2> QED BY <2>1, <2>2, <2>3 DEF Linked
<1>14. DataAt(b)' = Shorter(DataAt(c), k, m)
  <2>1. \A i \in 1 .. m - 1 : heap'[b[i]].data = heap[b[i]].data
    BY <1>8, <1>10
  <2>2. \A i \in 1 .. m - 1 : heap[b[i]].data = IF i < k THEN DataAt(c)[i] ELSE DataAt(c)[i + 1]
    BY <1>2, <1>9 DEF DataAt
  <2>3. DataAt(b)' = [i \in 1 .. m - 1 |-> heap'[b[i]].data]
    BY <1>7 DEF DataAt
  <2> HIDE DEF b
  <2> QED BY <2>1, <2>2, <2>3 DEF Shorter
<1>15. Holds(b)'
  BY <1>7, <1>9, <1>12, <1>13 DEF Holds
<1> QED BY <1>11, <1>14, <1>15

\* In each of the four cases of erase() and in both of a pop the neighbours are linked.
LEMMA Relinked ==
    ASSUME Typed, NEW p \in DOMAIN heap, NEW f, NEW r,
           f = heap[p].pForward, r = heap[p].pBackward,
           f = NULL \/ f \in DOMAIN heap, r = NULL \/ r \in DOMAIN heap
    PROVE  /\ f = NULL /\ r = NULL => Without(heap, {p}) = Spliced(p)
           /\ f = NULL /\ r # NULL => Without([heap EXCEPT ![r].pForward = NULL], {p}) = Spliced(p)
           /\ f # NULL /\ r = NULL => Without([heap EXCEPT ![f].pBackward = NULL], {p}) = Spliced(p)
           /\ f # NULL /\ r # NULL => Without(Unlink(p), {p}) = Spliced(p)
<1>1. NULL \notin DOMAIN heap
  BY ListAssumption DEF Typed, NULL
<1>2. ASSUME NEW e, DOMAIN e = DOMAIN heap,
             \A q \in DOMAIN heap \ {p} :
               e[q] = [data |-> heap[q].data,
                       pForward |-> IF q = r THEN f ELSE heap[q].pForward,
                       pBackward |-> IF q = f THEN r ELSE heap[q].pBackward]
      PROVE  Without(e, {p}) = Spliced(p)
  BY <1>2 DEF Without, Restrict, Spliced
<1>3. \A q \in DOMAIN heap : heap[q] = [data |-> heap[q].data, pForward |-> heap[q].pForward,
                                        pBackward |-> heap[q].pBackward]
  BY DEF Typed
<1>4. CASE f = NULL /\ r = NULL
  <2>1. \A q \in DOMAIN heap \ {p} :
          heap[q] = [data |-> heap[q].data,
                     pForward |-> IF q = r THEN f ELSE heap[q].pForward,
                     pBackward |-> IF q = f THEN r ELSE heap[q].pBackward]
    BY <1>1, <1>3, <1>4
  <2> QED BY <1>2, <1>4, <2>1
<1>5. CASE f = NULL /\ r # NULL
  <2> DEFINE e == [heap EXCEPT ![r].pForward = NULL]
  <2>1. DOMAIN e = DOMAIN heap
    OBVIOUS
  <2>2. \A q \in DOMAIN heap \ {p} :
          e[q] = [data |-> heap[q].data,
                  pForward |-> IF q = r THEN f ELSE heap[q].pForward,
                  pBackward |-> IF q = f THEN r ELSE heap[q].pBackward]
    BY <1>1, <1>5 DEF Typed
  <2> HIDE DEF e
  <2>3. Without(e, {p}) = Spliced(p)
    BY <1>2, <2>1, <2>2
  <2> QED BY <1>5, <2>3 DEF e
<1>6. CASE f # NULL /\ r = NULL
  <2> DEFINE e == [heap EXCEPT ![f].pBackward = NULL]
  <2>1. DOMAIN e = DOMAIN heap
    OBVIOUS
  <2>2. \A q \in DOMAIN heap \ {p} :
          e[q] = [data |-> heap[q].data,
                  pForward |-> IF q = r THEN f ELSE heap[q].pForward,
                  pBackward |-> IF q = f THEN r ELSE heap[q].pBackward]
    BY <1>1, <1>6 DEF Typed
  <2> HIDE DEF e
  <2>3. Without(e, {p}) = Spliced(p)
    BY <1>2, <2>1, <2>2
  <2> QED BY <1>6, <2>3 DEF e
<1>7. CASE f # NULL /\ r # NULL
  <2>1. DOMAIN Unlink(p) = DOMAIN heap
    BY DEF Unlink
  <2>2. \A q \in DOMAIN heap \ {p} :
          Unlink(p)[q] = [data |-> heap[q].data,
                          pForward |-> IF q = r THEN f ELSE heap[q].pForward,
                          pBackward |-> IF q = f THEN r ELSE heap[q].pBackward]
    BY <1>7 DEF Typed, Unlink
  <2>3. Without(Unlink(p), {p}) = Spliced(p)
    BY <1>2, <2>1, <2>2
  <2> QED BY <1>7, <2>3
<1> QED BY <1>4, <1>5, <1>6, <1>7

\* What the pointers of the k-th element are.
LEMMA ElementAt ==
    ASSUME Typed, NEW c, Holds(c), NEW m, m = m_nSize, NEW k \in 1 .. m
    PROVE  /\ c[k] \in DOMAIN heap
           /\ heap[c[k]].pForward = IF k = 1 THEN NULL ELSE c[k - 1]
           /\ heap[c[k]].pBackward = IF k = m THEN NULL ELSE c[k + 1]
           /\ heap[c[k]].pForward = NULL <=> k = 1
           /\ heap[c[k]].pBackward = NULL <=> k = m
           /\ heap[c[k]].pForward = NULL \/ heap[c[k]].pForward \in DOMAIN heap
           /\ heap[c[k]].pBackward = NULL \/ heap[c[k]].pBackward \in DOMAIN heap
<1>1. m \in Nat /\ \A i \in 1 .. m : c[i] \in DOMAIN heap /\ c[i] # NULL
  BY Neighbours
<1>2. /\ heap[c[k]].pForward = IF k = 1 THEN NULL ELSE c[k - 1]
      /\ heap[c[k]].pBackward = IF k = m THEN NULL ELSE c[k + 1]
  BY DEF Holds, Linked
<1>3. k # 1 => k - 1 \in 1 .. m
  BY <1>1
<1>4. k # m => k + 1 \in 1 .. m
  BY <1>1
<1> QED BY <1>1, <1>2, <1>3, <1>4

LEMMA PopBackRemoves ==
    ASSUME Typed, NEW c, Holds(c), NEW m, m = m_nSize, pop_back
    PROVE  m \in 1 .. m /\ Removes(c[m]) /\ it' = NULL
<1>1. m \in Nat /\ m # 0 /\ pEnd = c[m]
  BY Neighbours DEF pop_back, Holds, Linked
<1>2. m \in 1 .. m
  BY <1>1
<1> DEFINE p == c[m]
<1>3. PICK f, r : f = heap[p].pForward /\ r = heap[p].pBackward
  OBVIOUS
<1>4. p \in DOMAIN heap /\ r = NULL /\ (f = NULL \/ f \in DOMAIN heap)
  BY <1>2, <1>3, ElementAt
<1>5. CASE f # NULL
  <2>1. /\ pEnd' = f /\ pBegin' = pBegin /\ m_nSize' = m - 1
        /\ heap' = Without([heap EXCEPT ![f].pBackward = NULL], {p})
    BY <1>1, <1>3, <1>5 DEF pop_back, Delete
  <2>2. heap' = Spliced(p)
    BY <1>3, <1>4, <1>5, <2>1, Relinked
  <2> QED BY <1>2, <1>3, <1>4, <1>5, <2>1, <2>2 DEF Removes, pop_back
<1>6. CASE f = NULL
  <2>1. pEnd' = NULL /\ pBegin' = NULL /\ m_nSize' = m - 1 /\ heap' = Without(heap, {p})
    BY <1>1, <1>3, <1>6 DEF pop_back, Delete, Empty
  <2>2. heap' = Spliced(p)
    BY <1>3, <1>4, <1>6, <2>1, Relinked
  <2> QED BY <1>2, <1>3, <1>4, <1>6, <2>1, <2>2 DEF Removes, pop_back
<1> QED BY <1>5, <1>6

LEMMA PopFrontRemoves ==
    ASSUME Typed, NEW c, Holds(c), NEW m, m = m_nSize, pop_front
    PROVE  1 \in 1 .. m /\ Removes(c[1]) /\ it' = NULL
<1>1. m \in Nat /\ m # 0 /\ pBegin = c[1]
  BY Neighbours DEF pop_front, Holds, Linked
<1>2. 1 \in 1 .. m
  BY <1>1
<1> DEFINE p == c[1]
<1>3. PICK f, r : f = heap[p].pForward /\ r = heap[p].pBackward
  OBVIOUS
<1>4. p \in DOMAIN heap /\ f = NULL /\ (r = NULL \/ r \in DOMAIN heap)
  BY <1>2, <1>3, ElementAt
<1>5. CASE r # NULL
  <2>1. /\ pBegin' = r /\ pEnd' = pEnd /\ m_nSize' = m - 1
        /\ heap' = Without([heap EXCEPT ![r].pForward = NULL], {p})
    BY <1>1, <1>3, <1>5 DEF pop_front, Delete
  <2>2. heap' = Spliced(p)
    BY <1>3, <1>4, <1>5, <2>1, Relinked
  <2> QED BY <1>2, <1>3, <1>4, <1>5, <2>1, <2>2 DEF Removes, pop_front
<1>6. CASE r = NULL
  <2>1. pEnd' = NULL /\ pBegin' = NULL /\ m_nSize' = m - 1 /\ heap' = Without(heap, {p})
    BY <1>1, <1>3, <1>6 DEF pop_front, Delete, Empty
  <2>2. heap' = Spliced(p)
    BY <1>3, <1>4, <1>6, <2>1, Relinked
  <2> QED BY <1>2, <1>3, <1>4, <1>6, <2>1, <2>2 DEF Removes, pop_front
<1> QED BY <1>5, <1>6

LEMMA EraseRemoves ==
    ASSUME Typed, NEW c, Holds(c), NEW m, m = m_nSize, NEW k \in 1 .. m, erase(c[k])
    PROVE  Removes(c[k]) /\ it' = heap[c[k]].pBackward
<1> DEFINE p == c[k]
<1>1. PICK f, r : f = heap[p].pForward /\ r = heap[p].pBackward
  OBVIOUS
<1>2. p \in DOMAIN heap /\ (f = NULL \/ f \in DOMAIN heap) /\ (r = NULL \/ r \in DOMAIN heap)
  BY <1>1, ElementAt
<1>3. it' = r
  BY <1>1 DEF erase, Following
<1>4. CASE f = NULL /\ r = NULL
  <2>1. pEnd' = NULL /\ pBegin' = NULL /\ m_nSize' = m - 1 /\ heap' = Without(heap, {p})
    BY <1>1, <1>4 DEF erase, Delete, Empty
  <2>2. heap' = Spliced(p)
    BY <1>1, <1>2, <1>4, <2>1, Relinked
  <2> QED BY <1>1, <1>3, <1>4, <2>1, <2>2 DEF Removes
<1>5. CASE f = NULL /\ r # NULL
  <2>1. /\ pBegin' = r /\ pEnd' = pEnd /\ m_nSize' = m - 1
        /\ heap' = Without([heap EXCEPT ![r].pForward = NULL], {p})
    BY <1>1, <1>5 DEF erase, Delete
  <2>2. heap' = Spliced(p)
    BY <1>1, <1>2, <1>5, <2>1, Relinked
  <2> QED BY <1>1, <1>3, <1>5, <2>1, <2>2 DEF Removes
<1>6. CASE f # NULL /\ r = NULL
  <2>1. /\ pEnd' = f /\ pBegin' = pBegin /\ m_nSize' = m - 1
        /\ heap' = Without([heap EXCEPT ![f].pBackward = NULL], {p})
    BY <1>1, <1>6 DEF erase, Delete
  <2>2. heap' = Spliced(p)
    BY <1>1, <1>2, <1>6, <2>1, Relinked
  <2> QED BY <1>1, <1>3, <1>6, <2>1, <2>2 DEF Removes
<1>7. CASE f # NULL /\ r # NULL
  <2>1. /\ pEnd' = pEnd /\ pBegin' = pBegin /\ m_nSize' = m - 1
        /\ heap' = Without(Unlink(p), {p})
    BY <1>1, <1>7 DEF erase, Delete
  <2>2. heap' = Spliced(p)
    BY <1>1, <1>2, <1>7, <2>1, Relinked
  <2> QED BY <1>1, <1>3, <1>7, <2>1, <2>2 DEF Removes
<1> QED BY <1>4, <1>5, <1>6, <1>7

\* clear() leaves nothing behind: from the back it finds every element.
LEMMA Cleared ==
    ASSUME Typed, NEW c, Holds(c), clear
    PROVE  /\ Typed' /\ it' = NULL
           /\ \E b : Holds(b)' /\ DataAt(b)' = <<>>
<1> DEFINE found == {Steps(pEnd, i, "pForward") : i \in 0 .. m_nSize}
           b == [i \in 1 .. 0 |-> NULL]
<1>1. c \in [1 .. m_nSize -> DOMAIN heap] /\ m_nSize \in Nat
  BY Neighbours
<1>2. DOMAIN heap \subseteq found
  <2> SUFFICES ASSUME NEW p \in DOMAIN heap PROVE p \in found
    OBVIOUS
  <2>1. PICK i \in 1 .. m_nSize : c[i] = p
    BY DEF Holds, Chain
  <2>2. m_nSize - i \in 0 .. m_nSize /\ m_nSize - i # m_nSize /\ m_nSize - (m_nSize - i) = i
    BY <1>1
  <2>3. Steps(pEnd, m_nSize - i, "pForward") = p
    BY <2>1, <2>2, WalkFromBack DEF Holds
  <2> QED BY <2>2, <2>3
<1>3. heap' = Without(heap, found) /\ pBegin' = NULL /\ pEnd' = NULL /\ m_nSize' = 0 /\ it' = NULL
  BY DEF clear, Empty
<1> HIDE DEF found
<1>4. DOMAIN heap' = {} /\ heap' \in [DOMAIN heap' -> [data : Data, pForward : Pointer, pBackward : Pointer]]
  BY <1>2, <1>3 DEF Without, Restrict
<1>5. Typed'
  BY <1>3, <1>4 DEF Typed
<1>6. Holds(b)'
  BY <1>3, <1>4 DEF Holds, Chain, Linked
<1>7. DataAt(b)' = <<>>
  BY <1>3 DEF DataAt
<1> HIDE DEF b
<1> QED BY <1>3, <1>5, <1>6, <1>7

-------------------------------------------------------------------------------
(* The list implements the double-ended queue. *)

\* What Shorter leaves is what RemoveAt, Front and Tail leave.
LEMMA ShorterIsRemoveAt ==
    ASSUME NEW s \in Seq(Data), NEW m, m = Len(s), NEW k \in 1 .. m
    PROVE  /\ Shorter(s, k, m) = D!RemoveAt(s, k)
           /\ k = m => Shorter(s, k, m) = D!Front(s)
           /\ k = 1 => Shorter(s, k, m) = Tail(s)
<1> DEFINE t == Shorter(s, k, m)
           before == SubSeq(s, 1, k - 1)
           behind == SubSeq(s, k + 1, m)
<1>1. m \in Nat /\ k \in Nat /\ 1 <= k /\ k <= m /\ \A i \in 1 .. m : s[i] \in Data
  OBVIOUS
<1>2. m - 1 \in Nat /\ \A i \in 1 .. m - 1 : t[i] = (IF i < k THEN s[i] ELSE s[i + 1]) /\ t[i] \in Data
  BY <1>1 DEF Shorter
<1>3. t \in Seq(Data) /\ Len(t) = m - 1
  BY <1>1, <1>2 DEF Shorter
<1>4. /\ before \in Seq(Data) /\ Len(before) = k - 1
      /\ \A i \in 1 .. k - 1 : before[i] = s[i]
  <2>1. 1 \in Int /\ k - 1 \in Int /\ \A i \in 1 .. k - 1 : s[i] \in Data
    BY <1>1
  <2>2. /\ before \in Seq(Data) /\ Len(before) = (IF 1 <= k - 1 THEN k - 1 - 1 + 1 ELSE 0)
        /\ \A i \in 1 .. k - 1 - 1 + 1 : before[i] = s[1 + i - 1]
    BY <2>1, SubSeqProperties
  <2>3. \A i \in 1 .. k - 1 : i \in 1 .. k - 1 - 1 + 1 /\ 1 + i - 1 = i
    BY <1>1
  <2> HIDE DEF before
  <2> QED BY <1>1, <2>2, <2>3
<1>5. /\ behind \in Seq(Data) /\ Len(behind) = m - k
      /\ \A i \in 1 .. m - k : behind[i] = s[k + i]
  <2>1. k + 1 \in Int /\ m \in Int /\ \A i \in k + 1 .. m : s[i] \in Data
    BY <1>1
  <2>2. /\ behind \in Seq(Data) /\ Len(behind) = (IF k + 1 <= m THEN m - (k + 1) + 1 ELSE 0)
        /\ \A i \in 1 .. m - (k + 1) + 1 : behind[i] = s[k + 1 + i - 1]
    BY <2>1, SubSeqProperties
  <2>3. \A i \in 1 .. m - k : i \in 1 .. m - (k + 1) + 1 /\ k + 1 + i - 1 = k + i
    BY <1>1
  <2> HIDE DEF behind
  <2> QED BY <1>1, <2>2, <2>3
<1>6. D!RemoveAt(s, k) = before \o behind /\ D!Front(s) = SubSeq(s, 1, m - 1)
  BY DEF D!RemoveAt, D!Front
<1> HIDE DEF t, before, behind
<1>7. t = before \o behind
  <2> DEFINE whole == before \o behind
  <2>1. /\ whole \in Seq(Data) /\ Len(whole) = m - 1
        /\ \A i \in 1 .. m - 1 : whole[i] = IF i <= k - 1 THEN before[i] ELSE behind[i - (k - 1)]
    <3>1. /\ whole \in Seq(Data) /\ Len(whole) = Len(before) + Len(behind)
          /\ \A i \in 1 .. Len(before) + Len(behind) :
               whole[i] = IF i <= Len(before) THEN before[i] ELSE behind[i - Len(before)]
      BY <1>4, <1>5, ConcatProperties
    <3>2. Len(before) = k - 1 /\ Len(before) + Len(behind) = m - 1
      BY <1>1, <1>4, <1>5
    <3> HIDE DEF whole
    <3> QED BY <3>1, <3>2
  <2> HIDE DEF whole
  <2>2. ASSUME NEW i \in 1 .. m - 1 PROVE t[i] = whole[i]
    <3>1. CASE i < k
      <4>1. i <= k - 1 /\ i \in 1 .. k - 1
        BY <3>1, <1>1
      <4> QED BY <3>1, <4>1, <1>2, <1>4, <2>1
    <3>2. CASE ~(i < k)
      <4>1. i - (k - 1) \in 1 .. m - k /\ k + (i - (k - 1)) = i + 1 /\ ~(i <= k - 1)
        BY <3>2, <1>1
      <4> QED BY <3>2, <4>1, <1>2, <1>5, <2>1
    <3> QED BY <3>1, <3>2
  <2>3. t = whole
    BY <1>3, <2>1, <2>2, SeqEqual
  <2> QED BY <2>3 DEF whole
<1>8. ASSUME k = m PROVE t = SubSeq(s, 1, m - 1)
  <2>1. t = before \o <<>>
    <3>1. Len(behind) = 0
      BY <1>1, <1>5, <1>8
    <3>2. behind = <<>>
      BY <1>5, <3>1, EmptySeq
    <3> QED BY <1>7, <3>2
  <2>2. before \o <<>> = before
    BY <1>4, ConcatEmptySeq
  <2> QED BY <1>8, <2>1, <2>2 DEF before
<1>9. ASSUME k = 1 PROVE t = Tail(s)
  <2>1. s # <<>>
    BY <1>1
  <2>2. /\ Tail(s) \in Seq(Data) /\ Len(Tail(s)) = m - 1
        /\ \A i \in 1 .. Len(Tail(s)) : Tail(s)[i] = s[i + 1]
    BY <2>1, HeadTailProperties
  <2>3. \A i \in 1 .. m - 1 : t[i] = s[i + 1]
    BY <1>2, <1>9
  <2> QED BY <1>3, <2>2, <2>3, SeqEqual
<1> QED BY <1>6, <1>7, <1>8, <1>9 DEF t

Mapped == <<Content, Position(it), Cardinality(DOMAIN heap)>>

\* Every step keeps the chains, and is a step of the queue or leaves it alone.
LEMMA StepHolds ==
    ListInv /\ [ListNext]_listVars => ListInv' /\ [D!Next]_Mapped
<1> SUFFICES ASSUME ListInv, [ListNext]_listVars PROVE ListInv' /\ [D!Next]_Mapped
  OBVIOUS
<1>1. PICK c : Typed /\ Holds(c)
  BY DEF ListInv
<1>2. PICK m : m = m_nSize
  OBVIOUS
<1>3. /\ m \in Nat
      /\ Content = DataAt(c) /\ Content \in Seq(Data) /\ Len(Content) = m
      /\ \A i \in 1 .. m : at(i - 1) = c[i]
  BY <1>1, <1>2, Reading DEF Reads, Holds
<1>4. ASSUME NEW b, Typed', Holds(b)'
      PROVE  /\ ListInv'
             /\ Content' = DataAt(b)' /\ Cardinality(DOMAIN heap)' = Len(Content')
  <2>1. Reads(b)'
    BY <1>4, ReadingNext
  <2> QED BY <1>4, <2>1 DEF Reads, ListInv
<1>5. it' = NULL => Position(it)' = 0
  BY DEF Position
<1>6. ASSUME NEW d \in Data, push_back(d) PROVE ListInv' /\ D!PushBack
  <2>1. Typed' /\ it' = NULL
    BY <1>1, <1>6, Pushed
  <2>2. PICK b : Holds(b)' /\ DataAt(b)' = Append(DataAt(c), d)
    BY <1>1, <1>6, Pushed
  <2>3. ListInv' /\ D!Become(Append(Content, d))
    BY <1>3, <1>4, <2>1, <2>2 DEF D!Become
  <2> QED BY <1>5, <2>1, <2>3 DEF D!PushBack
<1>7. ASSUME NEW d \in Data, push_front(d) PROVE ListInv' /\ D!PushFront
  <2>1. Typed' /\ it' = NULL
    BY <1>1, <1>7, PushedInFront
  <2>2. PICK b : Holds(b)' /\ DataAt(b)' = <<d>> \o DataAt(c)
    BY <1>1, <1>7, PushedInFront
  <2>3. ListInv' /\ D!Become(<<d>> \o Content)
    BY <1>3, <1>4, <2>1, <2>2 DEF D!Become
  <2> QED BY <1>5, <2>1, <2>3 DEF D!PushFront
<1>8. ASSUME NEW k \in 1 .. m, Removes(c[k]), it' = NULL \/ it' = heap[c[k]].pBackward
      PROVE  ListInv' /\ D!Become(Shorter(Content, k, m))
  <2>1. PICK b : b = Shorter(c, k, m)
    OBVIOUS
  <2>2. Typed' /\ Holds(b)' /\ DataAt(b)' = Shorter(Content, k, m)
    BY <1>1, <1>2, <1>3, <1>8, <2>1, Closed
  <2> QED BY <1>4, <2>2 DEF D!Become
<1>9. CASE pop_back
  <2>1. m \in 1 .. m /\ Removes(c[m]) /\ it' = NULL
    BY <1>1, <1>2, <1>9, PopBackRemoves
  <2>2. ListInv' /\ D!Become(Shorter(Content, m, m))
    BY <1>8, <2>1
  <2>3. Content # <<>> /\ Shorter(Content, m, m) = D!Front(Content)
    BY <1>3, <2>1, ShorterIsRemoveAt
  <2>4. D!PopBack
    BY <1>5, <2>1, <2>2, <2>3 DEF D!PopBack
  <2> QED BY <2>2, <2>4 DEF D!Next
<1>10. CASE pop_front
  <2>1. 1 \in 1 .. m /\ Removes(c[1]) /\ it' = NULL
    BY <1>1, <1>2, <1>10, PopFrontRemoves
  <2>2. ListInv' /\ D!Become(Shorter(Content, 1, m))
    BY <1>8, <2>1
  <2>3. Content # <<>> /\ Shorter(Content, 1, m) = Tail(Content)
    <3>1. Shorter(Content, 1, m) = Tail(Content)
      BY <1>3, <2>1, ShorterIsRemoveAt
    <3>2. m >= 1 /\ Len(Content) = m
      BY <1>3, <2>1
    <3> QED BY <3>1, <3>2
  <2>4. D!PopFront
    BY <1>5, <2>1, <2>2, <2>3 DEF D!PopFront
  <2> QED BY <2>2, <2>4 DEF D!Next
<1>11. CASE clear
  <2>1. Typed' /\ it' = NULL
    BY <1>1, <1>11, Cleared
  <2>2. PICK b : Holds(b)' /\ DataAt(b)' = <<>>
    BY <1>1, <1>11, Cleared
  <2>3. ListInv' /\ D!Become(<<>>)
    BY <1>4, <2>1, <2>2 DEF D!Become
  <2>4. D!Clear
    BY <1>5, <2>1, <2>3 DEF D!Clear
  <2> QED BY <2>3, <2>4 DEF D!Next
<1>12. ASSUME NEW j \in 0 .. m_nSize - 1, erase(at(j)) PROVE ListInv' /\ D!Next
  <2>1. PICK k \in 1 .. m : j = k - 1
    BY <1>2, <1>3
  <2>2. erase(c[k])
    BY <1>3, <1>12, <2>1
  <2>3. Removes(c[k]) /\ it' = heap[c[k]].pBackward
    BY <1>1, <1>2, <2>2, EraseRemoves
  <2>4. ListInv' /\ D!Become(D!RemoveAt(Content, k))
    BY <1>3, <1>8, <2>3, ShorterIsRemoveAt
  <2>5. Position(it)' = IF k = m THEN 0 ELSE k
    <3>1. PICK b : b = Shorter(c, k, m)
      OBVIOUS
    <3>2. Reads(b)' /\ m_nSize' = m - 1
      <4>1. Typed' /\ Holds(b)'
        BY <1>1, <1>2, <2>3, <3>1, Closed
      <4>2. m_nSize' = m - 1
        BY <1>2, <2>3 DEF Removes
      <4> QED BY <4>1, <4>2, ReadingNext
    <3>3. heap[c[k]].pBackward = IF k = m THEN NULL ELSE c[k + 1]
      BY <1>1, <1>2, ElementAt
    <3>4. CASE k = m
      BY <1>5, <2>3, <3>3, <3>4
    <3>5. CASE k # m
      <4>1. k \in 1 .. m - 1 /\ b[k] = c[k + 1]
        BY <1>3, <3>1, <3>5 DEF Shorter
      <4>2. it' = b[k]
        BY <2>3, <3>3, <3>5, <4>1
      <4>3. (\A i \in 1 .. m_nSize : Position(b[i]) = i)'
        BY <3>2 DEF Reads
      <4>4. Position(b[k])' = k
        BY <3>2, <4>1, <4>3
      <4>5. Position(it)' = Position(b[k])'
        BY <4>2 DEF Position
      <4> QED BY <3>5, <4>4, <4>5
    <3> QED BY <3>4, <3>5
  <2>6. k \in DOMAIN Content /\ D!Erase(k)
    <3>1. k \in DOMAIN Content
      BY <1>3
    <3> QED BY <1>3, <2>4, <2>5, <3>1 DEF D!Erase
  <2> QED BY <2>4, <2>6 DEF D!Next
<1>13. CASE UNCHANGED listVars
  <2>1. Typed' /\ Holds(c)'
    BY <1>1, <1>13 DEF listVars, Typed, Holds, Chain, Linked
  <2>2. ListInv'
    BY <1>4, <2>1
  <2>3. Mapped' = Mapped
    BY <1>13 DEF Mapped, listVars, Content, Position, at, Steps
  <2> QED BY <2>2, <2>3
<1> QED
  BY <1>6, <1>7, <1>9, <1>10, <1>11, <1>12, <1>13 DEF ListNext, D!Next

\* The two chains of pointers always lead through the same elements, in opposite
\* directions, and m_nSize is their number (list.h:114-288).
THEOREM ChainsAgree == ListSpec => []ListInv
<1>1. ListInit => ListInv
  BY InitHolds
<1>2. ListInv /\ [ListNext]_listVars => ListInv'
  BY StepHolds
<1> QED BY <1>1, <1>2, PTL DEF ListSpec

\* Any sequence of pushes, pops, erasures and clear() leaves what it would leave of a
\* double-ended queue; erase() returns the position behind the element it takes, and as
\* many elements are allocated as the queue holds (list.h:114-288).
THEOREM ImplementsDeque == ListSpec => IsDeque
<1>1. ListInit => ListInv /\ D!Init
  BY InitHolds
<1>2. ListInv /\ [ListNext]_listVars => ListInv' /\ [D!Next]_<<Content, Position(it), Cardinality(DOMAIN heap)>>
  BY StepHolds DEF Mapped
<1> QED BY <1>1, <1>2, PTL DEF ListSpec, IsDeque, D!Spec

-------------------------------------------------------------------------------
(* The file in datagrams. *)

UdpSpec == UdpInit /\ [][UdpNext]_udpVars

-------------------------------------------------------------------------------
\* The k-th unit of the header and of the file f behind it.
Unit(f, k) == IF k = 1 THEN 1 ELSE IF k = 2 THEN Len(f) ELSE f[k - HeaderSize]

\* s holds the units that stand behind the first n.
StandsAt(f, s, n) == \A k \in 1 .. Len(s) : s[k] = Unit(f, n + k)

Total == HeaderSize + Len(file)

UdpTyped ==
    /\ file \in Seq(Nat)
    /\ left \in [call : Seq(Nat), rest : Seq(Nat)]
    /\ datagrams \in Seq(Seq(Nat))
    /\ receiver \in {"header", "data", "done", "failed"}
    /\ buf \in Seq(Nat) /\ nBytes \in Nat
    /\ arrived \in 0 .. Len(datagrams) /\ intact \in BOOLEAN
    /\ receiver = "header" => Len(buf) + nBytes = HeaderSize

\* Datagram i starts behind pos[i] units and ends before the next one.
Cut(pos) ==
    /\ pos \in [1 .. Len(datagrams) + 1 -> Nat] /\ pos[1] = 0
    /\ \A i \in 1 .. Len(datagrams) :
         /\ pos[i + 1] = pos[i] + Len(datagrams[i])
         /\ StandsAt(file, datagrams[i], pos[i])
         /\ Len(datagrams[i]) <= BUFF_SIZE
         /\ pos[i] < HeaderSize => pos[i + 1] <= HeaderSize
         /\ pos[i + 1] <= Total

\* n units have been sent: the rest of the call and of the file follow them, as far as
\* the sender has not given up.
Unsent(n) ==
    /\ StandsAt(file, left.call, n) /\ StandsAt(file, left.rest, n + Len(left.call))
    /\ n + Len(left.call) + Len(left.rest) <= Total
    /\ n < HeaderSize =>
         \/ n + Len(left.call) = HeaderSize
         \/ left.call = <<>> /\ left.rest = <<>>

\* n units were received as they were sent.
Received(n) ==
    /\ receiver = "header" => StandsAt(file, buf, 0) /\ Len(buf) = n
    /\ receiver = "data" =>
         /\ StandsAt(file, buf, HeaderSize) /\ HeaderSize + Len(buf) = n
         /\ Len(buf) + nBytes = Len(file)
    /\ receiver = "done" => buf = file

Cuts(pos) ==
    /\ Cut(pos)
    /\ Unsent(pos[Len(datagrams) + 1])
    /\ intact => Received(pos[arrived + 1])

UdpInv == UdpTyped /\ \E pos : Cuts(pos)

-------------------------------------------------------------------------------
\* c = a + b units, d behind them, n before them.
LEMMA Adding ==
    ASSUME NEW n \in Nat, NEW a \in Nat, NEW b \in Nat, NEW c \in Nat, a + b = c
    PROVE  /\ n + a + b = n + c /\ n + a <= n + c
           /\ \A d, t \in Nat : n + c + d <= t => n + a <= t
OBVIOUS

LEMMA InFront ==
    ASSUME NEW n \in Nat, NEW a \in Nat, NEW b \in Nat, NEW t \in Nat, n + a + b <= t
    PROVE  n <= t
OBVIOUS

LEMMA MinOfTwo == \A a, b \in Nat : Min({a, b}) = IF a <= b THEN a ELSE b
<1> SUFFICES ASSUME NEW a \in Nat, NEW b \in Nat PROVE Min({a, b}) = IF a <= b THEN a ELSE b
  OBVIOUS
<1> DEFINE m == IF a <= b THEN a ELSE b
<1>1. m \in {a, b} /\ \A y \in {a, b} : m <= y
  OBVIOUS
<1>2. \A x \in {a, b} : (\A y \in {a, b} : x <= y) => x = m
  OBVIOUS
<1> QED BY <1>1, <1>2, Zenon DEF Min

\* Upto(n, s) and After(n, s) cut s in two.
LEMMA CutInTwo ==
    ASSUME NEW n \in Nat, NEW s \in Seq(Nat)
    PROVE  /\ Upto(n, s) \in Seq(Nat) /\ After(n, s) \in Seq(Nat)
           /\ Len(Upto(n, s)) = IF n <= Len(s) THEN n ELSE Len(s)
           /\ Len(Upto(n, s)) + Len(After(n, s)) = Len(s)
           /\ \A k \in 1 .. Len(Upto(n, s)) : Upto(n, s)[k] = s[k]
           /\ \A k \in 1 .. Len(After(n, s)) : After(n, s)[k] = s[Len(Upto(n, s)) + k]
<1> DEFINE m == IF n <= Len(s) THEN n ELSE Len(s)
<1>1. Upto(n, s) = SubSeq(s, 1, m) /\ m \in 0 .. Len(s)
  <2>1. Len(s) \in Nat
    OBVIOUS
  <2>2. m \in 0 .. Len(s)
    BY <2>1
  <2>3. Min({n, Len(s)}) = m
    BY <2>1, MinOfTwo
  <2> QED BY <2>2, <2>3, Zenon DEF Upto
<1>2. /\ Upto(n, s) \in Seq(Nat) /\ Len(Upto(n, s)) = m
      /\ \A k \in 1 .. m : Upto(n, s)[k] = s[k]
  BY <1>1
<1>3. /\ After(n, s) \in Seq(Nat) /\ m + Len(After(n, s)) = Len(s)
      /\ \A k \in 1 .. Len(After(n, s)) : After(n, s)[k] = s[m + k]
  <2> DEFINE l == Len(s)
             v == SubSeq(s, n + 1, l)
  <2>1. l \in Nat /\ \A i \in n + 1 .. l : s[i] \in Nat
    BY ElementOfSeq
  <2>2. /\ v \in Seq(Nat)
        /\ Len(v) = IF n + 1 <= l THEN l - (n + 1) + 1 ELSE 0
        /\ \A i \in 1 .. l - (n + 1) + 1 : v[i] = s[n + 1 + i - 1]
    <3>1. n + 1 \in Int /\ l \in Int
      BY <2>1
    <3> HIDE DEF l
    <3> QED BY <2>1, <3>1, SubSeqProperties
  <2> HIDE DEF v
  <2>3. m + Len(v) = l
    <3> HIDE DEF l
    <3>1. m = IF n <= l THEN n ELSE l
      BY DEF l
    <3> HIDE DEF m
    <3> QED BY <2>1, <2>2, <3>1
  <2>4. ASSUME NEW k \in 1 .. Len(v) PROVE v[k] = s[m + k]
    <3>1. k \in 1 .. l - (n + 1) + 1 /\ m = n /\ n + 1 + k - 1 = m + k
      BY <2>1, <2>2
    <3> QED BY <2>2, <3>1
  <2> QED BY <2>2, <2>3, <2>4 DEF After, v
<1> QED BY <1>2, <1>3

\* What stands behind n units is cut at n + Len(Upto(m, s)).
LEMMA PartsStand ==
    ASSUME NEW f, NEW m \in Nat, NEW s \in Seq(Nat), NEW n \in Nat, StandsAt(f, s, n)
    PROVE  StandsAt(f, Upto(m, s), n) /\ StandsAt(f, After(m, s), n + Len(Upto(m, s)))
<1> DEFINE u == Upto(m, s)
           v == After(m, s)
<1>1. /\ Len(u) \in Nat /\ Len(v) \in Nat /\ Len(u) + Len(v) = Len(s)
      /\ \A k \in 1 .. Len(u) : u[k] = s[k]
      /\ \A k \in 1 .. Len(v) : v[k] = s[Len(u) + k]
  BY CutInTwo
<1> HIDE DEF u, v
<1>2. StandsAt(f, u, n)
  BY <1>1 DEF StandsAt
<1>3. ASSUME NEW k \in 1 .. Len(v) PROVE v[k] = Unit(f, n + Len(u) + k)
  <2>1. Len(u) + k \in 1 .. Len(s) /\ n + (Len(u) + k) = n + Len(u) + k
    BY <1>1
  <2>2. s[Len(u) + k] = Unit(f, n + (Len(u) + k))
    BY <2>1 DEF StandsAt
  <2> QED BY <1>1, <2>1, <2>2
<1> QED BY <1>2, <1>3 DEF StandsAt, u, v

\* Two parts that follow each other stand as one.
LEMMA JoinedStand ==
    ASSUME NEW f, NEW s \in Seq(Nat), NEW t \in Seq(Nat), NEW n \in Nat,
           StandsAt(f, s, n), StandsAt(f, t, n + Len(s))
    PROVE  StandsAt(f, s \o t, n)
<1> SUFFICES ASSUME NEW k \in 1 .. Len(s) + Len(t) PROVE (s \o t)[k] = Unit(f, n + k)
  BY DEF StandsAt
<1>1. CASE k <= Len(s)
  BY <1>1 DEF StandsAt
<1>2. CASE k > Len(s)
  <2>1. k - Len(s) \in 1 .. Len(t) /\ n + Len(s) + (k - Len(s)) = n + k
    BY <1>2
  <2>2. (s \o t)[k] = t[k - Len(s)]
    BY <1>2
  <2> QED BY <2>1, <2>2 DEF StandsAt
<1> QED BY <1>1, <1>2

-------------------------------------------------------------------------------
(* One lemma per action. *)

LEMMA InitStands == UdpInit => UdpInv
<1> SUFFICES ASSUME UdpInit PROVE UdpInv
  OBVIOUS
<1>1. PICK n \in Sizes : file = [i \in 1 .. n |-> i]
  BY DEF UdpInit
<1>2. n \in Nat /\ file \in Seq(Nat) /\ Len(file) = n
  BY <1>1, UdpAssumption
<1>3. Header(n) \in Seq(Nat) /\ Len(Header(n)) = 2 /\ Header(n)[1] = 1 /\ Header(n)[2] = n
  BY <1>2 DEF Header
<1>4. /\ left = [call |-> Header(n), rest |-> file]
      /\ datagrams = <<>> /\ receiver = "header" /\ buf = <<>> /\ nBytes = 2
      /\ arrived = 0 /\ intact = TRUE
  BY <1>2 DEF UdpInit, HeaderSize
<1>5. UdpTyped
  BY <1>2, <1>3, <1>4 DEF UdpTyped, HeaderSize
<1> DEFINE pos == [i \in 1 .. 1 |-> 0]
<1>6. Cut(pos)
  BY <1>4 DEF Cut
<1>7. StandsAt(file, Header(n), 0) /\ StandsAt(file, file, 2)
  BY <1>2, <1>3 DEF StandsAt, Unit, HeaderSize
<1>8. Unsent(0)
  <2>1. left.call = Header(n) /\ left.rest = file
    BY <1>4
  <2> HIDE DEF pos
  <2> QED BY <2>1, <1>2, <1>3, <1>7, Zenon, SMT DEF Unsent, HeaderSize, Total
<1>9. Received(0)
  BY <1>4 DEF Received, StandsAt
<1>10. Cuts(pos)
  <2>1. pos[Len(datagrams) + 1] = 0 /\ pos[arrived + 1] = 0
    BY <1>4
  <2> HIDE DEF pos
  <2> QED BY <2>1, <1>6, <1>8, <1>9 DEF Cuts
<1> HIDE DEF pos
<1> QED BY <1>5, <1>10 DEF UdpInv

\* A datagram is cut from the front of the call, and what follows stays where it was.
LEMMA SendStands == UdpInv /\ SendDatagram => UdpInv'
<1> SUFFICES ASSUME UdpInv, SendDatagram PROVE UdpInv'
  OBVIOUS
<1> USE DEF HeaderSize
<1>1. PICK pos : Cuts(pos)
  BY DEF UdpInv
<1>2. PICK u, v, l, n : /\ u = Upto(BUFF_SIZE, left.call) /\ v = After(BUFF_SIZE, left.call)
                        /\ l = Len(datagrams) /\ n = pos[l + 1]
  OBVIOUS
<1> DEFINE bt == [i \in 1 .. l + 2 |-> IF i <= l + 1 THEN pos[i] ELSE n + Len(u)]
<1>3. UdpTyped /\ Cut(pos) /\ Unsent(n) /\ (intact => Received(pos[arrived + 1]))
  BY <1>2, <1>1 DEF UdpInv, Cuts
<1>4. /\ left.call \in Seq(Nat) /\ left.rest \in Seq(Nat) /\ left.call # <<>>
      /\ datagrams \in Seq(Seq(Nat)) /\ file \in Seq(Nat)
  BY <1>3 DEF UdpTyped, SendDatagram
<1>5. /\ l \in Nat /\ BUFF_SIZE \in Nat /\ BUFF_SIZE > 0 /\ Len(file) \in Nat
      /\ Len(left.call) \in Nat /\ Len(left.rest) \in Nat
  BY <1>2, <1>4, LenProperties, UdpAssumption
<1>6. n \in Nat /\ pos \in [1 .. l + 1 -> Nat]
  <2>1. pos \in [1 .. l + 1 -> Nat]
    BY <1>2, <1>3 DEF Cut
  <2>2. l + 1 \in 1 .. l + 1
    BY <1>5
  <2> QED BY <1>2, <2>1, <2>2
<1>7. /\ u \in Seq(Nat) /\ v \in Seq(Nat) /\ Len(u) \in Nat /\ Len(v) \in Nat
      /\ Len(u) <= BUFF_SIZE /\ Len(u) + Len(v) = Len(left.call)
      /\ Len(u) > 0
  <2>1. Len(left.call) > 0
    BY <1>4, EmptySeq
  <2>2. Len(u) = IF BUFF_SIZE <= Len(left.call) THEN BUFF_SIZE ELSE Len(left.call)
    BY <1>2, <1>4, <1>5, CutInTwo
  <2>3. u \in Seq(Nat) /\ v \in Seq(Nat) /\ Len(u) + Len(v) = Len(left.call)
    BY <1>2, <1>4, <1>5, CutInTwo
  <2> QED BY <1>4, <1>5, <2>1, <2>2, <2>3
<1>8. Len(u) \in Nat /\ Len(v) \in Nat /\ Len(u) + Len(v) = Len(left.call)
  BY <1>7
<1>9. /\ n + Len(u) + Len(v) = n + Len(left.call) /\ n + Len(u) <= n + Len(left.call)
      /\ \A d, t \in Nat : n + Len(left.call) + d <= t => n + Len(u) <= t
  <2>1. n \in Nat /\ Len(left.call) \in Nat
    BY <1>5, <1>6
  <2>2. \A x, y, z \in Nat : x + y = z =>
          /\ n + x + y = n + z /\ n + x <= n + z
          /\ \A d, t \in Nat : n + z + d <= t => n + x <= t
    BY <2>1, Adding
  <2> QED BY ONLY <2>1, <1>8, <2>2
<1>10. /\ datagrams' = Append(datagrams, u)
       /\ left'.call = v /\ left'.rest = left.rest /\ left' \in [call : Seq(Nat), rest : Seq(Nat)]
       /\ UNCHANGED <<file, receiver, buf, nBytes, arrived, intact>>
  BY <1>2, <1>3, <1>7 DEF SendDatagram, UdpTyped
<1>11. /\ StandsAt(file, left.call, n) /\ StandsAt(file, left.rest, n + Len(left.call))
       /\ n + Len(left.call) + Len(left.rest) <= Total
       /\ n < 2 => n + Len(left.call) = 2
  BY <1>3, <1>4 DEF Unsent
<1>12. StandsAt(file, u, n) /\ StandsAt(file, v, n + Len(u))
  BY <1>2, <1>4, <1>5, <1>6, <1>11, PartsStand
<1>13. /\ datagrams' \in Seq(Seq(Nat)) /\ Len(datagrams') = l + 1
       /\ \A i \in 1 .. l : datagrams'[i] = datagrams[i]
       /\ datagrams'[l + 1] = u
  BY <1>2, <1>4, <1>5, <1>7, <1>10, AppendProperties
<1>14. UdpTyped'
  BY <1>2, <1>3, <1>4, <1>5, <1>10, <1>13 DEF UdpTyped
<1>15. /\ bt \in [1 .. l + 2 -> Nat] /\ bt[l + 2] = n + Len(u) /\ bt[l + 1] = n
       /\ \A i \in 1 .. l + 1 : bt[i] = pos[i]
  <2>1. n + Len(u) \in Nat /\ \A i \in 1 .. l + 1 : pos[i] \in Nat
    BY <1>6, <1>7
  <2>2. bt \in [1 .. l + 2 -> Nat]
    BY <1>5, <2>1
  <2>3. bt[l + 2] = n + Len(u)
    BY <1>5
  <2>4. \A i \in 1 .. l + 1 : bt[i] = pos[i]
    BY <1>5
  <2> QED BY <1>2, <1>5, <2>2, <2>3, <2>4
<1> HIDE DEF bt
<1>16. Cut(bt)'
  <2>1. bt \in [1 .. Len(datagrams') + 1 -> Nat] /\ bt[1] = 0
    <3>1. Len(datagrams') + 1 = l + 2 /\ 1 \in 1 .. l + 1
      BY <1>5, <1>13
    <3>2. pos[1] = 0
      BY <1>3, Zenon DEF Cut
    <3> QED BY <1>15, <3>1, <3>2, Zenon
  <2>2. ASSUME NEW i \in 1 .. l
        PROVE  /\ bt[i + 1] = bt[i] + Len(datagrams'[i])
               /\ StandsAt(file, datagrams'[i], bt[i])
               /\ Len(datagrams'[i]) <= BUFF_SIZE
               /\ bt[i] < 2 => bt[i + 1] <= 2
               /\ bt[i + 1] <= Total
    <3>1. bt[i] = pos[i] /\ bt[i + 1] = pos[i + 1] /\ datagrams'[i] = datagrams[i]
      <4>1. i \in 1 .. l + 1 /\ i + 1 \in 1 .. l + 1
        BY <1>5
      <4> QED BY <1>13, <1>15, <4>1
    <3> QED BY <1>2, <1>3, <3>1 DEF Cut
  <2>3. /\ bt[l + 2] = bt[l + 1] + Len(u)
        /\ StandsAt(file, u, bt[l + 1]) /\ Len(u) <= BUFF_SIZE
        /\ bt[l + 1] < 2 => bt[l + 2] <= 2
        /\ bt[l + 2] <= Total
    <3>1. Total \in Nat /\ Len(left.rest) \in Nat
      BY <1>5 DEF Total
    <3>2. bt[l + 2] = n + Len(u) /\ bt[l + 1] = n
      BY <1>15
    <3>3. n + Len(u) <= n + Len(left.call)
      BY <1>9
    <3>4. n + Len(u) <= Total
      BY <1>9, <1>11, <3>1
    <3>5. n < 2 => n + Len(u) <= 2
      BY <1>9, <1>11
    <3> QED BY <1>7, <1>12, <3>2, <3>4, <3>5
  <2>4. Total' = Total
    BY <1>10 DEF Total
  <2>5. ASSUME NEW i \in 1 .. Len(datagrams')
        PROVE  /\ bt[i + 1] = bt[i] + Len(datagrams'[i])
               /\ StandsAt(file, datagrams'[i], bt[i])
               /\ Len(datagrams'[i]) <= BUFF_SIZE
               /\ bt[i] < 2 => bt[i + 1] <= 2
               /\ bt[i + 1] <= Total
    <3>1. CASE i \in 1 .. l
      BY <3>1, <2>2
    <3>2. CASE i = l + 1
      <4>1. i + 1 = l + 2 /\ datagrams'[i] = u
        BY <3>2, <1>5, <1>13
      <4> QED BY <4>1, <3>2, <2>3
    <3> QED BY <1>5, <1>13, <3>1, <3>2
  <2> QED BY <1>10, <2>1, <2>4, <2>5 DEF Cut, StandsAt
<1>17. Unsent(n + Len(u))'
  <2>1. /\ StandsAt(file, v, n + Len(u))
        /\ n + Len(u) + Len(v) = n + Len(left.call)
        /\ n + Len(u) + Len(v) + Len(left.rest) <= Total
    <3>1. n + Len(u) + Len(v) = n + Len(left.call)
      BY <1>9
    <3> QED BY <1>11, <1>12, <3>1
  <2>2. StandsAt(file, left.rest, n + Len(u) + Len(v))
    BY <1>11, <2>1
  <2>3. n + Len(u) < 2 => n + Len(u) + Len(v) = 2
    BY <1>6, <1>7, <1>9, <1>11
  <2> QED BY <1>10, <2>1, <2>2, <2>3 DEF Unsent, StandsAt, Total, Unit
<1>18. intact' => Received(bt[arrived + 1])'
  <2>1. arrived' = arrived /\ arrived \in 0 .. l
    BY <1>2, <1>3, <1>10 DEF UdpTyped
  <2>2. bt[arrived + 1] = pos[arrived + 1]
    BY <2>1, <1>5, <1>15
  <2> QED BY <1>3, <1>10, <2>1, <2>2 DEF Received, StandsAt, Unit
<1>19. Cuts(bt)'
  <2>1. bt[Len(datagrams') + 1] = n + Len(u)
    BY <1>5, <1>13, <1>15
  <2> QED BY <1>16, <1>17, <1>18, <2>1 DEF Cuts
<1> QED BY <1>14, <1>19 DEF UdpInv

\* The next part of the file becomes the call, when nothing of the last one is left.
LEMMA NextPartStands == UdpInv /\ SendNextPart => UdpInv'
<1> SUFFICES ASSUME UdpInv, SendNextPart PROVE UdpInv'
  OBVIOUS
<1> USE DEF HeaderSize
<1>1. PICK pos : Cuts(pos)
  BY DEF UdpInv
<1>2. PICK u, v, l, n : /\ u = Upto(SEND_SIZE, left.rest) /\ v = After(SEND_SIZE, left.rest)
                        /\ l = Len(datagrams) /\ n = pos[l + 1]
  OBVIOUS
<1>3. UdpTyped /\ Cut(pos) /\ Unsent(n) /\ (intact => Received(pos[arrived + 1]))
  BY <1>1, <1>2 DEF UdpInv, Cuts
<1>4. /\ left.rest \in Seq(Nat) /\ left.call = <<>> /\ left.rest # <<>>
      /\ SEND_SIZE \in Nat /\ Len(left.rest) \in Nat /\ Len(left.call) = 0
  BY <1>3, UdpAssumption DEF UdpTyped, SendNextPart
<1>5. n \in Nat
  <2>1. l \in Nat
    BY <1>2, <1>3 DEF UdpTyped
  <2>2. pos \in [1 .. l + 1 -> Nat] /\ l + 1 \in 1 .. l + 1
    BY <1>2, <1>3, <2>1 DEF Cut
  <2> QED BY <1>2, <2>2
<1>6. /\ u \in Seq(Nat) /\ v \in Seq(Nat) /\ Len(u) + Len(v) = Len(left.rest)
  BY <1>2, <1>4, CutInTwo
<1>7. /\ left'.call = u /\ left'.rest = v /\ left' \in [call : Seq(Nat), rest : Seq(Nat)]
      /\ UNCHANGED <<file, datagrams, receiver, buf, nBytes, arrived, intact>>
  BY <1>2, <1>6 DEF SendNextPart
<1>8. UdpTyped'
  BY <1>3, <1>7 DEF UdpTyped
<1>9. Cut(pos)' /\ (intact' => Received(pos[arrived + 1])')
  BY <1>3, <1>7 DEF Cut, Received, StandsAt, Unit, Total
<1>10. /\ StandsAt(file, left.rest, n) /\ n + Len(left.rest) <= Total /\ ~(n < 2)
  <2>1. n + Len(left.call) = n
    BY <1>4, <1>5
  <2> QED BY <1>3, <1>4, <1>5, <2>1 DEF Unsent
<1>11. StandsAt(file, u, n) /\ StandsAt(file, v, n + Len(u))
  BY <1>2, <1>4, <1>5, <1>10, PartsStand
<1>12. n + Len(u) + Len(v) = n + Len(left.rest) /\ ~(n < 2)
  <2>1. Len(u) \in Nat /\ Len(v) \in Nat
    BY <1>6, LenProperties
  <2>2. Len(left.rest) \in Nat /\ Len(u) + Len(v) = Len(left.rest)
    BY <1>4, <1>6
  <2> QED BY <1>5, <1>10, <2>1, <2>2, Adding
<1>13. Unsent(n)'
  BY <1>7, <1>10, <1>11, <1>12 DEF Unsent, StandsAt, Unit, Total
<1>14. Cuts(pos)'
  <2>1. pos[Len(datagrams') + 1] = n
    BY <1>2, <1>7
  <2> QED BY <1>9, <1>13, <2>1 DEF Cuts
<1> QED BY <1>8, <1>14 DEF UdpInv

\* A sender that gives up leaves nothing to be sent.
LEMMA FailureStands == UdpInv /\ SendFails => UdpInv'
<1> SUFFICES ASSUME UdpInv, SendFails PROVE UdpInv'
  OBVIOUS
<1>1. PICK pos : Cuts(pos)
  BY DEF UdpInv
<1>2. PICK n : n = pos[Len(datagrams) + 1]
  OBVIOUS
<1>3. UdpTyped /\ Cut(pos) /\ Unsent(n) /\ (intact => Received(pos[arrived + 1]))
  BY <1>1, <1>2 DEF UdpInv, Cuts
<1>4. n \in Nat /\ Total \in Nat /\ n <= Total
  <2>1. Len(datagrams) \in Nat /\ Len(file) \in Nat
    BY <1>3 DEF UdpTyped
  <2>2. pos \in [1 .. Len(datagrams) + 1 -> Nat]
    BY <1>3 DEF Cut
  <2>3. n \in Nat /\ Total \in Nat
    BY <1>2, <2>1, <2>2 DEF Total, HeaderSize
  <2>4. Len(left.call) \in Nat /\ Len(left.rest) \in Nat
    BY <1>3 DEF UdpTyped
  <2>5. n + Len(left.call) + Len(left.rest) <= Total
    BY <1>3 DEF Unsent
  <2> QED BY <2>3, <2>4, <2>5, InFront
<1>5. /\ left'.call = <<>> /\ left'.rest = <<>> /\ left' \in [call : Seq(Nat), rest : Seq(Nat)]
      /\ UNCHANGED <<file, datagrams, receiver, buf, nBytes, arrived, intact>>
  BY DEF SendFails
<1>6. UdpTyped'
  BY <1>3, <1>5 DEF UdpTyped
<1>7. Cut(pos)' /\ (intact' => Received(pos[arrived + 1])')
  BY <1>3, <1>5 DEF Cut, Received, StandsAt, Unit, Total
<1>8. Unsent(n)'
  BY <1>4, <1>5 DEF Unsent, StandsAt, Total
<1> QED BY <1>2, <1>5, <1>6, <1>7, <1>8 DEF UdpInv, Cuts

\* A recvfrom() takes a whole datagram when the datagrams are received as they were sent:
\* what is cut off is never a part of the file.
LEMMA ReceiveStands == UdpInv /\ Receive => UdpInv'
<1> SUFFICES ASSUME UdpInv, Receive PROVE UdpInv'
  OBVIOUS
<1> USE DEF HeaderSize
<1>1. PICK pos : Cuts(pos)
  BY DEF UdpInv
<1>2. PICK n : n = pos[Len(datagrams) + 1]
  OBVIOUS
<1>3. UdpTyped /\ Cut(pos) /\ Unsent(n) /\ (intact => Received(pos[arrived + 1]))
  BY <1>1, <1>2 DEF UdpInv, Cuts
<1>4. PICK i \in DOMAIN datagrams :
        /\ buf' = buf \o Upto(Asked, datagrams[i])
        /\ nBytes' = nBytes - Len(Upto(Asked, datagrams[i]))
        /\ intact' = (intact /\ i = arrived + 1)
        /\ arrived' = IF intact' THEN i ELSE arrived
  BY DEF Receive
<1>5. UNCHANGED <<file, left, datagrams, receiver>> /\ receiver \in {"header", "data"} /\ nBytes > 0
  BY DEF Receive
<1>6. PICK d, g : d = datagrams[i] /\ g = Upto(Asked, d)
  OBVIOUS
<1>7. /\ Len(datagrams) \in Nat /\ i \in 1 .. Len(datagrams) /\ d \in Seq(Nat)
      /\ nBytes \in Nat /\ buf \in Seq(Nat) /\ Len(buf) \in Nat /\ Len(d) \in Nat
      /\ BUFF_SIZE \in Nat /\ file \in Seq(Nat) /\ Len(file) \in Nat
  BY <1>3, <1>6, UdpAssumption DEF UdpTyped
<1>8. Asked = (IF nBytes <= BUFF_SIZE THEN nBytes ELSE BUFF_SIZE) /\ Asked \in Nat
  BY <1>7, MinOfTwo DEF Asked
<1>9. /\ g \in Seq(Nat)
      /\ Len(g) = (IF Asked <= Len(d) THEN Asked ELSE Len(d))
      /\ \A k \in 1 .. Len(g) : g[k] = d[k]
  <2>1. d \in Seq(Nat) /\ Asked \in Nat
    BY <1>7, <1>8
  <2> QED BY <1>6, <2>1, CutInTwo, Zenon
<1>10. /\ nBytes \in Nat /\ BUFF_SIZE \in Nat /\ Len(file) \in Nat
       /\ Len(buf) \in Nat /\ Len(d) \in Nat /\ Len(g) \in Nat
  BY <1>7, <1>9, LenProperties
<1>11. /\ buf' = buf \o g /\ buf' \in Seq(Nat)
       /\ Len(buf') = Len(buf) + Len(g) /\ nBytes' = nBytes - Len(g) /\ nBytes' \in Nat
  <2>1. buf' = buf \o g /\ nBytes' = nBytes - Len(g)
    BY <1>4, <1>6
  <2>2. buf' \in Seq(Nat) /\ Len(buf') = Len(buf) + Len(g)
    BY <2>1, <1>7, <1>9, ConcatProperties
  <2>3. Len(g) <= nBytes
    BY <1>8, <1>9, <1>10
  <2> QED BY <2>1, <2>2, <2>3, <1>10
<1>12. Len(buf') + nBytes' = Len(buf) + nBytes
  BY <1>11, <1>10
<1>13. /\ arrived' \in 0 .. Len(datagrams) /\ intact' \in BOOLEAN
       /\ intact' => intact /\ i = arrived + 1 /\ arrived' = i
  <2>1. arrived \in 0 .. Len(datagrams) /\ intact \in BOOLEAN
    BY <1>3 DEF UdpTyped
  <2>2. i \in 0 .. Len(datagrams)
    BY <1>7
  <2>3. intact' \in BOOLEAN
    BY <1>4
  <2>4. arrived' = i \/ arrived' = arrived
    BY <1>4
  <2>5. intact' => intact /\ i = arrived + 1 /\ arrived' = i
    BY <1>4, Zenon
  <2> QED BY <2>1, <2>2, <2>3, <2>4, <2>5
<1>14. UdpTyped'
  <2>1. receiver = "header" => Len(buf') + nBytes' = 2
    BY <1>3, <1>12 DEF UdpTyped
  <2> QED BY <1>3, <1>5, <1>11, <1>13, <2>1 DEF UdpTyped
<1>15. Cut(pos)' /\ Unsent(n)'
  BY <1>3, <1>5 DEF Cut, Unsent, StandsAt, Unit, Total
<1>16. ASSUME intact' PROVE Received(pos[i + 1])'
  <2>1. /\ pos \in [1 .. Len(datagrams) + 1 -> Nat] /\ pos[i + 1] = pos[i] + Len(d)
        /\ StandsAt(file, d, pos[i]) /\ Len(d) <= BUFF_SIZE
        /\ pos[i] < 2 => pos[i + 1] <= 2
        /\ pos[i + 1] <= 2 + Len(file)
    BY <1>3, <1>6, <1>7 DEF Cut, Total
  <2>2. Received(pos[i])
    <3>1. intact /\ i = arrived + 1
      BY <1>13, <1>16
    <3> QED BY <1>3, <3>1
  <2>3. pos[i] \in Nat /\ pos[i + 1] \in Nat
    BY <1>7, <2>1
  <2>4. Len(d) <= nBytes
    <3>1. CASE receiver = "header"
      <4>1. Len(buf) = pos[i] /\ Len(buf) + nBytes = 2
        BY <3>1, <2>2, <1>3 DEF Received, UdpTyped
      <4>2. pos[i] < 2
        BY <4>1, <1>5, <1>7
      <4> QED BY <4>1, <4>2, <2>1, <2>3, <1>10
    <3>2. CASE receiver = "data"
      <4>1. 2 + Len(buf) = pos[i] /\ Len(buf) + nBytes = Len(file)
        BY <3>2, <2>2 DEF Received
      <4> QED BY <4>1, <2>1, <2>3, <1>10
    <3> QED BY <1>5, <3>1, <3>2
  <2>5. Len(g) = Len(d)
    BY <2>1, <2>4, <1>8, <1>9, <1>10
  <2>6. StandsAt(file, g, pos[i])
    BY <2>1, <2>5, <1>7, <1>9 DEF StandsAt
  <2>7. CASE receiver = "header"
    <3>1. StandsAt(file, buf, 0) /\ Len(buf) = pos[i]
      BY <2>2, <2>7 DEF Received
    <3>2. 0 + Len(buf) = pos[i]
      BY <3>1, <1>7
    <3>3. StandsAt(file, buf \o g, 0)
      BY <3>1, <3>2, <2>6, <1>7, <1>9, JoinedStand
    <3>4. Len(buf') = pos[i + 1]
      BY <3>1, <2>1, <2>5, <1>11
    <3> QED BY <3>3, <3>4, <2>7, <1>5, <1>11 DEF Received, StandsAt, Unit
  <2>8. CASE receiver = "data"
    <3>1. StandsAt(file, buf, 2) /\ 2 + Len(buf) = pos[i] /\ Len(buf) + nBytes = Len(file)
      BY <2>2, <2>8 DEF Received
    <3>2. StandsAt(file, buf \o g, 2)
      BY <3>1, <2>6, <1>7, <1>9, JoinedStand
    <3>3. Len(buf') + nBytes' = Len(file)
      BY <3>1, <1>12
    <3>4. 2 + Len(buf') = pos[i + 1]
      <4>1. 2 + (Len(buf) + Len(g)) = pos[i] + Len(g)
        BY <3>1, <1>10
      <4> QED BY <4>1, <2>1, <2>5, <1>11
    <3> QED BY <3>2, <3>3, <3>4, <2>8, <1>5, <1>11 DEF Received, StandsAt, Unit
  <2> QED BY <1>5, <2>7, <2>8
<1>17. Cuts(pos)'
  <2>1. pos[Len(datagrams') + 1] = n
    BY <1>2, <1>5
  <2>2. intact' => arrived' = i
    BY <1>13
  <2> QED BY <1>15, <1>16, <2>1, <2>2 DEF Cuts
<1> QED BY <1>14, <1>17 DEF UdpInv

\* The length that is taken from the header is that of the file, if nothing was lost.
LEMMA HeaderStands == UdpInv /\ HeaderReceived => UdpInv'
<1> SUFFICES ASSUME UdpInv, HeaderReceived PROVE UdpInv'
  OBVIOUS
<1> USE DEF HeaderSize
<1>1. PICK pos : Cuts(pos)
  BY DEF UdpInv
<1>2. PICK n : n = pos[Len(datagrams) + 1]
  OBVIOUS
<1>3. UdpTyped /\ Cut(pos) /\ Unsent(n) /\ (intact => Received(pos[arrived + 1]))
  BY <1>1, <1>2 DEF UdpInv, Cuts
<1>4. /\ receiver = "header" /\ nBytes = 0 /\ receiver' = "data" /\ nBytes' = buf[2] /\ buf' = <<>>
      /\ UNCHANGED <<file, left, datagrams, arrived, intact>>
  BY DEF HeaderReceived
<1>5. buf \in Seq(Nat) /\ Len(buf) = 2
  <2>1. Len(buf) \in Nat /\ Len(buf) + nBytes = 2 /\ buf \in Seq(Nat)
    BY <1>3, <1>4 DEF UdpTyped
  <2> QED BY <2>1, <1>4
<1>6. UdpTyped'
  <2>1. buf[2] \in Nat
    <3>1. 2 \in 1 .. Len(buf)
      BY <1>5
    <3> QED BY <1>5, <3>1, ElementOfSeq
  <2>2. buf' \in Seq(Nat)
    BY <1>4
  <2>3. nBytes' \in Nat /\ receiver' = "data"
    BY <1>4, <2>1
  <2>4. /\ file' = file /\ left' = left /\ datagrams' = datagrams
        /\ arrived' = arrived /\ intact' = intact
    BY <1>4
  <2>5. /\ file' \in Seq(Nat) /\ left' \in [call : Seq(Nat), rest : Seq(Nat)]
        /\ datagrams' \in Seq(Seq(Nat)) /\ intact' \in BOOLEAN
    BY <1>3, <2>4, Zenon DEF UdpTyped
  <2>6. arrived' \in 0 .. Len(datagrams')
    BY <1>3, <2>4, Zenon DEF UdpTyped
  <2>7. receiver' \in {"header", "data", "done", "failed"} /\ receiver' # "header"
    BY <2>3
  <2> QED BY <2>2, <2>3, <2>5, <2>6, <2>7, Zenon DEF UdpTyped
<1>7. Cut(pos)' /\ Unsent(n)'
  BY <1>3, <1>4 DEF Cut, Unsent, StandsAt, Unit, Total
<1>8. intact => buf[2] = Len(file) /\ pos[arrived + 1] = 2
  <2> SUFFICES ASSUME intact PROVE buf[2] = Len(file) /\ pos[arrived + 1] = 2
    OBVIOUS
  <2>1. StandsAt(file, buf, 0) /\ Len(buf) = pos[arrived + 1]
    BY <1>3, <1>4 DEF Received
  <2>2. buf[2] = Unit(file, 0 + 2)
    BY <2>1, <1>5 DEF StandsAt
  <2> QED BY <2>1, <2>2, <1>5 DEF Unit
<1>9. intact' => Received(pos[arrived + 1])'
  <2>1. Len(file) \in Nat
    BY <1>3 DEF UdpTyped
  <2> QED BY <1>4, <1>8, <2>1 DEF Received, StandsAt
<1> QED BY <1>2, <1>4, <1>6, <1>7, <1>9 DEF UdpInv, Cuts

LEMMA DataStands == UdpInv /\ DataReceived => UdpInv'
<1> SUFFICES ASSUME UdpInv, DataReceived PROVE UdpInv'
  OBVIOUS
<1> USE DEF HeaderSize
<1>1. PICK pos : Cuts(pos)
  BY DEF UdpInv
<1>2. PICK n : n = pos[Len(datagrams) + 1]
  OBVIOUS
<1>3. UdpTyped /\ Cut(pos) /\ Unsent(n) /\ (intact => Received(pos[arrived + 1]))
  BY <1>1, <1>2 DEF UdpInv, Cuts
<1>4. /\ receiver = "data" /\ nBytes = 0 /\ receiver' = "done"
      /\ UNCHANGED <<file, left, datagrams, buf, nBytes, arrived, intact>>
  BY DEF DataReceived
<1>5. UdpTyped'
  BY <1>3, <1>4 DEF UdpTyped
<1>6. Cut(pos)' /\ Unsent(n)'
  BY <1>3, <1>4 DEF Cut, Unsent, StandsAt, Unit, Total
<1>7. intact => buf = file
  <2> SUFFICES ASSUME intact PROVE buf = file
    OBVIOUS
  <2>1. /\ buf \in Seq(Nat) /\ file \in Seq(Nat) /\ Len(buf) \in Nat
        /\ StandsAt(file, buf, 2) /\ Len(buf) + nBytes = Len(file)
    BY <1>3, <1>4 DEF UdpTyped, Received
  <2>2. Len(buf) = Len(file)
    BY <2>1, <1>4
  <2>3. ASSUME NEW k \in 1 .. Len(buf) PROVE buf[k] = file[k]
    <3>1. 2 + k # 1 /\ 2 + k # 2 /\ 2 + k - 2 = k
      BY <2>1
    <3> QED BY <2>1, <3>1 DEF StandsAt, Unit
  <2> QED BY <2>1, <2>2, <2>3, SeqEqual
<1>8. intact' => Received(pos[arrived + 1])'
  BY <1>4, <1>7 DEF Received
<1> QED BY <1>2, <1>4, <1>5, <1>6, <1>8 DEF UdpInv, Cuts

LEMMA RecvFailureStands == UdpInv /\ RecvFails => UdpInv'
<1> SUFFICES ASSUME UdpInv, RecvFails PROVE UdpInv'
  OBVIOUS
<1>1. PICK pos : Cuts(pos)
  BY DEF UdpInv
<1>2. PICK n : n = pos[Len(datagrams) + 1]
  OBVIOUS
<1>3. UdpTyped /\ Cut(pos) /\ Unsent(n)
  BY <1>1, <1>2 DEF UdpInv, Cuts
<1>4. receiver' = "failed" /\ UNCHANGED <<file, left, datagrams, buf, nBytes, arrived, intact>>
  BY DEF RecvFails
<1>5. UdpTyped'
  BY <1>3, <1>4 DEF UdpTyped
<1>6. Cut(pos)' /\ Unsent(n)'
  BY <1>3, <1>4 DEF Cut, Unsent, StandsAt, Unit, Total
<1>7. intact' => Received(pos[arrived + 1])'
  BY <1>4 DEF Received
<1> QED BY <1>2, <1>4, <1>5, <1>6, <1>7 DEF UdpInv, Cuts

-------------------------------------------------------------------------------
LEMMA UdpInvariance == UdpSpec => []UdpInv
<1>1. UdpInv /\ [UdpNext]_udpVars => UdpInv'
  <2> SUFFICES ASSUME UdpInv, [UdpNext]_udpVars PROVE UdpInv'
    OBVIOUS
  <2>1. CASE UNCHANGED udpVars
    <3>1. UNCHANGED <<file, left, datagrams, receiver, buf, nBytes, arrived, intact>>
      BY <2>1 DEF udpVars
    <3>2. PICK pos : Cuts(pos)
      BY DEF UdpInv
    <3>3. UdpTyped'
      BY <3>1 DEF UdpInv, UdpTyped
    <3>4. Cut(pos)'
      BY <3>1, <3>2 DEF Cuts, Cut, StandsAt, Unit, Total
    <3>5. Unsent(pos[Len(datagrams) + 1])'
      BY <3>1, <3>2 DEF Cuts, Unsent, StandsAt, Unit, Total
    <3>6. intact' => Received(pos[arrived + 1])'
      BY <3>1, <3>2 DEF Cuts, Received, StandsAt, Unit
    <3> QED BY <3>3, <3>4, <3>5, <3>6 DEF UdpInv, Cuts
  <2> QED BY <2>1, SendStands, NextPartStands, FailureStands, ReceiveStands, HeaderStands,
             RecvFailureStands, DataStands DEF UdpNext
<1> QED BY <1>1, InitStands, PTL DEF UdpSpec

\* For every size of the file, of the buffer and of the parts that are sent: RecvBytes()
\* never writes past what it was given (lines 605-632, r117-125), and when the datagrams
\* arrive as they were sent, the receiver ends up with the file.
THEOREM FileReceived == UdpSpec => []UdpExact
<1>1. UdpInv => UdpExact
  <2> SUFFICES ASSUME UdpInv PROVE UdpExact
    OBVIOUS
  <2>1. PICK pos : Cuts(pos)
    BY DEF UdpInv
  <2> QED BY <2>1 DEF UdpInv, UdpTyped, Cuts, Received, UdpExact
<1> QED BY <1>1, UdpInvariance, PTL
===============================================================================
