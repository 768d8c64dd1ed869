---------------------------- MODULE CircleBuffProofs ---------------------------
(***************************************************************************)
(* The circle buffer for every size: its indices and counters agree, no    *)
(* wake-up is lost, and it implements the bounded FIFO queue of Fifo.      *)
(***************************************************************************)
EXTENDS CircleBuff, SequenceTheorems, TLAPS

\* The inductive invariant.
IInv == TypeOK /\ RingInv /\ NoLostWakeup

LEMMA InitIInv == Init => IInv
  BY BuffAssumption, SMT
  DEF Init, IInv, TypeOK, RingInv, NoLostWakeup, After, Slots, NoMessage, isEmpty, isFull

\* The contents of the buffer are a sequence of messages.
LEMMA ContentsType ==
  ASSUME IInv
  PROVE  /\ Contents \in Seq(Nat) /\ Len(Contents) = m_cirUsedSize
         /\ \A n \in 1 .. m_cirUsedSize :
              Contents[n] = m_cirBuff[After(m_cirBuffRD, n - 1)]
<1>1. m_cirUsedSize \in Nat
  BY BuffAssumption DEF IInv, TypeOK
<1>2. \A n \in 1 .. m_cirUsedSize : m_cirBuff[After(m_cirBuffRD, n - 1)] \in Nat
  BY <1>1 DEF IInv, RingInv
<1>. QED
  BY <1>1, <1>2 DEF Contents

\* push() appends its item to the contents.
LEMMA PushAppends ==
  ASSUME IInv, ~isFull, NEW item \in Nat, Push(item)
  PROVE  /\ m_cirBuffRD' \in Slots /\ m_cirBuffWR' \in Slots
         /\ m_cirUsedSize' \in 0 .. CIRCLE_BUFF_SIZE
         /\ m_cirBuff' \in [Slots -> Nat \cup {NoMessage}]
         /\ RingInv' /\ ~isEmpty'
         /\ Contents' = Append(Contents, item)
         /\ Len(Contents) < CIRCLE_BUFF_SIZE
<1>. USE BuffAssumption
<1>1. /\ m_cirBuffRD \in Slots /\ m_cirBuffWR \in Slots /\ m_cirUsedSize \in Nat
      /\ m_cirUsedSize < CIRCLE_BUFF_SIZE
      /\ m_cirBuff \in [Slots -> Nat \cup {NoMessage}]
      /\ m_cirBuffWR = After(m_cirBuffRD, m_cirUsedSize)
  BY DEF IInv, TypeOK, RingInv, isFull, Slots
<1>2. /\ m_cirBuffRD' = m_cirBuffRD /\ m_cirUsedSize' = m_cirUsedSize + 1
      /\ m_cirBuffWR' = Wrapped(m_cirBuffWR + 1)
      /\ m_cirBuff' = [m_cirBuff EXCEPT ![m_cirBuffWR] = item]
  BY DEF Push
<1>3. \A n \in 0 .. m_cirUsedSize - 1 :
        After(m_cirBuffRD, n) \in Slots /\ After(m_cirBuffRD, n) # m_cirBuffWR
  BY <1>1 DEF After, Slots
<1>4. \A n \in 0 .. m_cirUsedSize - 1 :
        m_cirBuff'[After(m_cirBuffRD, n)] = m_cirBuff[After(m_cirBuffRD, n)]
  BY <1>1, <1>2, <1>3
<1>5. m_cirBuff'[After(m_cirBuffRD, m_cirUsedSize)] = item
  BY <1>1, <1>2
<1>6. m_cirBuffWR' \in Slots /\ m_cirBuffWR' = After(m_cirBuffRD, m_cirUsedSize + 1)
  BY <1>1, <1>2 DEF After, Slots, Wrapped
<1>7. m_cirBuff' \in [Slots -> Nat \cup {NoMessage}]
  BY <1>1, <1>2
<1>8. RingInv'
  <2>1. \A n \in 0 .. m_cirUsedSize : m_cirBuff'[After(m_cirBuffRD, n)] \in Nat
    <3>1. \A n \in 0 .. m_cirUsedSize - 1 : m_cirBuff[After(m_cirBuffRD, n)] \in Nat
      BY DEF IInv, RingInv
    <3>. QED
      BY <1>1, <1>4, <1>5, <3>1
  <2>2. m_cirUsedSize' - 1 = m_cirUsedSize
    BY <1>1, <1>2
  <2>. QED
    BY <1>2, <1>6, <2>1, <2>2 DEF RingInv
<1>9. Contents' = Append(Contents, item) /\ Len(Contents) < CIRCLE_BUFF_SIZE
  <2>. DEFINE appended == Append(Contents, item)
  <2>1. /\ Contents \in Seq(Nat) /\ Len(Contents) = m_cirUsedSize
        /\ \A n \in 1 .. m_cirUsedSize :
             Contents[n] = m_cirBuff[After(m_cirBuffRD, n - 1)]
    BY ContentsType
  <2>2. /\ appended \in Seq(Nat) /\ Len(appended) = m_cirUsedSize + 1
        /\ \A n \in 1 .. m_cirUsedSize : appended[n] = Contents[n]
        /\ appended[m_cirUsedSize + 1] = item
    BY <2>1, AppendProperties
  <2>3. Contents' = [n \in 1 .. m_cirUsedSize + 1 |->
                       m_cirBuff'[After(m_cirBuffRD, n - 1)]]
    BY <1>2 DEF Contents
  <2>4. \A n \in 1 .. m_cirUsedSize + 1 :
          m_cirBuff'[After(m_cirBuffRD, n - 1)] = appended[n]
    <3>1. \A n \in 1 .. m_cirUsedSize :
            m_cirBuff'[After(m_cirBuffRD, n - 1)] = appended[n]
      <4>. TAKE n \in 1 .. m_cirUsedSize
      <4>1. n - 1 \in 0 .. m_cirUsedSize - 1
        BY <1>1
      <4>. QED
        BY <1>4, <2>1, <2>2, <4>1
    <3>2. \A n \in 1 .. m_cirUsedSize + 1 : n \in 1 .. m_cirUsedSize \/ n = m_cirUsedSize + 1
      BY <1>1
    <3>3. (m_cirUsedSize + 1) - 1 = m_cirUsedSize
      BY <1>1
    <3>. QED
      BY <1>5, <2>2, <3>1, <3>2, <3>3
  <2>5. \A n \in 1 .. m_cirUsedSize + 1 : m_cirBuff'[After(m_cirBuffRD, n - 1)] \in Nat
    <3>1. \A n \in 1 .. m_cirUsedSize + 1 : appended[n] \in Nat
      BY <2>2, ElementOfSeq
    <3>. QED
      BY <2>4, <3>1
  <2>6. Contents' \in Seq(Nat) /\ Len(Contents') = m_cirUsedSize + 1
    <3>1. m_cirUsedSize + 1 \in Nat
      BY <1>1
    <3>. QED
      BY ONLY <2>3, <2>5, <3>1
  <2>7. \A n \in 1 .. Len(Contents') : Contents'[n] = appended[n]
    BY <2>3, <2>4, <2>6
  <2>. QED
    BY <1>1, <2>1, <2>2, <2>6, <2>7, SeqEqual DEF appended
<1>. QED
  BY <1>1, <1>2, <1>6, <1>7, <1>8, <1>9 DEF isEmpty

\* pop() delivers the head of the contents and leaves the tail.
LEMMA PopTakesHead ==
  ASSUME IInv, ~isEmpty, Pop
  PROVE  /\ m_cirBuffRD' \in Slots /\ m_cirBuffWR' \in Slots
         /\ m_cirUsedSize' \in 0 .. CIRCLE_BUFF_SIZE
         /\ m_cirBuff' \in [Slots -> Nat \cup {NoMessage}]
         /\ RingInv' /\ ~isFull'
         /\ Contents # <<>> /\ Contents' = Tail(Contents)
         /\ delivered' = Append(delivered, Head(Contents))
         /\ delivered' \in Seq(Nat)
<1>. USE BuffAssumption
<1>1. /\ m_cirBuffRD \in Slots /\ m_cirBuffWR \in Slots /\ m_cirUsedSize \in Nat
      /\ 0 < m_cirUsedSize /\ m_cirUsedSize <= CIRCLE_BUFF_SIZE
      /\ m_cirBuff \in [Slots -> Nat \cup {NoMessage}]
      /\ m_cirBuffWR = After(m_cirBuffRD, m_cirUsedSize) /\ delivered \in Seq(Nat)
  BY DEF IInv, TypeOK, RingInv, isEmpty, Slots
<1>2. /\ m_cirBuffRD' = Wrapped(m_cirBuffRD + 1) /\ m_cirUsedSize' = m_cirUsedSize - 1
      /\ m_cirBuffWR' = m_cirBuffWR /\ m_cirBuff' = m_cirBuff
      /\ delivered' = Append(delivered, m_cirBuff[m_cirBuffRD])
  BY DEF Pop
<1>3. \A n \in 0 .. m_cirUsedSize - 1 :
        After(m_cirBuffRD', n) = After(m_cirBuffRD, n + 1)
  BY <1>1, <1>2 DEF After, Slots, Wrapped
<1>4. m_cirBuffRD' \in Slots /\ m_cirBuffWR' = After(m_cirBuffRD', m_cirUsedSize - 1)
  BY <1>1, <1>2, <1>3 DEF Slots, Wrapped
<1>5. \A n \in 0 .. m_cirUsedSize - 1 : m_cirBuff[After(m_cirBuffRD, n)] \in Nat
  BY DEF IInv, RingInv
<1>6. RingInv'
  <2>1. \A n \in 0 .. m_cirUsedSize' - 1 : m_cirBuff'[After(m_cirBuffRD', n)] \in Nat
    <3>1. \A n \in 0 .. m_cirUsedSize - 2 : m_cirBuff[After(m_cirBuffRD', n)] \in Nat
      BY <1>1, <1>3, <1>5
    <3>. QED
      BY <1>1, <1>2, <3>1
  <2>. QED
    BY <1>2, <1>4, <2>1 DEF RingInv
<1>7. /\ Contents \in Seq(Nat) /\ Len(Contents) = m_cirUsedSize
      /\ \A n \in 1 .. m_cirUsedSize :
           Contents[n] = m_cirBuff[After(m_cirBuffRD, n - 1)]
  BY ContentsType
<1>8. Contents # <<>> /\ Head(Contents) = m_cirBuff[m_cirBuffRD]
  <2>1. After(m_cirBuffRD, 0) = m_cirBuffRD
    BY <1>1 DEF After, Slots
  <2>. QED
    BY <1>1, <1>7, <2>1
<1>9. delivered' = Append(delivered, Head(Contents)) /\ delivered' \in Seq(Nat)
  <2>1. Head(Contents) \in Nat
    BY <1>7, <1>8
  <2>. QED
    BY <1>1, <1>2, <1>8, <2>1
<1>10. Contents' = Tail(Contents)
  <2>1. /\ Tail(Contents) \in Seq(Nat) /\ Len(Tail(Contents)) = m_cirUsedSize - 1
        /\ \A n \in 1 .. m_cirUsedSize - 1 : Tail(Contents)[n] = Contents[n + 1]
    BY <1>7, <1>8, HeadTailProperties
  <2>2. Contents' = [n \in 1 .. m_cirUsedSize - 1 |->
                       m_cirBuff[After(m_cirBuffRD', n - 1)]]
    BY <1>2 DEF Contents
  <2>3. \A n \in 1 .. m_cirUsedSize - 1 :
          m_cirBuff[After(m_cirBuffRD', n - 1)] = Tail(Contents)[n]
    BY <1>1, <1>3, <1>7, <2>1
  <2>4. \A n \in 1 .. m_cirUsedSize - 1 : m_cirBuff[After(m_cirBuffRD', n - 1)] \in Nat
    BY <1>1, <2>1, <2>3
  <2>5. Contents' \in Seq(Nat) /\ Len(Contents') = m_cirUsedSize - 1
    <3>1. m_cirUsedSize - 1 \in Nat
      BY <1>1
    <3>. QED
      BY ONLY <2>2, <2>4, <3>1
  <2>6. \A n \in 1 .. Len(Contents') : Contents'[n] = Tail(Contents)[n]
    BY <2>2, <2>3, <2>5
  <2>. QED
    BY <2>1, <2>5, <2>6, SeqEqual
<1>. QED
  BY <1>1, <1>2, <1>4, <1>6, <1>8, <1>9, <1>10 DEF isFull, Slots

-------------------------------------------------------------------------------
\* A step that leaves the ring alone leaves what is said of it.
LEMMA RingKept ==
  ASSUME UNCHANGED ring
  PROVE  (RingInv' <=> RingInv) /\ (isFull' <=> isFull) /\ (isEmpty' <=> isEmpty)
         /\ Contents' = Contents
  BY DEF ring, RingInv, isFull, isEmpty, Contents

\* Every step preserves the invariant and is a step of the queue or stutters.
LEMMA StepIInv ==
  ASSUME IInv, [Next]_vars
  PROVE  IInv' /\ [Abstract!Next]_(Abstract!vars)
<1>. USE BuffAssumption
<1>. DEFINE threads == /\ producer' \in {"ready", "waiting", "woken"}
                       /\ consumer' \in {"ready", "waiting", "woken"}
            log == delivered' \in Seq(Nat) /\ dropped' \subseteq Nat /\ index' \in Nat
            slots == /\ m_cirBuffRD' \in Slots /\ m_cirBuffWR' \in Slots
                     /\ m_cirUsedSize' \in 0 .. CIRCLE_BUFF_SIZE
                     /\ m_cirBuff' \in [Slots -> Nat \cup {NoMessage}]
<1>0. /\ producer \in {"ready", "waiting", "woken"}
      /\ consumer \in {"ready", "waiting", "woken"}
      /\ delivered \in Seq(Nat) /\ dropped \subseteq Nat /\ index \in Nat
      /\ consumer = "waiting" => isEmpty
      /\ producer = "waiting" => isFull
  BY DEF IInv, TypeOK, NoLostWakeup
<1>1. UNCHANGED ring => slots /\ RingInv'
  BY RingKept DEF IInv, TypeOK, ring
<1>2. ASSUME threads, log, slots, RingInv', NoLostWakeup'
      PROVE  IInv'
  BY <1>2 DEF IInv, TypeOK
<1>3. ASSUME UNCHANGED ring, UNCHANGED <<index, delivered, dropped>>
      PROVE  UNCHANGED Abstract!vars
  BY <1>3, RingKept DEF Abstract!vars
<1>4. Len(Contents) = m_cirUsedSize /\ m_cirUsedSize \in Nat
      /\ m_cirUsedSize <= CIRCLE_BUFF_SIZE
  BY ContentsType DEF IInv, TypeOK
<1>5. ASSUME Push(index), ~isFull, index' = index + 1, UNCHANGED <<delivered, dropped>>
      PROVE  Abstract!Put /\ slots /\ RingInv' /\ ~isEmpty' /\ log
  BY <1>0, <1>5, PushAppends DEF Abstract!Put
<1>6. ASSUME Pop, ~isEmpty, UNCHANGED <<index, dropped>>
      PROVE  Abstract!Take /\ slots /\ RingInv' /\ ~isFull' /\ log
  BY <1>0, <1>6, PopTakesHead DEF Abstract!Take
<1>7. ASSUME isFull, UNCHANGED <<ring, delivered>>, dropped' = dropped \cup {index},
             index' = index + 1
      PROVE  Abstract!Drop /\ log
  BY <1>0, <1>4, <1>7, RingKept DEF Abstract!Drop, isFull
<1>8. CASE Produce
  <2>1. Abstract!Put /\ slots /\ RingInv' /\ ~isEmpty' /\ log
    BY <1>5, <1>8 DEF Produce
  <2>2. threads /\ NoLostWakeup'
    BY <1>0, <1>8, <2>1 DEF Produce, Signalled, NoLostWakeup
  <2>. QED
    BY <1>2, <2>1, <2>2 DEF Abstract!Next
<1>9. CASE AwaitRoom
  <2>1. UNCHANGED ring /\ UNCHANGED <<index, delivered, dropped>>
    BY <1>9 DEF AwaitRoom
  <2>2. threads /\ log /\ NoLostWakeup'
    BY <1>0, <1>9, <2>1, RingKept DEF AwaitRoom, NoLostWakeup
  <2>. QED
    BY <1>1, <1>2, <1>3, <2>1, <2>2
<1>10. CASE TimeOut
  <2>1. UNCHANGED ring /\ UNCHANGED <<index, delivered, dropped>>
    BY <1>10 DEF TimeOut
  <2>2. threads /\ log /\ NoLostWakeup'
    BY <1>0, <1>10, <2>1, RingKept DEF TimeOut, NoLostWakeup
  <2>. QED
    BY <1>1, <1>2, <1>3, <2>1, <2>2
<1>11. CASE ProduceLate
  <2>1. CASE isFull
    <3>1. UNCHANGED ring /\ Abstract!Drop /\ log
      BY <1>7, <1>11, <2>1 DEF ProduceLate
    <3>2. threads /\ NoLostWakeup'
      BY <1>0, <1>11, <2>1, <3>1, RingKept DEF ProduceLate, NoLostWakeup
    <3>. QED
      BY <1>1, <1>2, <3>1, <3>2 DEF Abstract!Next
  <2>2. CASE ~isFull
    <3>1. Abstract!Put /\ slots /\ RingInv' /\ ~isEmpty' /\ log
      BY <1>5, <1>11, <2>2 DEF ProduceLate
    <3>2. threads /\ NoLostWakeup'
      BY <1>0, <1>11, <2>2, <3>1 DEF ProduceLate, Signalled, NoLostWakeup
    <3>. QED
      BY <1>2, <3>1, <3>2 DEF Abstract!Next
  <2>. QED
    BY <2>1, <2>2
<1>12. CASE Consume
  <2>1. Abstract!Take /\ slots /\ RingInv' /\ ~isFull' /\ log
    BY <1>6, <1>12 DEF Consume
  <2>2. threads /\ NoLostWakeup'
    BY <1>0, <1>12, <2>1 DEF Consume, Signalled, NoLostWakeup
  <2>. QED
    BY <1>2, <2>1, <2>2 DEF Abstract!Next
<1>13. CASE AwaitItem
  <2>1. UNCHANGED ring /\ UNCHANGED <<index, delivered, dropped>>
    BY <1>13 DEF AwaitItem
  <2>2. threads /\ log /\ NoLostWakeup'
    BY <1>0, <1>13, <2>1, RingKept DEF AwaitItem, NoLostWakeup
  <2>. QED
    BY <1>1, <1>2, <1>3, <2>1, <2>2
<1>14. CASE ConsumeLate
  <2>1. CASE isEmpty
    <3>1. UNCHANGED ring /\ UNCHANGED <<index, delivered, dropped>>
      BY <1>14, <2>1 DEF ConsumeLate
    <3>2. threads /\ log /\ NoLostWakeup'
      BY <1>0, <1>14, <2>1, <3>1, RingKept DEF ConsumeLate, Signalled, NoLostWakeup
    <3>. QED
      BY <1>1, <1>2, <1>3, <3>1, <3>2
  <2>2. CASE ~isEmpty
    <3>1. Abstract!Take /\ slots /\ RingInv' /\ ~isFull' /\ log
      BY <1>6, <1>14, <2>2 DEF ConsumeLate
    <3>2. threads /\ NoLostWakeup'
      BY <1>0, <1>14, <2>2, <3>1 DEF ConsumeLate, Signalled, NoLostWakeup
    <3>. QED
      BY <1>2, <3>1, <3>2 DEF Abstract!Next
  <2>. QED
    BY <2>1, <2>2
<1>15. CASE WakeSpuriously
  <2>1. UNCHANGED ring /\ UNCHANGED <<index, delivered, dropped>>
    BY <1>15 DEF WakeSpuriously
  <2>2. threads /\ log /\ NoLostWakeup'
    BY <1>0, <1>15, <2>1, RingKept DEF WakeSpuriously, NoLostWakeup
  <2>. QED
    BY <1>1, <1>2, <1>3, <2>1, <2>2
<1>16. CASE UNCHANGED vars
  <2>1. UNCHANGED ring /\ UNCHANGED <<index, delivered, dropped, producer, consumer>>
    BY <1>16 DEF vars
  <2>2. threads /\ log /\ NoLostWakeup'
    BY <1>0, <2>1, RingKept DEF NoLostWakeup
  <2>. QED
    BY <1>1, <1>2, <1>3, <2>1, <2>2
<1>. QED
  BY <1>8, <1>9, <1>10, <1>11, <1>12, <1>13, <1>14, <1>15, <1>16
  DEF Next, ProducerStep, ConsumerStep

LEMMA Invariance == Spec => []IInv
<1>1. IInv /\ [Next]_vars => IInv'
  BY StepIInv
<1>. QED
  BY InitIInv, <1>1, PTL DEF Spec

-------------------------------------------------------------------------------
\* Both indices stay inside m_cirBuff and its counter inside 0 .. its size
\* (circlebuffer.h:36-39, 47-50).
THEOREM TypeCorrect == Spec => []TypeOK
  BY Invariance, PTL DEF IInv

\* RD, WR and the counter always describe the same queue (circlebuffer.h:33-52).
THEOREM RingConsistent == Spec => []RingInv
  BY Invariance, PTL DEF IInv

\* A thread never sleeps on a condition that already holds, although neither
\* waits in a loop (test_circlebuff.cpp:83-103, 148-157).
THEOREM WakeupsArrive == Spec => []NoLostWakeup
  BY Invariance, PTL DEF IInv

\* The buffer and its two threads implement the bounded queue: order is kept,
\* nothing is delivered twice and a message is lost only when push() fails.
THEOREM ImplementsFifo == Spec => IsFifo
<1>1. Init => Abstract!Init
  BY DEF Init, Abstract!Init, Contents
<1>2. IInv /\ [Next]_vars => [Abstract!Next]_(Abstract!vars)
  BY StepIInv
<1>. QED
  BY Invariance, <1>1, <1>2, PTL DEF Spec, IsFifo, Abstract!Spec
===============================================================================
