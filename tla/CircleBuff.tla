------------------------------- MODULE CircleBuff ------------------------------
(***************************************************************************)
(* class_lib/circlebuffer.h used by one producer and one consumer as in    *)
(* test_circlebuff/test_circlebuff.cpp.  Everything between lock() and     *)
(* unlock() is one step, except that WaitCondition::Wait lets the lock go: *)
(* the thread is then "waiting", and "woken" until it has the lock again.  *)
(***************************************************************************)
EXTENDS Integers, Sequences

CONSTANTS
    CIRCLE_BUFF_SIZE,
    MaxIndex,       \* BOUND: messages the producer makes
    Spurious        \* pthread_cond_wait may return without a signal

ASSUME BuffAssumption ==
    CIRCLE_BUFF_SIZE \in Nat \ {0} /\ MaxIndex \in Nat /\ Spurious \in BOOLEAN

VARIABLES
    m_cirBuffRD, m_cirBuffWR, m_cirUsedSize, m_cirBuff,
    index,          \* the number of the next message, the producer's own
    producer, consumer,     \* "ready", "waiting" or "woken"
    delivered,      \* the messages the consumer popped, in order
    dropped         \* the messages lost because push() failed

ring == <<m_cirBuffRD, m_cirBuffWR, m_cirUsedSize, m_cirBuff>>
vars == <<ring, index, producer, consumer, delivered, dropped>>

Slots == 0 .. CIRCLE_BUFF_SIZE - 1
NoMessage == -1     \* a default-constructed Message

Init ==
    /\ m_cirBuffRD = 0 /\ m_cirBuffWR = 0 /\ m_cirUsedSize = 0
    /\ m_cirBuff = [s \in Slots |-> NoMessage]
    /\ index = 0
    /\ producer = "ready" /\ consumer = "ready"
    /\ delivered = <<>> /\ dropped = {}

-------------------------------------------------------------------------------
(* circlebuffer.h, lines 33-96. *)

isFull  == m_cirUsedSize >= CIRCLE_BUFF_SIZE
isEmpty == m_cirUsedSize <= 0

\* Variant of Wrapped: the test of lines 37 and 48 is > instead of >=.
WrappedLate(i) == IF i > CIRCLE_BUFF_SIZE THEN 0 ELSE i

\* Lines 37-38 and 48-49.
Wrapped(i) == IF i >= CIRCLE_BUFF_SIZE THEN 0 ELSE i

\* Variant of Push: line 39 is missing.
PushUncounted(item) ==
    /\ m_cirBuff' = [m_cirBuff EXCEPT ![m_cirBuffWR] = item]
    /\ m_cirBuffWR' = Wrapped(m_cirBuffWR + 1)
    /\ UNCHANGED <<m_cirBuffRD, m_cirUsedSize>>

\* push(), past the test of line 34.
Push(item) ==
    /\ m_cirBuff' = [m_cirBuff EXCEPT ![m_cirBuffWR] = item]
    /\ m_cirBuffWR' = Wrapped(m_cirBuffWR + 1)
    /\ m_cirUsedSize' = m_cirUsedSize + 1
    /\ UNCHANGED m_cirBuffRD

\* Variant of Pop: the index is advanced before the item is read at line 47.
PopNext ==
    /\ delivered' = Append(delivered, m_cirBuff[Wrapped(m_cirBuffRD + 1)])
    /\ m_cirBuffRD' = Wrapped(m_cirBuffRD + 1)
    /\ m_cirUsedSize' = m_cirUsedSize - 1
    /\ UNCHANGED <<m_cirBuffWR, m_cirBuff>>

\* pop(), past the test of line 45; the consumer keeps the item.
Pop ==
    /\ delivered' = Append(delivered, m_cirBuff[m_cirBuffRD])
    /\ m_cirBuffRD' = Wrapped(m_cirBuffRD + 1)
    /\ m_cirUsedSize' = m_cirUsedSize - 1
    /\ UNCHANGED <<m_cirBuffWR, m_cirBuff>>

\* pthread_cond_signal: the state of the thread that may be waiting.
Signalled(thread) == IF thread = "waiting" THEN "woken" ELSE thread

-------------------------------------------------------------------------------
(* The producer, test_circlebuff.cpp, lines 138-169. *)

\* Lines 147-152: there is room.
Produce ==
    /\ producer = "ready" /\ index < MaxIndex
    /\ ~isFull
    /\ Push(index)
    /\ index' = index + 1
    /\ consumer' = Signalled(consumer)
    /\ UNCHANGED <<producer, delivered, dropped>>

\* Lines 155-157: the buffer is full.
AwaitRoom ==
    /\ producer = "ready" /\ index < MaxIndex
    /\ isFull
    /\ producer' = "waiting"
    /\ UNCHANGED <<ring, index, consumer, delivered, dropped>>

\* Line 157: a second has passed (or a spurious wake-up).
TimeOut ==
    /\ producer = "waiting" /\ producer' = "woken"
    /\ UNCHANGED <<ring, index, consumer, delivered, dropped>>

\* Variant of ProduceLate: line 160 is missing.
ProduceLateSilent ==
    /\ producer = "woken" /\ producer' = "ready"
    /\ index' = index + 1
    /\ IF isFull
       THEN dropped' = dropped \cup {index} /\ UNCHANGED <<ring, consumer>>
       ELSE Push(index) /\ UNCHANGED <<consumer, dropped>>
    /\ UNCHANGED delivered

\* Lines 157-161: the wait is over, the test is not repeated; when push() fails
\* its message is lost, because the next round makes another one.
ProduceLate ==
    /\ producer = "woken" /\ producer' = "ready"
    /\ index' = index + 1
    /\ IF isFull
       THEN dropped' = dropped \cup {index} /\ UNCHANGED <<ring, consumer>>
       ELSE Push(index) /\ consumer' = Signalled(consumer) /\ UNCHANGED dropped
    /\ UNCHANGED delivered

ProducerStep == Produce \/ AwaitRoom \/ TimeOut \/ ProduceLate

-------------------------------------------------------------------------------
(* The consumer, test_circlebuff.cpp, lines 77-130. *)

\* Variant of Consume: line 87 is missing.
ConsumeSilent ==
    /\ consumer = "ready" /\ ~isEmpty
    /\ Pop
    /\ UNCHANGED <<index, producer, consumer, dropped>>

\* Lines 82-92.
Consume ==
    /\ consumer = "ready" /\ ~isEmpty
    /\ Pop
    /\ producer' = Signalled(producer)
    /\ UNCHANGED <<index, consumer, dropped>>

\* Lines 100-103.
AwaitItem ==
    /\ consumer = "ready" /\ isEmpty
    /\ consumer' = "waiting"
    /\ UNCHANGED <<ring, index, producer, delivered, dropped>>

WakeSpuriously ==
    /\ Spurious
    /\ consumer = "waiting" /\ consumer' = "woken"
    /\ UNCHANGED <<ring, index, producer, delivered, dropped>>

\* Lines 103-127: the wait is over, pop() is tried without a new test.
ConsumeLate ==
    /\ consumer = "woken" /\ consumer' = "ready"
    /\ producer' = Signalled(producer)
    /\ IF isEmpty THEN UNCHANGED <<ring, delivered>> ELSE Pop
    /\ UNCHANGED <<index, dropped>>

ConsumerStep == Consume \/ AwaitItem \/ ConsumeLate

-------------------------------------------------------------------------------
Next == ProducerStep \/ ConsumerStep \/ WakeSpuriously

Spec == Init /\ [][Next]_vars

\* Both threads are scheduled, and a timed wait ends.
FairSpec == Spec /\ WF_vars(ProducerStep) /\ WF_vars(ConsumerStep)

-------------------------------------------------------------------------------
\* The type invariant; both indices stay inside m_cirBuff.
TypeOK ==
    /\ m_cirBuffRD \in Slots /\ m_cirBuffWR \in Slots
    /\ m_cirUsedSize \in 0 .. CIRCLE_BUFF_SIZE
    /\ m_cirBuff \in [Slots -> Nat \cup {NoMessage}]
    /\ index \in Nat
    /\ producer \in {"ready", "waiting", "woken"}
    /\ consumer \in {"ready", "waiting", "woken"}
    /\ delivered \in Seq(Nat) /\ dropped \subseteq Nat

\* The slot n places after slot s.
After(s, n) == IF s + n < CIRCLE_BUFF_SIZE THEN s + n ELSE s + n - CIRCLE_BUFF_SIZE

\* The three counters of lines 107-109 agree: WR is m_cirUsedSize places after
\* RD, so that full and empty, where RD = WR, are told apart; the slots between
\* them hold messages that were produced.
RingInv ==
    /\ m_cirBuffWR = After(m_cirBuffRD, m_cirUsedSize)
    /\ \A n \in 0 .. m_cirUsedSize - 1 : m_cirBuff[After(m_cirBuffRD, n)] \in Nat

\* No wake-up is lost although a waiter tests its condition once (lines 83, 148):
\* the consumer sleeps only while the buffer is empty, the producer only while it
\* is full.
NoLostWakeup ==
    /\ consumer = "waiting" => isEmpty
    /\ producer = "waiting" => isFull

\* The contents of the buffer, oldest first.
Contents == [n \in 1 .. m_cirUsedSize |-> m_cirBuff[After(m_cirBuffRD, n - 1)]]

Abstract == INSTANCE Fifo WITH Size <- CIRCLE_BUFF_SIZE, next <- index,
                               queue <- Contents

\* The ring buffer, its lock and its waits implement the bounded queue: messages
\* come out in the order they went in, none twice, and one is lost only when
\* push() found the buffer full (lines 33-52).
IsFifo == Abstract!Spec

\* Every message the producer makes is popped by the consumer or dropped.
EveryMessageSettled ==
    \A i \in 0 .. MaxIndex - 1 :
        <>(i \in dropped \/ \E n \in 1 .. Len(delivered) : delivered[n] = i)
===============================================================================
