---------------------------------- MODULE Clock --------------------------------
(***************************************************************************)
(* The arithmetic on clock times: the end of a timed WaitCondition::Wait   *)
(* (class_lib/thread_class.cpp:160-185) as it is handed to                 *)
(* pthread_cond_timedwait(), which the producer of CircleBuff waits with,  *)
(* and the length of a period of TimerManager (class_lib/timer.cpp).       *)
(***************************************************************************)
EXTENDS Integers

MILLION == 1000 * 1000

\* What gettimeofday() and outtime may hold.
Timeval == [tv_sec : Nat, tv_usec : 0 .. MILLION - 1]
Timespec == [tv_sec : Nat, tv_nsec : 0 .. 1000 * MILLION - 1]

\* thread_class.cpp:173: the microseconds, with those of a part of a second added.
Micros(now, millisecond) == now.tv_usec + (millisecond % 1000) * 1000

\* thread_class.cpp:172-181.
outtime(now, millisecond) ==
    LET m == Micros(now, millisecond) IN
    IF m < MILLION
    THEN [tv_sec |-> now.tv_sec + millisecond \div 1000, tv_nsec |-> m * 1000]
    ELSE [tv_sec |-> now.tv_sec + millisecond \div 1000 + m \div MILLION,
          tv_nsec |-> (m % MILLION) * 1000]

\* TimerManager::getCurTime(), timer.cpp:175-184: ftime() counts milliseconds.
FtimeTimeval == {t \in Timeval : t.tv_usec % 1000 = 0}

\* calculateDuration(), timer.cpp:186-192: the milliseconds of a period.
m_timeDur(m_timeBegin, m_timeEnd) ==
    IF m_timeBegin.tv_usec > m_timeEnd.tv_usec
    THEN (m_timeEnd.tv_sec - m_timeBegin.tv_sec - 1) * 1000
            + (m_timeEnd.tv_usec + MILLION - m_timeBegin.tv_usec) \div 1000
    ELSE (m_timeEnd.tv_sec - m_timeBegin.tv_sec) * 1000
            + (m_timeEnd.tv_usec - m_timeBegin.tv_usec) \div 1000

\* The microseconds a time of each kind stands for.
OfTimeval(t) == t.tv_sec * MILLION + t.tv_usec
OfTimespec(t) == t.tv_sec * MILLION + t.tv_nsec \div 1000
===============================================================================
