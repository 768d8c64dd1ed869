------------------------------ MODULE TimerProofs ------------------------------
(***************************************************************************)
(* The lists of TimerManager hold timers only; if every client leaves a    *)
(* period between opposite requests, the timers are used only while they   *)
(* exist and the last request of an object wins.  All of this however many *)
(* objects, timers and requests there are.  At the end: the arithmetic of  *)
(* module Clock is right for every reading of the clock.                   *)
(***************************************************************************)
EXTENDS Timer, Clock, TLAPS

\* An object and its Timer point to each other as long as the Timer exists, and a
\* Timer dies while the destructor of its object waits: never in startTimer(), and
\* an object without a Timer has not been started.
Owned ==
    /\ \A o \in Objects : m_timer[o] # NULL => m_pObj[m_timer[o]] = o /\ object[o] # "none"
    /\ \A t \in Timers : m_pObj[t] # NULL => m_timer[m_pObj[t]] = t
    /\ \A o \in Objects : object[o] = "push" => m_timer[o] # NULL
    /\ \A o \in Objects : object[o] = "idle" /\ m_timer[o] = NULL => last[o] = "stop"

\* A killed Timer waits once, and with it the destructor of its object.
Killed ==
    /\ \A t \in ToSet(m_delTimerList) : m_pObj[t] # NULL /\ object[m_pObj[t]] = "spin"
    /\ IsInjective(m_delTimerList)

\* The manager knows and is told of live timers only, and none of them waits both
\* to be activated and to be deleted.
Listed ==
    /\ \A t \in m_timerList \cup ToSet(m_activeTimerList) : m_pObj[t] # NULL
    /\ \A t \in ToSet(m_delTimerList) : t \notin ToSet(m_activeTimerList)
    /\ todo \subseteq m_timerList
    /\ phase # "tick" => todo = {}

\* A stop request that has outlived its Timer or its startTimer() is drained in the
\* phase that comes next, before anything can be activated again.
Stale ==
    /\ \A t \in ToSet(m_stopTimerList) : m_pObj[t] = NULL => phase = "stop"
    /\ \A o \in Objects : object[o] = "push" /\ Waits(o, m_stopTimerList) => phase = "stop"

\* What a request still waiting says of the last one.
Drained ==
    \A o \in Objects : object[o] \in {"idle", "push"} /\ m_timer[o] # NULL =>
        /\ Waits(o, m_activeTimerList) => last[o] = "start"
        /\ Waits(o, m_stopTimerList) =>
             last[o] = "stop" \/ (phase = "stop" /\ Waits(o, m_activeTimerList))
        /\ ~Waits(o, m_activeTimerList) /\ ~Waits(o, m_stopTimerList) =>
             (m_timer[o] \in m_timerList <=> last[o] = "start")

\* The inductive invariants: of every client, and of those that are Spaced.
IInv == TypeOK /\ Owned /\ Killed
SpacedInv == Listed /\ Stale /\ Drained

-------------------------------------------------------------------------------
(* Requests on a list. *)

LEMMA NoRequest == ToSet(<<>>) = {}
  BY DEF ToSet

LEMMA OneMore ==
    ASSUME NEW S, NEW q \in Seq(S), NEW x \in S
    PROVE  /\ Append(q, x) \in Seq(S)
           /\ ToSet(Append(q, x)) = ToSet(q) \cup {x}
           /\ ToSet(q) \subseteq S
           /\ IsInjective(q) /\ x \notin ToSet(q) => IsInjective(Append(q, x))
<1> DEFINE n == Len(q)
           r == Append(q, x)
<1>1. n \in Nat /\ r \in Seq(S) /\ DOMAIN q = 1 .. n /\ DOMAIN r = 1 .. n + 1
  OBVIOUS
<1>2. r[n + 1] = x /\ \A i \in 1 .. n : r[i] = q[i] /\ q[i] \in S
  OBVIOUS
<1> HIDE DEF r, n
<1>3. ToSet(r) = ToSet(q) \cup {x}
  <2>1. \A i \in 1 .. n + 1 : r[i] \in ToSet(q) \cup {x}
    BY <1>1, <1>2 DEF ToSet
  <2>2. \A i \in 1 .. n : q[i] \in ToSet(r)
    BY <1>1, <1>2 DEF ToSet
  <2>3. x \in ToSet(r)
    BY <1>1, <1>2 DEF ToSet
  <2> QED
    BY <1>1, <2>1, <2>2, <2>3 DEF ToSet
<1>4. ToSet(q) \subseteq S
  BY <1>1, <1>2 DEF ToSet
<1>5. ASSUME IsInjective(q), x \notin ToSet(q) PROVE IsInjective(r)
  <2> SUFFICES ASSUME NEW a \in 1 .. n + 1, NEW b \in 1 .. n + 1, r[a] = r[b] PROVE a = b
    BY <1>1 DEF IsInjective
  <2>1. \A i \in 1 .. n : q[i] # x
    BY <1>1, <1>5 DEF ToSet
  <2>2. \A i, j \in 1 .. n : q[i] = q[j] => i = j
    BY <1>1, <1>5 DEF IsInjective
  <2> QED
    BY <1>1, <1>2, <2>1, <2>2
<1> QED
  BY <1>1, <1>3, <1>4, <1>5 DEF r

\* The empty list, and members of a list of timers.
LEMMA Lists ==
    ASSUME TypeOK
    PROVE  /\ ToSet(m_activeTimerList) \subseteq Timers
           /\ ToSet(m_stopTimerList) \subseteq Timers
           /\ ToSet(m_delTimerList) \subseteq Timers
           /\ <<>> \in Seq(Timers) /\ ToSet(<<>>) = {} /\ IsInjective(<<>>)
  BY DEF TypeOK, ToSet, IsInjective

-------------------------------------------------------------------------------
LEMMA InitIInv == Init => IInv
  BY TimerAssumption DEF Init, IInv, TypeOK, Owned, Killed, ToSet, IsInjective

\* A step of a client preserves the invariant.
LEMMA ClientKeeps == ASSUME IInv, NEW o \in Objects, ClientStep(o) PROVE IInv'
<1>. USE TimerAssumption, Lists DEF IInv, Owned, Killed, ClientGoes, heap, lists, manager
<1>1. CASE Construct(o)
  BY <1>1 DEF Construct, TypeOK
<1>2. CASE Start(o)
  <2>1. CASE m_timer[o] = NULL
    <3>1. PICK t \in Timers :
            /\ m_pObj[t] = NULL /\ m_timer' = [m_timer EXCEPT ![o] = t]
            /\ m_pObj' = [m_pObj EXCEPT ![t] = o]
            /\ m_status' = [m_status EXCEPT ![t] = "ACTIVE"]
      BY <1>2, <2>1 DEF Start
    <3>2. t # NULL /\ o # NULL /\ t \notin ToSet(m_delTimerList)
      BY <3>1
    <3>3. \A p \in Objects : m_timer[p] # t
      BY <3>1, <3>2
    <3>4. TypeOK'
      BY <1>2, <3>1 DEF Start, TypeOK
    <3>5. Killed'
      BY <1>2, <3>1, <3>2 DEF Start, TypeOK
    <3>6. Owned'
      BY <1>2, <2>1, <3>1, <3>2, <3>3 DEF Start, TypeOK
    <3>. QED
      BY <3>4, <3>5, <3>6
  <2>2. CASE m_timer[o] # NULL
    BY <1>2, <2>2 DEF Start, TypeOK
  <2>. QED
    BY <2>1, <2>2
<1>3. CASE Activate(o)
  BY <1>3, OneMore DEF Activate, TypeOK
<1>4. CASE Stop(o)
  BY <1>4, OneMore DEF Stop, TypeOK
<1>5. CASE Destroy(o)
  <2>1. CASE Killable(o)
    <3> DEFINE t == m_timer[o]
    <3>1. t \in Timers /\ m_pObj[t] = o /\ o # NULL /\ object[o] = "idle"
      BY <1>5, <2>1 DEF Destroy, Killable, TypeOK
    <3>2. t \notin ToSet(m_delTimerList)
      BY <3>1
    <3>3. /\ m_delTimerList' = Append(m_delTimerList, t)
          /\ m_status' = [m_status EXCEPT ![t] = "INVALID"]
          /\ object' = [object EXCEPT ![o] = "spin"]
          /\ UNCHANGED <<m_timer, m_pObj, last, m_timerList, phase, todo>>
          /\ UNCHANGED <<m_activeTimerList, m_stopTimerList>>
      BY <1>5, <2>1 DEF Destroy
    <3>4. /\ m_delTimerList' \in Seq(Timers) /\ IsInjective(m_delTimerList')
          /\ ToSet(m_delTimerList') = ToSet(m_delTimerList) \cup {t}
      BY <3>1, <3>2, <3>3, OneMore DEF TypeOK
    <3> HIDE DEF t
    <3>5. TypeOK'
      BY <3>1, <3>3, <3>4 DEF TypeOK
    <3>6. Owned'
      BY <3>1, <3>3 DEF TypeOK
    <3>7. Killed'
      BY <3>1, <3>3, <3>4 DEF TypeOK
    <3>. QED
      BY <3>5, <3>6, <3>7
  <2>2. CASE ~Killable(o)
    BY <1>5, <2>2 DEF Destroy, TypeOK
  <2>. QED
    BY <2>1, <2>2
<1>6. CASE Leave(o)
  BY <1>6 DEF Leave, TypeOK
<1>. QED
  BY <1>1, <1>2, <1>3, <1>4, <1>5, <1>6 DEF ClientStep

\* A step of the manager preserves the invariant.
LEMMA ManagerKeeps == ASSUME IInv, ManagerStep PROVE IInv'
<1>. USE TimerAssumption, Lists DEF IInv, Owned, Killed, PhaseGoes, heap, lists
<1>1. CASE DeletePhase
  BY <1>1 DEF DeletePhase, TypeOK
<1>2. CASE StopPhase
  BY <1>2 DEF StopPhase, TypeOK
<1>3. CASE ActivatePhase
  BY <1>3 DEF ActivatePhase, TypeOK
<1>4. CASE Tick
  BY <1>4 DEF Tick, TypeOK
<1>5. CASE Sleep
  BY <1>5 DEF Sleep, TypeOK
<1>. QED
  BY <1>1, <1>2, <1>3, <1>4, <1>5 DEF ManagerStep

LEMMA NextIInv == IInv /\ [Next]_vars => IInv'
<1>. SUFFICES ASSUME IInv, [Next]_vars PROVE IInv'
  OBVIOUS
<1>1. CASE UNCHANGED vars
  BY <1>1 DEF vars, IInv, TypeOK, Owned, Killed
<1>. QED
  BY <1>1, ClientKeeps, ManagerKeeps DEF Next

\* The variables keep their types, and no list ever holds a null pointer: what
\* startTimer(), stopTimer() and the destructor push (timer.cpp:31, 37, 45) is a Timer.
THEOREM TypeCorrect == Spec => []TypeOK
<1>1. IInv => TypeOK
  BY DEF IInv
<1>. QED
  BY <1>1, InitIInv, NextIInv, PTL DEF Spec

-------------------------------------------------------------------------------
LEMMA InitSpacedInv == Init => SpacedInv
  BY DEF Init, SpacedInv, Listed, Stale, Drained, ToSet

\* A step of a client that is Spaced preserves the other invariant.
LEMMA SpacedClientKeeps ==
    ASSUME Spaced, IInv, SpacedInv, NEW o \in Objects, ClientStep(o)
    PROVE  SpacedInv'
<1>. USE TimerAssumption, Lists
         DEF IInv, Owned, Killed, SpacedInv, Waits, ClientGoes, heap, lists, manager
<1>1. CASE Construct(o)
  <2>1. Listed'
    BY <1>1 DEF Construct, TypeOK, Listed
  <2>2. Stale'
    BY <1>1 DEF Construct, TypeOK, Listed, Stale
  <2>3. Drained'
    BY <1>1 DEF Construct, TypeOK, Listed, Stale, Drained
  <2>. QED
    BY <2>1, <2>2, <2>3
<1>2. CASE Start(o)
  <2>1. Listed'
    BY <1>2 DEF Start, TypeOK, Listed
  <2>2. Stale'
    BY <1>2 DEF Start, TypeOK, Listed, Stale
  <2>3. Drained'
    BY <1>2 DEF Start, TypeOK, Listed, Stale, Drained
  <2>. QED
    BY <2>1, <2>2, <2>3
<1>3. CASE Activate(o)
  <2>1. Listed'
    BY <1>3, OneMore DEF Activate, TypeOK, Listed
  <2>2. Stale'
    BY <1>3, OneMore DEF Activate, TypeOK, Listed, Stale
  <2>3. Drained'
    BY <1>3, OneMore DEF Activate, TypeOK, Listed, Stale, Drained
  <2>. QED
    BY <2>1, <2>2, <2>3
<1>4. CASE Stop(o)
  <2>1. Listed'
    BY <1>4, OneMore DEF Stop, TypeOK, Listed
  <2>2. Stale'
    BY <1>4, OneMore DEF Stop, TypeOK, Listed, Stale
  <2>3. Drained'
    BY <1>4, OneMore DEF Stop, TypeOK, Listed, Stale, Drained
  <2>. QED
    BY <2>1, <2>2, <2>3
<1>5. CASE Destroy(o)
  <2>1. Listed'
    <3>1. CASE Killable(o)
      <4>1. m_timer[o] \in Timers \ ToSet(m_activeTimerList)
        BY <1>5, <3>1 DEF Destroy, Killable, TypeOK
      <4>2. m_delTimerList' = Append(m_delTimerList, m_timer[o])
        BY <1>5, <3>1 DEF Destroy
      <4>3. ToSet(m_delTimerList') = ToSet(m_delTimerList) \cup {m_timer[o]}
        BY <4>1, <4>2, OneMore DEF TypeOK
      <4>4. UNCHANGED <<m_pObj, m_timerList, m_activeTimerList, phase, todo>>
        BY <1>5 DEF Destroy
      <4>. QED
        BY <4>1, <4>3, <4>4 DEF Listed
    <3>2. CASE ~Killable(o)
      BY <1>5, <3>2 DEF Destroy, Listed
    <3>. QED
      BY <3>1, <3>2
  <2>2. Stale'
    BY <1>5, OneMore DEF Destroy, TypeOK, Listed, Stale
  <2>3. Drained'
    BY <1>5, OneMore DEF Destroy, TypeOK, Listed, Stale, Drained
  <2>. QED
    BY <2>1, <2>2, <2>3
<1>6. CASE Leave(o)
  <2>1. Listed'
    BY <1>6 DEF Leave, TypeOK, Listed
  <2>2. Stale'
    BY <1>6 DEF Leave, TypeOK, Listed, Stale
  <2>3. Drained'
    BY <1>6 DEF Leave, TypeOK, Listed, Stale, Drained
  <2>. QED
    BY <2>1, <2>2, <2>3
<1>. QED
  BY <1>1, <1>2, <1>3, <1>4, <1>5, <1>6 DEF ClientStep

\* A step of the manager preserves it.
LEMMA SpacedManagerKeeps == ASSUME IInv, SpacedInv, ManagerStep PROVE SpacedInv'
<1>. USE TimerAssumption, Lists
         DEF IInv, Owned, Killed, SpacedInv, Waits, PhaseGoes, heap, lists
<1>1. CASE DeletePhase
  <2>1. Listed'
    BY <1>1 DEF DeletePhase, TypeOK, Listed
  <2>2. Stale'
    BY <1>1 DEF DeletePhase, TypeOK, Listed, Stale
  <2>3. Drained'
    BY <1>1 DEF DeletePhase, TypeOK, Listed, Stale, Drained
  <2>. QED
    BY <2>1, <2>2, <2>3
<1>2. CASE StopPhase
  <2>1. Listed'
    BY <1>2 DEF StopPhase, TypeOK, Listed
  <2>2. Stale'
    BY <1>2 DEF StopPhase, TypeOK, Listed, Stale
  <2>3. Drained'
    BY <1>2 DEF StopPhase, TypeOK, Listed, Stale, Drained
  <2>. QED
    BY <2>1, <2>2, <2>3
<1>3. CASE ActivatePhase
  <2>1. Listed'
    BY <1>3 DEF ActivatePhase, TypeOK, Listed
  <2>2. Stale'
    BY <1>3 DEF ActivatePhase, TypeOK, Listed, Stale
  <2>3. Drained'
    BY <1>3 DEF ActivatePhase, TypeOK, Listed, Stale, Drained
  <2>. QED
    BY <2>1, <2>2, <2>3
<1>4. CASE Tick
  <2>1. Listed'
    BY <1>4 DEF Tick, TypeOK, Listed
  <2>2. Stale'
    BY <1>4 DEF Tick, TypeOK, Listed, Stale
  <2>3. Drained'
    BY <1>4 DEF Tick, TypeOK, Listed, Stale, Drained
  <2>. QED
    BY <2>1, <2>2, <2>3
<1>5. CASE Sleep
  <2>1. Listed'
    BY <1>5 DEF Sleep, TypeOK, Listed
  <2>2. Stale'
    BY <1>5 DEF Sleep, TypeOK, Listed, Stale
  <2>3. Drained'
    BY <1>5 DEF Sleep, TypeOK, Listed, Stale, Drained
  <2>. QED
    BY <2>1, <2>2, <2>3
<1>. QED
  BY <1>1, <1>2, <1>3, <1>4, <1>5 DEF ManagerStep

LEMMA SpacedNext == Spaced => (IInv /\ SpacedInv /\ [Next]_vars => (IInv /\ SpacedInv)')
<1>. SUFFICES ASSUME Spaced, IInv, SpacedInv, [Next]_vars PROVE SpacedInv'
  BY NextIInv
<1>1. CASE UNCHANGED vars
  BY <1>1 DEF vars, SpacedInv, Listed, Stale, Drained, Waits
<1>. QED
  BY <1>1, SpacedClientKeeps, SpacedManagerKeeps DEF Next

\* The manager never ticks or deletes a Timer that was freed, nor calls onTimer() of
\* an object that is gone, if every client lets a period pass between a request and
\* the opposite one (timer.cpp:146-172, 12-21).
THEOREM TimersLive == ASSUME Spaced PROVE Spec => []NoDangling
<1>1. IInv /\ SpacedInv => NoDangling
  BY TimerAssumption, Lists DEF IInv, SpacedInv, TypeOK, Owned, Killed, Listed, NoDangling
<1>. QED
  BY <1>1, InitIInv, InitSpacedInv, SpacedNext, PTL DEF Spec

\* Under the same condition a timer whose requests are drained runs if and only if
\* the last of them was startTimer(), whichever lists they went through
\* (timer.cpp:101-113, 158-168).
THEOREM LastRequestWins == ASSUME Spaced PROVE Spec => []LastCallWins
<1>1. SpacedInv => LastCallWins
  BY DEF SpacedInv, Drained, LastCallWins
<1>. QED
  BY <1>1, InitIInv, InitSpacedInv, SpacedNext, PTL DEF Spec

-------------------------------------------------------------------------------
(* The arithmetic on clock times. *)

LEMMA Million == MILLION \in Nat \ {0} /\ 999 * 1000 = MILLION - 1000
  BY SMT DEF MILLION

LEMMA TimesMillion == ASSUME NEW n \in Nat PROVE n * MILLION = (n * 1000) * 1000
  BY SMT DEF MILLION

LEMMA SumBounded ==
    ASSUME NEW M \in Nat \ {0}, 999 * 1000 = M - 1000,
           NEW a \in 0 .. M - 1, NEW b \in 0 .. 999
    PROVE  a + b * 1000 \in 0 .. 2 * M - 1
  BY SMT

\* The carry is one second at most, whatever the number of microseconds M in it.
LEMMA Carry ==
    ASSUME NEW M \in Nat \ {0}, NEW m \in M .. 2 * M - 1
    PROVE  m \div M = 1 /\ m % M = m - M
  BY SMT

\* Waiting times are split into seconds and a rest.
LEMMA Split ==
    ASSUME NEW n \in Nat
    PROVE  /\ n \div 1000 \in Nat /\ n % 1000 \in 0 .. 999
           /\ (n \div 1000) * 1000 + (n % 1000) = n
  BY SMT

\* What is added to the clock is less than a second, and so is what it is added to.
LEMMA MicrosBounded ==
    ASSUME NEW now \in Timeval, NEW millisecond \in Nat
    PROVE  Micros(now, millisecond) \in 0 .. 2 * MILLION - 1
<1>1. millisecond % 1000 \in 0 .. 999 /\ now.tv_usec \in 0 .. MILLION - 1
  BY Split DEF Timeval
<1> QED
  BY <1>1, Million, SumBounded DEF Micros

\* The carry of thread_class.cpp:173-181 is right for every clock and every waiting time: the
\* nanoseconds stay below a second, as pthread_cond_timedwait() demands, and the wait
\* ends the given number of milliseconds from now, neither earlier nor later.
THEOREM WaitEndsInTime ==
    ASSUME NEW now \in Timeval, NEW millisecond \in Nat
    PROVE  /\ outtime(now, millisecond) \in Timespec
           /\ OfTimespec(outtime(now, millisecond)) = OfTimeval(now) + millisecond * 1000
<1> DEFINE m == Micros(now, millisecond)
           q == millisecond \div 1000
           s == now.tv_sec + q
<1>1. m \in 0 .. 2 * MILLION - 1 /\ q \in Nat /\ now.tv_sec \in Nat /\ s \in Nat
  BY MicrosBounded, Split DEF Timeval
<1>2. s * MILLION + m = OfTimeval(now) + millisecond * 1000
  <2> DEFINE r == millisecond % 1000
  <2>1. r \in Nat /\ q * 1000 + r = millisecond
    BY Split
  <2>2. m = now.tv_usec + r * 1000 /\ now.tv_usec \in Nat
    BY Million DEF Micros, Timeval
  <2> HIDE DEF q, r, m
  <2>3. q * MILLION = (q * 1000) * 1000
    BY <1>1, TimesMillion
  <2>4. s * MILLION = now.tv_sec * MILLION + q * MILLION
    BY <1>1, Million
  <2>5. now.tv_sec * MILLION \in Nat
    BY <1>1, Million
  <2> QED
    BY <1>1, <2>1, <2>2, <2>3, <2>4, <2>5 DEF OfTimeval
\* A time in Timespec stands for what it is made of.
<1>3. ASSUME NEW sec \in Nat, NEW usec \in 0 .. MILLION - 1
      PROVE  LET t == [tv_sec |-> sec, tv_nsec |-> usec * 1000] IN
             t \in Timespec /\ OfTimespec(t) = sec * MILLION + usec
  <2>1. usec * 1000 \in 0 .. 1000 * MILLION - 1 /\ (usec * 1000) \div 1000 = usec
    BY Million
  <2> QED
    BY <2>1 DEF Timespec, OfTimespec
<1> HIDE DEF m, q
<1>4. CASE m < MILLION
  <2>1. m \in 0 .. MILLION - 1
    BY <1>1, <1>4, Million
  <2>2. outtime(now, millisecond) = [tv_sec |-> s, tv_nsec |-> m * 1000]
    BY <1>4 DEF outtime, m, q
  <2> QED
    BY <1>1, <1>2, <1>3, <2>1, <2>2
<1>5. CASE ~(m < MILLION)
  <2>1. m \in MILLION .. 2 * MILLION - 1 /\ m - MILLION \in 0 .. MILLION - 1
    BY <1>1, <1>5, Million
  <2>2. m \div MILLION = 1 /\ m % MILLION = m - MILLION
    BY <2>1, Carry, Million
  <2>3. outtime(now, millisecond) = [tv_sec |-> s + 1, tv_nsec |-> (m - MILLION) * 1000]
    BY <1>5, <2>2 DEF outtime, m, q
  <2>4. (s + 1) * MILLION + (m - MILLION) = s * MILLION + m
    BY <1>1, <2>1, Million
  <2> QED
    BY <1>1, <1>2, <1>3, <2>1, <2>3, <2>4
<1> QED
  BY <1>4, <1>5

-------------------------------------------------------------------------------
\* A period without a borrow and one with it, in whole milliseconds.
LEMMA Milliseconds ==
    ASSUME NEW b \in Nat, NEW e \in Nat, b % 1000 = 0, e % 1000 = 0
    PROVE  ((e - b) \div 1000) * 1000 = e - b
<1>1. PICK i \in Nat, j \in Nat : b = 1000 * i /\ e = 1000 * j
  BY SMT
<1> QED
  BY <1>1, SMT

LEMMA WholeSecond ==
    ASSUME NEW e \in Nat, e % 1000 = 0
    PROVE  e + MILLION \in Nat /\ (e + MILLION) % 1000 = 0
<1>1. PICK j \in Nat : e = 1000 * j
  BY SMT
<1>2. e + MILLION = 1000 * (j + 1000)
  BY <1>1 DEF MILLION
<1> QED
  BY <1>1, <1>2, SMT

\* The two cases of timer.cpp:188-191 are right for every pair of clock readings: a
\* period is as long as the clock says, so that the periods of the manager add up and
\* the timers lose nothing between two of them; it is negative only if the clock was
\* set back.
THEOREM PeriodsAddUp ==
    ASSUME NEW m_timeBegin \in FtimeTimeval, NEW m_timeEnd \in FtimeTimeval
    PROVE  m_timeDur(m_timeBegin, m_timeEnd) * 1000
             = OfTimeval(m_timeEnd) - OfTimeval(m_timeBegin)
<1> DEFINE b == m_timeBegin.tv_usec
           e == m_timeEnd.tv_usec
           s == m_timeEnd.tv_sec - m_timeBegin.tv_sec
<1>1. b \in Nat /\ e \in Nat /\ b % 1000 = 0 /\ e % 1000 = 0 /\ b < MILLION
  BY Million DEF FtimeTimeval, Timeval
<1>2. m_timeBegin.tv_sec \in Nat /\ m_timeEnd.tv_sec \in Nat /\ s \in Int
  BY DEF FtimeTimeval, Timeval
<1>3. OfTimeval(m_timeEnd) - OfTimeval(m_timeBegin) = s * MILLION + (e - b)
  BY <1>1, <1>2 DEF OfTimeval, MILLION
<1>4. s * MILLION = s * 1000 * 1000
  BY <1>2 DEF MILLION
<1>5. CASE b > e
  <2> DEFINE n == e + MILLION
             d == (n - b) \div 1000
  <2>1. n \in Nat /\ n % 1000 = 0
    BY <1>1, WholeSecond
  <2>2. d * 1000 = n - b /\ d \in Int
    <3> HIDE DEF n, b
    <3>1. b \in Nat /\ b % 1000 = 0
      BY <1>1
    <3> QED
      BY <2>1, <3>1, Milliseconds
  <2>3. m_timeDur(m_timeBegin, m_timeEnd) = (s - 1) * 1000 + d
    BY <1>1, <1>2, <1>5, Million DEF m_timeDur
  <2> HIDE DEF d, s, b
  <2> QED
    BY <1>1, <1>2, <1>3, <2>2, <2>3 DEF MILLION
<1>6. CASE ~(b > e)
  <2> DEFINE d == (e - b) \div 1000
  <2>1. d * 1000 = e - b /\ d \in Int
    BY <1>1, Milliseconds
  <2>2. m_timeDur(m_timeBegin, m_timeEnd) = s * 1000 + d
    BY <1>6 DEF m_timeDur
  <2> HIDE DEF d, s, b, e
  <2> QED
    BY <1>1, <1>2, <1>3, <2>1, <2>2 DEF MILLION
<1> QED
  BY <1>5, <1>6
================================================================================
