--------------------------------- MODULE Timer ---------------------------------
(***************************************************************************)
(* class_lib/timer.{h,cpp}: objects derived from TimerInterface start,     *)
(* stop and kill their Timer by leaving requests on three lists; every     *)
(* period the thread of TimerManager drains the lists, always in the order *)
(* delete, stop, activate, and then ticks the timers of m_timerList.       *)
(*                                                                         *)
(* Each object is used by one client thread.  A list is drained under its  *)
(* lock, so each of the three phases is one step.  The countdown is left   *)
(* out: tick() may or may not call onTimer(), which changes nothing here.  *)
(***************************************************************************)
EXTENDS Naturals, SequencesExt

CONSTANTS
    Objects,    \* the places in memory where a TimerInterface can live
    Timers,     \* the addresses operator new can give a Timer
    NULL,
    MaxQueue,   \* BOUND: requests waiting on the activate and on the stop list
    Spaced      \* a client lets the manager drain a request of an object before
                \* it makes the opposite one (test_timer/main.cpp sleeps for ten
                \* periods)

ASSUME TimerAssumption ==
    /\ NULL \notin Objects \cup Timers
    /\ MaxQueue \in Nat \ {0} /\ Spaced \in BOOLEAN

VARIABLES
    m_timer,            \* per object: its Timer, or NULL
    object,             \* per object: where its client is; "none" is no object
    last,               \* per object: the last request made, "start" or "stop"
    m_pObj,             \* per Timer: its object, or NULL when it is not allocated
    m_status,           \* per Timer: "ACTIVE" or "INVALID"
    m_timerList,
    m_activeTimerList, m_stopTimerList, m_delTimerList,
    phase, todo         \* the manager: its phase, and the timers left to tick

vars == <<m_timer, object, last, m_pObj, m_status, m_timerList,
          m_activeTimerList, m_stopTimerList, m_delTimerList, phase, todo>>

heap    == <<m_timer, m_pObj, m_status>>
lists   == <<m_activeTimerList, m_stopTimerList, m_delTimerList>>
manager == <<m_timerList, phase, todo>>

Init ==
    /\ m_timer = [o \in Objects |-> NULL]
    /\ object = [o \in Objects |-> "none"]
    /\ last = [o \in Objects |-> "stop"]
    /\ m_pObj = [t \in Timers |-> NULL]
    /\ m_status = [t \in Timers |-> "INVALID"]
    /\ m_timerList = {}
    /\ m_activeTimerList = <<>> /\ m_stopTimerList = <<>> /\ m_delTimerList = <<>>
    /\ phase = "delete" /\ todo = {}

ClientGoes(o, from, to) ==
    /\ object[o] = from
    /\ object' = [object EXCEPT ![o] = to]

\* The object still has a request on this list.
Waits(o, queue) == m_timer[o] # NULL /\ m_timer[o] \in ToSet(queue)

-------------------------------------------------------------------------------
(* The client of an object, lines 4-54 and 94-120. *)

Construct(o) ==
    /\ ClientGoes(o, "none", "idle")
    /\ m_timer' = [m_timer EXCEPT ![o] = NULL]
    /\ last' = [last EXCEPT ![o] = "stop"]
    /\ UNCHANGED <<m_pObj, m_status, lists, manager>>

\* startTimer(), lines 26-29: the first call allocates the Timer, at any address
\* that is free; a later one only changes its interval.
Start(o) ==
    /\ ClientGoes(o, "idle", "push")
    /\ Spaced => ~Waits(o, m_stopTimerList)
    /\ \/ /\ m_timer[o] = NULL
          /\ \E t \in {s \in Timers : m_pObj[s] = NULL} :
               /\ m_timer' = [m_timer EXCEPT ![o] = t]
               /\ m_pObj' = [m_pObj EXCEPT ![t] = o]
               /\ m_status' = [m_status EXCEPT ![t] = "ACTIVE"]
       \/ m_timer[o] # NULL /\ UNCHANGED heap
    /\ UNCHANGED <<last, lists, manager>>

\* Line 31.
Activate(o) ==
    /\ ClientGoes(o, "push", "idle")
    /\ Len(m_activeTimerList) < MaxQueue
    /\ m_activeTimerList' = Append(m_activeTimerList, m_timer[o])
    /\ last' = [last EXCEPT ![o] = "start"]
    /\ UNCHANGED <<heap, m_stopTimerList, m_delTimerList, manager>>

\* Variant of Stop: line 36 is missing.
StopUnchecked(o) ==
    /\ object[o] = "idle"
    /\ Len(m_stopTimerList) < MaxQueue
    /\ m_stopTimerList' = Append(m_stopTimerList, m_timer[o])
    /\ last' = [last EXCEPT ![o] = "stop"]
    /\ UNCHANGED <<heap, object, m_activeTimerList, m_delTimerList, manager>>

\* stopTimer(), lines 36-37.
Stop(o) ==
    /\ object[o] = "idle" /\ m_timer[o] # NULL
    /\ Spaced => ~Waits(o, m_activeTimerList)
    /\ Len(m_stopTimerList) < MaxQueue
    /\ m_stopTimerList' = Append(m_stopTimerList, m_timer[o])
    /\ last' = [last EXCEPT ![o] = "stop"]
    /\ UNCHANGED <<heap, object, m_activeTimerList, m_delTimerList, manager>>

\* Line 42.
Killable(o) == m_timer[o] # NULL /\ m_status[m_timer[o]] = "ACTIVE"

\* The destructor calls killTimer(), lines 42-46, and waits for m_timer to become
\* NULL, lines 12-21.
Destroy(o) ==
    /\ ClientGoes(o, "idle", "spin")
    /\ Spaced => ~Waits(o, m_activeTimerList)
    /\ IF Killable(o)
       THEN /\ m_status' = [m_status EXCEPT ![m_timer[o]] = "INVALID"]
            /\ m_delTimerList' = Append(m_delTimerList, m_timer[o])
       ELSE UNCHANGED <<m_status, m_delTimerList>>
    /\ UNCHANGED <<m_timer, m_pObj, last, m_activeTimerList, m_stopTimerList, manager>>

\* Lines 14-15: the object is gone; its client may build another in its place.
Leave(o) ==
    /\ ClientGoes(o, "spin", "none")
    /\ m_timer[o] = NULL
    /\ UNCHANGED <<heap, last, lists, manager>>

ClientStep(o) ==
    Construct(o) \/ Start(o) \/ Activate(o) \/ Stop(o) \/ Destroy(o) \/ Leave(o)

-------------------------------------------------------------------------------
(* TimerManager::process(), lines 142-173. *)

PhaseGoes(from, to) == phase = from /\ phase' = to

\* Variants of DeletePhase: the timers are not taken out of m_timerList at line
\* 151; the destructor of Timer does not clear m_timer at line 53.
DeleteInPlace ==
    /\ PhaseGoes("delete", "stop")
    /\ LET gone == ToSet(m_delTimerList) IN
       /\ m_pObj' = [t \in Timers |-> IF t \in gone THEN NULL ELSE m_pObj[t]]
       /\ m_timer' = [o \in Objects |-> IF m_timer[o] \in gone THEN NULL ELSE m_timer[o]]
    /\ m_delTimerList' = <<>>
    /\ UNCHANGED <<m_status, object, last, m_timerList, m_activeTimerList,
                   m_stopTimerList, todo>>

DeleteSilently ==
    /\ PhaseGoes("delete", "stop")
    /\ LET gone == ToSet(m_delTimerList) IN
       /\ m_timerList' = m_timerList \ gone
       /\ m_pObj' = [t \in Timers |-> IF t \in gone THEN NULL ELSE m_pObj[t]]
    /\ m_delTimerList' = <<>>
    /\ UNCHANGED <<m_timer, m_status, object, last, m_activeTimerList,
                   m_stopTimerList, todo>>

\* Lines 146-156: the killed timers are deleted, and ~Timer() clears m_timer in
\* the object if it still points to this timer.
DeletePhase ==
    /\ PhaseGoes("delete", "stop")
    /\ LET gone == ToSet(m_delTimerList) IN
       /\ m_timerList' = m_timerList \ gone
       /\ m_pObj' = [t \in Timers |-> IF t \in gone THEN NULL ELSE m_pObj[t]]
       /\ m_timer' = [o \in Objects |->
                        IF \E t \in gone : m_pObj[t] = o /\ m_timer[o] = t
                        THEN NULL ELSE m_timer[o]]
    /\ m_delTimerList' = <<>>
    /\ UNCHANGED <<m_status, object, last, m_activeTimerList, m_stopTimerList, todo>>

\* Variant of StopPhase: line 160 is missing, the timers stay in m_timerList.
StopForgotten ==
    /\ PhaseGoes("stop", "activate")
    /\ m_stopTimerList' = <<>>
    /\ UNCHANGED <<heap, object, last, m_timerList, m_activeTimerList,
                   m_delTimerList, todo>>

\* Lines 158-162.
StopPhase ==
    /\ PhaseGoes("stop", "activate")
    /\ m_timerList' = m_timerList \ ToSet(m_stopTimerList)
    /\ m_stopTimerList' = <<>>
    /\ UNCHANGED <<heap, object, last, m_activeTimerList, m_delTimerList, todo>>

\* Lines 164-168.
ActivatePhase ==
    /\ PhaseGoes("activate", "tick")
    /\ m_timerList' = m_timerList \cup ToSet(m_activeTimerList)
    /\ m_activeTimerList' = <<>>
    /\ todo' = m_timerList'
    /\ UNCHANGED <<heap, object, last, m_stopTimerList, m_delTimerList>>

\* Lines 171-172: tick() of one timer, which may call onTimer() of its object.
Tick ==
    /\ phase = "tick"
    /\ \E t \in todo : todo' = todo \ {t}
    /\ UNCHANGED <<heap, object, last, lists, m_timerList, phase>>

\* Lines 137 and 128-132: the next period.
Sleep ==
    /\ PhaseGoes("tick", "delete") /\ todo = {}
    /\ UNCHANGED <<heap, object, last, lists, m_timerList, todo>>

ManagerStep == DeletePhase \/ StopPhase \/ ActivatePhase \/ Tick \/ Sleep

-------------------------------------------------------------------------------
Next == ManagerStep \/ \E o \in Objects : ClientStep(o)

Spec == Init /\ [][Next]_vars

\* The manager's thread is scheduled and onTimer() returns, and the loop of a
\* destructor looks again; no client has to make a request.
FairSpec ==
    Spec /\ WF_vars(ManagerStep) /\ \A o \in Objects : WF_vars(Leave(o))

-------------------------------------------------------------------------------
\* The type invariant; the lists hold timers, never a null pointer.
TypeOK ==
    /\ m_timer \in [Objects -> Timers \cup {NULL}]
    /\ object \in [Objects -> {"none", "idle", "push", "spin"}]
    /\ last \in [Objects -> {"start", "stop"}]
    /\ m_pObj \in [Timers -> Objects \cup {NULL}]
    /\ m_status \in [Timers -> {"ACTIVE", "INVALID"}]
    /\ m_timerList \subseteq Timers /\ todo \subseteq Timers
    /\ m_activeTimerList \in Seq(Timers) /\ m_stopTimerList \in Seq(Timers)
    /\ m_delTimerList \in Seq(Timers)
    /\ phase \in {"delete", "stop", "activate", "tick"}

\* The manager never ticks or deletes a Timer that was freed, nor calls
\* onTimer() of an object whose destructor has returned, although new reuses
\* addresses and the manager holds no lock while it ticks (lines 146-172, 12-15).
NoDangling ==
    /\ \A t \in m_timerList \cup todo \cup ToSet(m_delTimerList) :
         m_pObj[t] # NULL /\ object[m_pObj[t]] # "none"
    /\ IsInjective(m_delTimerList)

\* Once the requests of an object have been drained, its timer runs if and only
\* if the last request was startTimer(), whichever lists the requests went
\* through (lines 101-113, 158-168).
LastCallWins ==
    \A o \in Objects :
        object[o] = "idle" /\ m_timer[o] # NULL
            /\ ~Waits(o, m_activeTimerList) /\ ~Waits(o, m_stopTimerList)
        => (m_timer[o] \in m_timerList <=> last[o] = "start")

\* The wait of the destructor for the manager (lines 12-21) ends.
DestructorReturns == \A o \in Objects : object[o] = "spin" ~> object[o] = "none"
===============================================================================
