------------------------------ MODULE DataRepertory ----------------------------
(***************************************************************************)
(* test_thread_waitcond/: "one thread wake and multi-threads waiting".     *)
(* push() adds four items and signals one of the threads that wait in      *)
(* poP() or pop().  Everything under m_lock is one step, except that       *)
(* WaitCondition::Wait lets the lock go.  Line numbers are those of        *)
(* test_thread_waitcond.cpp.                                               *)
(***************************************************************************)
EXTENDS Integers

CONSTANTS
    Threads,        \* the SubThreads
    MaxPush,        \* BOUND: calls of push()
    Spurious        \* pthread_cond_wait may return without a signal

ASSUME RepertoryAssumption ==
    Threads # {} /\ MaxPush \in Nat /\ Spurious \in BOOLEAN

VARIABLES
    m_list,     \* the number of items
    thread,     \* per thread: "idle", and inside a call "waiting" or "woken"
    call,       \* per thread: the call it is in or made last, "poP" or "pop"
    pushes      \* calls of push() so far

vars == <<m_list, thread, call, pushes>>

Calls == {"poP", "pop"}

Init ==
    /\ m_list = 0
    /\ thread = [t \in Threads |-> "idle"]
    /\ call = [t \in Threads |-> "poP"]
    /\ pushes = 0

ThreadGoes(t, from, to) ==
    /\ thread[t] = from
    /\ thread' = [thread EXCEPT ![t] = to]

-------------------------------------------------------------------------------
\* Variant of Push: line 79 is missing.
PushSilent ==
    /\ pushes < MaxPush /\ pushes' = pushes + 1
    /\ m_list' = m_list + 4
    /\ UNCHANGED <<thread, call>>

\* push(), lines 73-79: four items, one signal.
Push ==
    /\ pushes < MaxPush /\ pushes' = pushes + 1
    /\ m_list' = m_list + 4
    /\ \/ \E t \in Threads : ThreadGoes(t, "waiting", "woken")
       \/ (\A t \in Threads : thread[t] # "waiting") /\ UNCHANGED thread
    /\ UNCHANGED call

\* poP() or pop() finds an item, at once (lines 28-30 and 37-40; 46 and 62-66) or
\* after its wait (lines 30 and 37-40; 50-54), and returns it.
Take(t, f) ==
    /\ \/ ThreadGoes(t, "idle", "idle") /\ call' = [call EXCEPT ![t] = f]
       \/ ThreadGoes(t, "woken", "idle") /\ call[t] = f /\ UNCHANGED call
    /\ m_list > 0 /\ m_list' = m_list - 1
    /\ UNCHANGED pushes

\* Variant of Wait: the list is not tested before the wait (lines 30 and 47).
WaitUntested(t, f) ==
    /\ ThreadGoes(t, "idle", "waiting")
    /\ call' = [call EXCEPT ![t] = f]
    /\ UNCHANGED <<m_list, pushes>>

\* Lines 28-33 and 46-49.
Wait(t, f) ==
    /\ ThreadGoes(t, "idle", "waiting")
    /\ m_list = 0
    /\ call' = [call EXCEPT ![t] = f]
    /\ UNCHANGED <<m_list, pushes>>

WakeSpuriously(t) ==
    /\ Spurious
    /\ ThreadGoes(t, "waiting", "woken")
    /\ UNCHANGED <<m_list, call, pushes>>

\* Variant of Miss: poP() tests the list with if instead of while.
MissTaken(t) ==
    /\ ThreadGoes(t, "woken", "idle")
    /\ m_list = 0
    /\ m_list' = IF call[t] = "poP" THEN m_list - 1 ELSE m_list
    /\ UNCHANGED <<call, pushes>>

\* Another thread took the item: poP() waits again (lines 30-33), pop() returns
\* -1 (lines 56-60).
Miss(t) ==
    /\ m_list = 0
    /\ \/ call[t] = "poP" /\ ThreadGoes(t, "woken", "waiting")
       \/ call[t] = "pop" /\ ThreadGoes(t, "woken", "idle")
    /\ UNCHANGED <<m_list, call, pushes>>

ThreadStep(t) == Miss(t) \/ \E f \in Calls : Take(t, f) \/ Wait(t, f)

-------------------------------------------------------------------------------
Next == Push \/ \E t \in Threads : ThreadStep(t) \/ WakeSpuriously(t)

Spec == Init /\ [][Next]_vars

\* Every SubThread is scheduled, and calls poP() or pop() again and again.
FairSpec == Spec /\ \A t \in Threads : WF_vars(ThreadStep(t))

-------------------------------------------------------------------------------
\* The type invariant; nothing is taken from an empty list.
TypeOK ==
    /\ m_list \in Nat
    /\ thread \in [Threads -> {"idle", "waiting", "woken"}]
    /\ call \in [Threads -> Calls]
    /\ pushes \in 0 .. MaxPush

\* One signal for four items is enough (lines 75-79): while there are items, not
\* every thread is asleep, and the one that is not takes them all.
NotAllAsleep == m_list > 0 => \E t \in Threads : thread[t] # "waiting"

\* Every item pushed is taken.
EveryItemTaken == m_list > 0 ~> m_list = 0
===============================================================================
