----------------------------- MODULE SubThreadProofs ---------------------------
(***************************************************************************)
(* The SubThread object is used only while it exists and is deleted by one *)
(* thread only, however many rounds Quit() waits and messages there are.   *)
(***************************************************************************)
EXTENDS SubThread, TLAPS

\* m_status tells who will delete the object: "QUIT" is the last thing the thread
\* writes, "QUITFAILED" the last thing Quit() writes.
Handover ==
    /\ m_status = "QUIT" => thread = "gone"
    /\ m_status = "QUITFAILED" => main = "failed"
    /\ m_status \in {"INIT", "RUNNING"} => main = "add"
    /\ main = "add" => polls = 0
    /\ main = "delete" => m_status = "QUIT"
    /\ main = "done" => thread = "gone"
    /\ main = "poll" => polls < WAITING_QUIT_LOOP_TIMES
    /\ thread = "delete" => m_status = "QUITFAILED"
    /\ thread \in {"waiting", "woken", "work"} => m_status # "INIT"

\* The inductive invariant.
IInv == TypeOK /\ Handover /\ NoUseAfterFree /\ NoLostWakeup

LEMMA InitIInv == Init => IInv
  BY SubThreadAssumption DEF Init, IInv, TypeOK, Handover, NoUseAfterFree, NoLostWakeup

\* A step of the main thread preserves the invariant.
LEMMA MainKeeps == ASSUME IInv, MainStep PROVE IInv'
<1>. USE SubThreadAssumption DEF IInv, TypeOK, Handover, NoUseAfterFree, NoLostWakeup
<1>1. CASE AddMessage
  BY <1>1 DEF AddMessage, WakeUp
<1>2. CASE Quit
  BY <1>2 DEF Quit
<1>3. CASE SeeQuit
  BY <1>3 DEF SeeQuit
<1>4. CASE Poll
  <2>1. CASE polls' = WAITING_QUIT_LOOP_TIMES
    BY <1>4, <2>1 DEF Poll, WakeUp
  <2>2. CASE polls' # WAITING_QUIT_LOOP_TIMES
    BY <1>4, <2>2 DEF Poll, WakeUp
  <2>. QED
    BY <2>1, <2>2
<1>5. CASE DeleteThread
  BY <1>5 DEF DeleteThread
<1>. QED
  BY <1>1, <1>2, <1>3, <1>4, <1>5 DEF MainStep

\* A step of the thread preserves the invariant.
LEMMA ThreadKeeps == ASSUME IInv, ThreadStep \/ WakeSpuriously PROVE IInv'
<1>. USE SubThreadAssumption DEF IInv, TypeOK, Handover, NoUseAfterFree, NoLostWakeup
<1>1. CASE Begin
  BY <1>1 DEF Begin
<1>2. CASE Serve
  BY <1>2 DEF Serve, TakeMessage
<1>3. CASE SeeQuitReady
  BY <1>3 DEF SeeQuitReady, LeaveRun
<1>4. CASE SeeQuitFailed
  BY <1>4 DEF SeeQuitFailed
<1>5. CASE DeleteSelf
  BY <1>5 DEF DeleteSelf
<1>6. CASE AfterWait
  BY <1>6 DEF AfterWait, TakeMessage, LeaveRun
<1>7. CASE WorkDone
  BY <1>7 DEF WorkDone
<1>8. CASE WakeSpuriously
  BY <1>8 DEF WakeSpuriously
<1>. QED
  BY <1>1, <1>2, <1>3, <1>4, <1>5, <1>6, <1>7, <1>8 DEF ThreadStep

LEMMA Invariance == Spec => []IInv
<1>1. IInv /\ UNCHANGED vars => IInv'
  BY DEF IInv, TypeOK, Handover, NoUseAfterFree, NoLostWakeup, vars
<1>2. IInv /\ [Next]_vars => IInv'
  BY <1>1, MainKeeps, ThreadKeeps DEF Next
<1>. QED
  BY InitIInv, <1>2, PTL DEF Spec

\* Every variable keeps its type; Quit() does not poll more often than it promises
\* (test_thread_2thread_commu_close.cpp:30).
THEOREM TypeCorrect == Spec => []TypeOK
  BY Invariance, PTL DEF IInv

\* The object is used only while it exists and has one deleter
\* (test_thread_2thread_commu_close.cpp:34-41, 74-82).
THEOREM UsedWhileAlive == Spec => []NoUseAfterFree
  BY Invariance, PTL DEF IInv

\* The thread never sleeps on a message (lines 55, 85-87).
THEOREM MessagesWakeThread == Spec => []NoLostWakeup
  BY Invariance, PTL DEF IInv
===============================================================================
