-------------------------------- MODULE SubThread ------------------------------
(***************************************************************************)
(* test_thread_2thread_commu_close/: the main thread hands messages to a   *)
(* SubThread and then calls Quit(); one of the two deletes the object,     *)
(* depending on whether the thread ends before Quit() gives up.            *)
(*                                                                         *)
(* Everything under m_lock is one step; WaitCondition::Wait lets the lock  *)
(* go, so the thread is "waiting", then "woken" until it has the lock.     *)
(* Line numbers are those of test_thread_2thread_commu_close.cpp.          *)
(***************************************************************************)
EXTENDS Naturals

CONSTANTS
    WAITING_QUIT_LOOP_TIMES,
    MaxMessages,    \* BOUND: messages main() adds (10 in main.cpp:24)
    Spurious        \* pthread_cond_wait may return without a signal

ASSUME SubThreadAssumption ==
    /\ WAITING_QUIT_LOOP_TIMES \in Nat \ {0} /\ MaxMessages \in Nat
    /\ Spurious \in BOOLEAN

VARIABLES
    m_status,
    m_list,     \* the number of messages waiting
    added,      \* the messages added so far
    main,       \* where the main thread is: "add", "poll" (in Quit), "delete",
                \* and with Quit's result "done" (0) or "failed" (-1)
    polls,      \* i of line 30
    thread,     \* where the thread is
    alive       \* the object has not been deleted

vars == <<m_status, m_list, added, main, polls, thread, alive>>

Init ==
    /\ m_status = "INIT" /\ m_list = 0 /\ added = 0
    /\ main = "add" /\ polls = 0
    /\ thread = "start" /\ alive = TRUE

\* m_cond.WakeUp(): the thread's place afterwards.
WakeUp == thread' = IF thread = "waiting" THEN "woken" ELSE thread

-------------------------------------------------------------------------------
(* The main thread. *)

\* Variant of AddMessage: line 55 is missing.
AddMessageSilent ==
    /\ main = "add" /\ added < MaxMessages
    /\ m_list' = m_list + 1 /\ added' = added + 1
    /\ UNCHANGED <<m_status, main, polls, thread, alive>>

\* Lines 51-56.  m_status is not "QUIT" while main() adds messages: the code that
\* would set it, lines 115-123, is commented out.
AddMessage ==
    /\ main = "add" /\ added < MaxMessages
    /\ m_list' = m_list + 1 /\ added' = added + 1
    /\ WakeUp
    /\ UNCHANGED <<m_status, main, polls, alive>>

\* Lines 25-28.
Quit ==
    /\ main = "add" /\ main' = "poll"
    /\ m_status' = "QUITREADY"
    /\ UNCHANGED <<m_list, added, polls, thread, alive>>

\* Lines 32-38: the thread has left run().
SeeQuit ==
    /\ main = "poll" /\ m_status = "QUIT"
    /\ main' = "delete"
    /\ UNCHANGED <<m_status, m_list, added, polls, thread, alive>>

\* Variants of Poll: the loop test of line 30 is <=; line 42 is missing; lines 40-41
\* come one round early, as with i == WAITING_QUIT_LOOP_TIMES - 2.
PollOnceMore ==
    /\ main = "poll" /\ m_status # "QUIT"
    /\ polls' = polls + 1
    /\ m_status' = IF polls' = WAITING_QUIT_LOOP_TIMES THEN "QUITFAILED" ELSE m_status
    /\ main' = IF polls' > WAITING_QUIT_LOOP_TIMES THEN "failed" ELSE "poll"
    /\ WakeUp
    /\ UNCHANGED <<m_list, added, alive>>

PollSilent ==
    /\ main = "poll" /\ m_status # "QUIT"
    /\ polls' = polls + 1
    /\ IF polls' = WAITING_QUIT_LOOP_TIMES
       THEN m_status' = "QUITFAILED" /\ main' = "failed"
       ELSE UNCHANGED <<m_status, main>>
    /\ UNCHANGED <<m_list, added, thread, alive>>

PollEarly ==
    /\ main = "poll" /\ m_status # "QUIT"
    /\ polls' = polls + 1
    /\ m_status' = IF polls' + 1 = WAITING_QUIT_LOOP_TIMES THEN "QUITFAILED" ELSE m_status
    /\ main' = IF polls' = WAITING_QUIT_LOOP_TIMES THEN "failed" ELSE "poll"
    /\ WakeUp
    /\ UNCHANGED <<m_list, added, alive>>

\* Lines 32-46: the thread has not; in the last round Quit() gives up, and the
\* thread is told to delete the object.
Poll ==
    /\ main = "poll" /\ m_status # "QUIT"
    /\ polls' = polls + 1
    /\ IF polls' = WAITING_QUIT_LOOP_TIMES
       THEN m_status' = "QUITFAILED" /\ main' = "failed"
       ELSE UNCHANGED <<m_status, main>>
    /\ WakeUp
    /\ UNCHANGED <<m_list, added, alive>>

\* Lines 37-38.
DeleteThread ==
    /\ main = "delete" /\ main' = "done"
    /\ alive' = FALSE
    /\ UNCHANGED <<m_status, m_list, added, polls, thread>>

MainStep == AddMessage \/ Quit \/ SeeQuit \/ Poll \/ DeleteThread

-------------------------------------------------------------------------------
(* ThreadCallBack (class_lib/thread_class.cpp:15-30) and run(), lines 59-127. *)

\* The callback stores m_threadID in the object and calls run().
Begin ==
    /\ thread = "start" /\ thread' = "loop"
    /\ UNCHANGED <<m_status, m_list, added, main, polls, alive>>

\* Lines 103-108: the front of the list is taken.
TakeMessage == m_list > 0 /\ m_list' = m_list - 1 /\ thread' = "work"

\* Lines 65-73 and 85-108: a message is taken, or the thread waits for one.
Serve ==
    /\ thread = "loop" /\ m_status \in {"INIT", "RUNNING"}
    /\ m_status' = "RUNNING"
    /\ \/ TakeMessage
       \/ m_list = 0 /\ thread' = "waiting" /\ UNCHANGED m_list
    /\ UNCHANGED <<added, main, polls, alive>>

\* Lines 80-82 and 90-92: Quit() deletes the object, if it is still there.
LeaveRun == m_status' = "QUIT" /\ thread' = "gone"

\* Lines 78-82.
SeeQuitReady ==
    /\ thread = "loop" /\ m_status = "QUITREADY"
    /\ LeaveRun
    /\ UNCHANGED <<m_list, added, main, polls, alive>>

\* Variant of SeeQuitFailed: the case of line 74 is missing.
SeeQuitFailedLeave ==
    /\ thread = "loop" /\ m_status = "QUITFAILED"
    /\ LeaveRun
    /\ UNCHANGED <<m_list, added, main, polls, alive>>

\* Lines 74-75.
SeeQuitFailed ==
    /\ thread = "loop" /\ m_status = "QUITFAILED"
    /\ thread' = "delete"
    /\ UNCHANGED <<m_status, m_list, added, main, polls, alive>>

\* Lines 76-77.
DeleteSelf ==
    /\ thread = "delete" /\ thread' = "gone"
    /\ alive' = FALSE
    /\ UNCHANGED <<m_status, m_list, added, main, polls>>

WakeSpuriously ==
    /\ Spurious
    /\ thread = "waiting" /\ thread' = "woken"
    /\ UNCHANGED <<m_status, m_list, added, main, polls, alive>>

\* Lines 87-108: the thread has m_lock again.
AfterWait ==
    /\ thread = "woken"
    /\ \/ m_status # "RUNNING" /\ LeaveRun /\ UNCHANGED m_list
       \/ m_status = "RUNNING" /\ TakeMessage /\ UNCHANGED m_status
       \/ /\ m_status = "RUNNING" /\ m_list = 0
          /\ thread' = "loop" /\ UNCHANGED <<m_status, m_list>>
    /\ UNCHANGED <<added, main, polls, alive>>

\* Lines 110-125.
WorkDone ==
    /\ thread = "work" /\ thread' = "loop"
    /\ UNCHANGED <<m_status, m_list, added, main, polls, alive>>

ThreadStep ==
    Begin \/ Serve \/ SeeQuitReady \/ SeeQuitFailed \/ DeleteSelf \/ AfterWait \/ WorkDone

-------------------------------------------------------------------------------
Next == MainStep \/ ThreadStep \/ WakeSpuriously

Spec == Init /\ [][Next]_vars

\* Both threads are scheduled; main() calls Quit() in the end (main.cpp:41).
FairSpec == Spec /\ WF_vars(MainStep) /\ WF_vars(ThreadStep)

-------------------------------------------------------------------------------
\* The type invariant.
TypeOK ==
    /\ m_status \in {"INIT", "RUNNING", "QUITREADY", "QUIT", "QUITFAILED"}
    /\ m_list \in Nat /\ added \in 0 .. MaxMessages
    /\ main \in {"add", "poll", "delete", "done", "failed"}
    /\ polls \in 0 .. WAITING_QUIT_LOOP_TIMES
    /\ thread \in {"start", "loop", "waiting", "woken", "work", "delete", "gone"}
    /\ alive \in BOOLEAN

\* Whoever still runs a method of the object, or is about to delete it, finds it
\* there: it is deleted once, by Quit() at line 37 or by the thread at line 76,
\* after the other one has finished with it.
NoUseAfterFree ==
    /\ main \in {"add", "poll", "delete"} => alive
    /\ thread # "gone" => alive
    /\ ~(main = "delete" /\ thread # "gone")
    /\ ~(thread = "delete" /\ main \notin {"failed"})

\* The thread never sleeps on messages it was given (lines 55, 85-87).
NoLostWakeup == thread = "waiting" => m_list = 0

\* After Quit() has been called the object is deleted in the end, by Quit() or, when
\* that returned -1, by the thread itself (lines 34-41, 74-77), and Quit() may not
\* give up on a thread that is busy or late without that thread deleting the object.
\* The exception is the code's: a thread that was woken, but has m_lock again only
\* after Quit() gave up, sets STATUS_QUIT over STATUS_QUITFAILED (lines 88-92) and
\* leaves the object to a Quit() that has returned.
DeletedAtLast ==
    /\ main = "poll" ~> ~alive \/ (main = "failed" /\ m_status = "QUIT")
    /\ main = "failed" /\ thread \in {"start", "loop", "work"} ~> ~alive
===============================================================================
