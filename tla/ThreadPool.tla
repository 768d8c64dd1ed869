------------------------------ MODULE ThreadPool ------------------------------
(***************************************************************************)
(* class_lib/thread_pool.{h,cpp}, POSIX branch: a pool of worker threads,  *)
(* one slot of thread_info per worker.  Clients hand a job to the pool     *)
(* with process_job(); a manager removes the last idle worker from time to *)
(* time.  A step is one access to shared data; a critical section with no  *)
(* step of its own inside (117-119, 373-378, 385-387, 407-410) is one step *)
(* enabled while the lock can be taken.                                    *)
(***************************************************************************)
EXTENDS Integers, FiniteSets

CONSTANTS
    Clients,        \* the threads that call process_job()
    Jobs,           \* the ProcessEvent objects the clients own at the start
    NULL,           \* the null ProcessEvent pointer
    min_num, max_num,   \* the arguments of init()
    ThreadLimit,    \* BOUND: pthread_create fails after this many threads
    TimelySleep,    \* sleep(1) after init() and usleep(100ms) in add_thread()
                    \* outlast the start of the workers they wait for
    IdStoredFirst,  \* pthread_create stores the id before the thread runs
    Spurious,       \* pthread_cond_wait may return without a signal
    Manages         \* the run is longer than MANAGE_INTERVAL (60 s)

Slots   == 0 .. max_num - 1
Workers == 1 .. ThreadLimit
NoThread == 0

ASSUME PoolAssumption ==
    /\ min_num \in Nat \ {0} /\ max_num \in Nat /\ min_num <= max_num
    /\ ThreadLimit \in Nat /\ min_num <= ThreadLimit
    /\ NULL \notin Jobs
    /\ {TimelySleep, IdStoredFirst, Spurious, Manages} \subseteq BOOLEAN

VARIABLES
    cur_th_num,     \* thread_pool.h:92
    thread_info,    \* the slots, thread_pool.h:48-64.  thread_lock is "free",
                    \* "destroyed", or "dead": held for ever by a worker that
                    \* was cancelled inside pthread_cond_wait
    tp_lock,        \* the clients inside lines 397-415: none or one
    created,        \* threads created so far; their ids are 1 .. created
    cancelled,      \* threads with a pending pthread_cancel
    worker,         \* per worker: its place, nseq, the job it executes
    client,         \* per client: its place, i, its argument, and the value
                    \* loaded for cur_th_num++
    manager,        \* its place, index, busy_num, and the value loaded for
                    \* cur_th_num--
    alive,          \* jobs not deleted
    runs,           \* times process() was called on each job
    accepted        \* jobs for which process_job() returned 0

vars == <<cur_th_num, thread_info, tp_lock, created, cancelled, worker, client,
          manager, alive, runs, accepted>>

\* What no step of a worker, a client or the manager changes, and what most steps
\* of a client leave alone.
workerFrame  == <<cur_th_num, tp_lock, created, cancelled, client, manager, accepted>>
clientFrame  == <<cancelled, manager, runs>>
managerFrame == <<tp_lock, created, worker, client, runs, accepted>>
inert        == <<clientFrame, thread_info, worker, created, alive, accepted>>

-------------------------------------------------------------------------------
\* init() has returned true: min_num threads exist and none has run yet.  The
\* slots come from malloc; only quit_flag and pProcessEvent are set, so is_busy
\* is whatever the memory held.
Init ==
    /\ cur_th_num = min_num
    /\ \E garbage \in [Slots -> BOOLEAN] :
         thread_info = [i \in Slots |->
            [is_busy |-> garbage[i], pProcessEvent |-> NULL,
             thread_id |-> IF i < min_num THEN i + 1 ELSE NoThread,
             thread_lock |-> IF i < min_num THEN "free" ELSE "destroyed"]]
    /\ tp_lock = {} /\ created = min_num /\ cancelled = {}
    /\ worker = [w \in Workers |->
                    [pc |-> IF w <= min_num THEN "lookup" ELSE "none",
                     seq |-> 0, job |-> NULL]]
    /\ client = [c \in Clients |-> [pc |-> "out", i |-> 0, job |-> NULL, reg |-> 0]]
    /\ manager = [pc |-> "sleep", i |-> 0, busy |-> 0, reg |-> 0]
    /\ alive = Jobs /\ runs = [j \in Jobs |-> 0] /\ accepted = {}

\* pthread_mutex_lock returns: the mutex is free, or it has been destroyed and
\* the call fails at once, which the code never looks at.
CanLock(i) == thread_info[i].thread_lock \in {"free", "destroyed"}

\* The workers blocked in pthread_cond_wait on slot i.
Parked(i) == {w \in Workers : worker[w].pc = "wait" /\ worker[w].seq = i}

\* Some workers have been created but have not reached pthread_cond_wait yet.
Starting == \E w \in Workers : worker[w].pc \in {"lookup", "begin"}

-------------------------------------------------------------------------------
(* tp_work_thread(), lines 100-132. *)

WorkerGoes(w, from, to) ==
    /\ worker[w].pc = from
    /\ worker' = [worker EXCEPT ![w].pc = to]

\* get_thread_by_id(): the slot below cur_th_num that holds this thread's id;
\* a worker that does not find itself ends, and nobody is told.
Lookup(w) ==
    /\ worker[w].pc = "lookup"
    /\ LET mine == {i \in Slots : i < cur_th_num /\ thread_info[i].thread_id = w} IN
       \/ \E i \in mine :
            worker' = [worker EXCEPT ![w].pc = "begin", ![w].seq = i]
       \/ mine = {} /\ worker' = [worker EXCEPT ![w].pc = "exit"]
    /\ UNCHANGED <<workerFrame, thread_info, alive, runs>>

\* Variant of Park: is_busy is not reset at line 118.
ParkBusy(w) ==
    /\ WorkerGoes(w, "begin", "wait") \/ WorkerGoes(w, "again", "wait")
    /\ CanLock(worker[w].seq)
    /\ UNCHANGED <<workerFrame, thread_info, alive, runs>>

\* Lines 117-119: not busy, and blocked on the condition, in one locked region.
Park(w) ==
    /\ WorkerGoes(w, "begin", "wait") \/ WorkerGoes(w, "again", "wait")
    /\ CanLock(worker[w].seq)
    /\ thread_info' = [thread_info EXCEPT ![worker[w].seq].is_busy = FALSE]
    /\ UNCHANGED <<workerFrame, alive, runs>>

WakeSpuriously(w) ==
    /\ Spurious
    /\ WorkerGoes(w, "wait", "woken")
    /\ UNCHANGED <<workerFrame, thread_info, alive, runs>>

\* Lines 119-120: pthread_cond_wait takes the mutex back and it is released.
Return(w) ==
    /\ WorkerGoes(w, "woken", "check")
    /\ CanLock(worker[w].seq)
    /\ UNCHANGED <<workerFrame, thread_info, alive, runs>>

\* Line 123: the job pointer is read without the lock.
Check(w) ==
    /\ LET job == thread_info[worker[w].seq].pProcessEvent IN
       \/ job = NULL /\ WorkerGoes(w, "check", "again")
       \/ job # NULL /\ WorkerGoes(w, "check", "process")
    /\ UNCHANGED <<workerFrame, thread_info, alive, runs>>

\* Line 125: the pointer is read again and process() is called through it.
Process(w) ==
    /\ worker[w].pc = "process"
    /\ LET job == thread_info[worker[w].seq].pProcessEvent IN
       /\ worker' = [worker EXCEPT ![w].pc = "running", ![w].job = job]
       /\ runs' = [j \in Jobs |-> IF j = job THEN runs[j] + 1 ELSE runs[j]]
    /\ UNCHANGED <<workerFrame, thread_info, alive>>

\* Lines 125-126: process() returns; whatever the slot points to is deleted.
Finish(w) ==
    /\ worker[w].pc = "running"
    /\ worker' = [worker EXCEPT ![w].pc = "null", ![w].job = NULL]
    /\ alive' = alive \ {thread_info[worker[w].seq].pProcessEvent}
    /\ UNCHANGED <<workerFrame, thread_info, runs>>

\* Variant of Forget: line 127 is missing.
ForgetNothing(w) ==
    /\ WorkerGoes(w, "null", "again")
    /\ UNCHANGED <<workerFrame, thread_info, alive, runs>>

\* Line 127.
Forget(w) ==
    /\ WorkerGoes(w, "null", "again")
    /\ thread_info' = [thread_info EXCEPT ![worker[w].seq].pProcessEvent = NULL]
    /\ UNCHANGED <<workerFrame, alive, runs>>

\* A cancelled worker ends at its next cancellation point.  In pthread_cond_wait
\* it first takes the mutex back and, with no cleanup handler, never releases it.
DieWaiting(w) ==
    /\ w \in cancelled
    /\ WorkerGoes(w, "wait", "exit")
    /\ CanLock(worker[w].seq)
    /\ thread_info' = [thread_info EXCEPT ![worker[w].seq].thread_lock =
                          IF @ = "free" THEN "dead" ELSE @]
    /\ UNCHANGED <<workerFrame, alive, runs>>

\* The client's process() sleeps and prints: both are cancellation points.
DieRunning(w) ==
    /\ w \in cancelled
    /\ worker[w].pc = "running"
    /\ worker' = [worker EXCEPT ![w].pc = "exit", ![w].job = NULL]
    /\ UNCHANGED <<workerFrame, thread_info, alive, runs>>

WorkerStep(w) ==
    \/ Lookup(w) \/ Park(w) \/ Return(w) \/ Check(w) \/ Process(w) \/ Finish(w)
    \/ Forget(w) \/ DieWaiting(w) \/ DieRunning(w)

-------------------------------------------------------------------------------
(* process_job(), lines 367-418, and add_thread(), lines 439-492. *)

ClientGoes(c, from, to) ==
    /\ client[c].pc = from
    /\ client' = [client EXCEPT ![c].pc = to]

\* A client offers a job it still owns: a new one, or one refused before.
Call(c) ==
    /\ client[c].pc = "out"
    /\ TimelySleep => ~Starting
    /\ \E j \in Jobs \ (accepted \cup {client[d].job : d \in Clients}) :
         client' = [client EXCEPT ![c].pc = "scan", ![c].i = 0, ![c].job = j]
    /\ UNCHANGED <<inert, cur_th_num, tp_lock>>

\* Variant of Scan: the loop test of line 371 is i <= cur_th_num.
ScanPastEnd(c) ==
    /\ \/ client[c].i <= cur_th_num /\ ClientGoes(c, "scan", "probe")
       \/ client[c].i > cur_th_num /\ ClientGoes(c, "scan", "lock")
    /\ UNCHANGED <<inert, cur_th_num, tp_lock>>

\* Line 371: the loop test reads cur_th_num without tp_lock.
Scan(c) ==
    /\ \/ client[c].i < cur_th_num /\ ClientGoes(c, "scan", "probe")
       \/ client[c].i >= cur_th_num /\ ClientGoes(c, "scan", "lock")
    /\ UNCHANGED <<inert, cur_th_num, tp_lock>>

\* Variants of Reserve: the slot is not marked at line 377; is_busy is not tested
\* at line 374.
ReserveUnmarked(c) ==
    /\ ClientGoes(c, "probe", "clear")
    /\ CanLock(client[c].i) /\ ~thread_info[client[c].i].is_busy
    /\ UNCHANGED <<clientFrame, thread_info, cur_th_num, tp_lock, worker, created, alive,
                   accepted>>

ReserveAny(c) ==
    /\ ClientGoes(c, "probe", "clear")
    /\ CanLock(client[c].i)
    /\ thread_info' = [thread_info EXCEPT ![client[c].i].is_busy = TRUE]
    /\ UNCHANGED <<clientFrame, cur_th_num, tp_lock, worker, created, alive, accepted>>

\* Lines 373-378: an idle slot is marked busy, which reserves it.
Reserve(c) ==
    /\ ClientGoes(c, "probe", "clear")
    /\ CanLock(client[c].i) /\ ~thread_info[client[c].i].is_busy
    /\ thread_info' = [thread_info EXCEPT ![client[c].i].is_busy = TRUE]
    /\ UNCHANGED <<clientFrame, cur_th_num, tp_lock, worker, created, alive, accepted>>

\* Line 393: a busy slot is passed over.
Skip(c) ==
    /\ client[c].pc = "probe"
    /\ CanLock(client[c].i) /\ thread_info[client[c].i].is_busy
    /\ client' = [client EXCEPT ![c].pc = "scan", ![c].i = @ + 1]
    /\ UNCHANGED <<inert, cur_th_num, tp_lock>>

\* Lines 380-381 and 403-404: a job still in the slot is deleted.
Clear(c) ==
    /\ ClientGoes(c, "clear", "set") \/ ClientGoes(c, "clearNew", "setNew")
    /\ alive' = alive \ {thread_info[client[c].i].pProcessEvent}
    /\ UNCHANGED <<clientFrame, cur_th_num, tp_lock, thread_info, worker, created, accepted>>

\* Lines 382 and 405.
Assign(c) ==
    /\ ClientGoes(c, "set", "signal") \/ ClientGoes(c, "setNew", "signalNew")
    /\ thread_info' = [thread_info EXCEPT ![client[c].i].pProcessEvent = client[c].job]
    /\ UNCHANGED <<clientFrame, cur_th_num, tp_lock, worker, created, alive, accepted>>

\* pthread_cond_signal on slot i: wakes one blocked worker, or is lost.
WakeOne(i) ==
    \/ \E w \in Parked(i) : worker' = [worker EXCEPT ![w].pc = "woken"]
    \/ Parked(i) = {} /\ UNCHANGED worker

\* Lines 385-390 and, for an added worker, 407-413: process_job() returns 0.
Signal(c) ==
    /\ client[c].pc \in {"signal", "signalNew"}
    /\ CanLock(client[c].i)
    /\ \/ client[c].pc = "signal" /\ UNCHANGED thread_info
       \/ /\ client[c].pc = "signalNew"
          /\ thread_info' = [thread_info EXCEPT ![client[c].i].is_busy = TRUE]
    /\ WakeOne(client[c].i)
    /\ accepted' = accepted \cup {client[c].job}
    /\ client' = [client EXCEPT ![c].pc = "out", ![c].job = NULL]
    /\ UNCHANGED <<clientFrame, cur_th_num, tp_lock, created, alive>>

\* Variant of LockPool: add_thread() is called without tp_lock.
LockPoolOpen(c) ==
    /\ ClientGoes(c, "lock", "add")
    /\ tp_lock' = {c}
    /\ UNCHANGED <<inert, cur_th_num>>

\* Line 397.
LockPool(c) ==
    /\ ClientGoes(c, "lock", "add")
    /\ tp_lock = {} /\ tp_lock' = {c}
    /\ UNCHANGED <<inert, cur_th_num>>

\* Variant of Refuse: the failure path returns without line 415.
RefuseLocked(c) ==
    /\ \/ client[c].pc = "add" /\ max_num <= cur_th_num
       \/ client[c].pc = "create" /\ created = ThreadLimit
    /\ client' = [client EXCEPT ![c].pc = "out", ![c].job = NULL]
    /\ UNCHANGED <<inert, cur_th_num, tp_lock>>

\* Lines 443-444 or 485-486, then 415-417: no thread was added, the client keeps
\* its job.  When pthread_create fails cur_th_num has already been incremented.
Refuse(c) ==
    /\ \/ client[c].pc = "add" /\ max_num <= cur_th_num
       \/ client[c].pc = "create" /\ created = ThreadLimit
    /\ tp_lock' = {}
    /\ client' = [client EXCEPT ![c].pc = "out", ![c].job = NULL]
    /\ UNCHANGED <<inert, cur_th_num>>

\* Variant of OpenSlot: the test of line 443 is max_th_num < cur_th_num.
OpenSlotPastEnd(c) ==
    /\ client[c].pc = "add" /\ cur_th_num <= max_num
    /\ client' = [client EXCEPT ![c].pc = "load", ![c].i = cur_th_num]
    /\ UNCHANGED <<clientFrame, thread_info, cur_th_num, tp_lock, worker, created, alive,
                   accepted>>

\* Lines 443-479: the slot is chosen and its mutex and condition initialised.
OpenSlot(c) ==
    /\ client[c].pc = "add" /\ cur_th_num < max_num
    /\ client' = [client EXCEPT ![c].pc = "load", ![c].i = cur_th_num]
    /\ thread_info' = [thread_info EXCEPT ![cur_th_num].thread_lock = "free"]
    /\ UNCHANGED <<clientFrame, cur_th_num, tp_lock, worker, created, alive, accepted>>

\* Line 482: cur_th_num++ is a load and a store; the manager takes no lock.
LoadSize(c) ==
    /\ client[c].pc = "load"
    /\ client' = [client EXCEPT ![c].pc = "store", ![c].reg = cur_th_num]
    /\ UNCHANGED <<inert, cur_th_num, tp_lock>>

StoreSize(c) ==
    /\ ClientGoes(c, "store", "create")
    /\ cur_th_num' = client[c].reg + 1
    /\ UNCHANGED <<inert, tp_lock>>

\* Line 484: the new thread exists; its id may reach the slot only later.
Create(c) ==
    /\ created < ThreadLimit
    /\ created' = created + 1
    /\ worker' = [worker EXCEPT ![created'].pc = "lookup"]
    /\ \/ /\ IdStoredFirst
          /\ ClientGoes(c, "create", "sleep")
          /\ thread_info' = [thread_info EXCEPT ![client[c].i].thread_id = created']
       \/ /\ ~IdStoredFirst
          /\ ClientGoes(c, "create", "id")
          /\ UNCHANGED thread_info
    /\ UNCHANGED <<clientFrame, cur_th_num, tp_lock, alive, accepted>>

StoreId(c) ==
    /\ ClientGoes(c, "id", "sleep")
    /\ thread_info' = [thread_info EXCEPT ![client[c].i].thread_id = created]
    /\ UNCHANGED <<clientFrame, cur_th_num, tp_lock, worker, created, alive, accepted>>

\* Variant of PickLast: the usleep of line 488 is missing.
PickLastAtOnce(c) ==
    /\ client[c].pc = "sleep"
    /\ client' = [client EXCEPT ![c].pc = "clearNew", ![c].i = cur_th_num - 1]
    /\ tp_lock' = {}
    /\ UNCHANGED <<inert, cur_th_num>>

\* Lines 488 and 400-401: after usleep(100ms) the last slot is taken to be the
\* one just added, and tp_lock is released.
PickLast(c) ==
    /\ client[c].pc = "sleep"
    /\ TimelySleep => ~Starting
    /\ client' = [client EXCEPT ![c].pc = "clearNew", ![c].i = cur_th_num - 1]
    /\ tp_lock' = {}
    /\ UNCHANGED <<inert, cur_th_num>>

ClientStep(c) ==
    \/ Call(c) \/ Scan(c) \/ Reserve(c) \/ Skip(c) \/ Clear(c) \/ Assign(c)
    \/ Signal(c) \/ LockPool(c) \/ Refuse(c) \/ OpenSlot(c) \/ LoadSize(c)
    \/ StoreSize(c) \/ Create(c) \/ StoreId(c) \/ PickLast(c)

-------------------------------------------------------------------------------
(* tp_manage_thread(), lines 139-166, with get_tp_status(), 568-582, and
   delete_thread(), 494-566.  None of them takes a lock. *)

ManagerGoes(from, to) ==
    /\ manager.pc = from
    /\ manager' = [manager EXCEPT !.pc = to]

WakeManager ==
    /\ Manages /\ manager.pc = "sleep"
    /\ manager' = [manager EXCEPT !.pc = "count", !.i = 0, !.busy = 0]
    /\ UNCHANGED <<managerFrame, cur_th_num, thread_info, cancelled, alive>>

\* Lines 573-575.
CountBusy ==
    /\ manager.pc = "count" /\ manager.i < cur_th_num
    /\ manager' = [manager EXCEPT !.i = @ + 1,
                     !.busy = IF thread_info[manager.i].is_busy THEN @ + 1 ELSE @]
    /\ UNCHANGED <<managerFrame, cur_th_num, thread_info, cancelled, alive>>

\* Lines 578-581: idle when busy_num / cur_th_num < 0.5.
Judge ==
    /\ manager.i >= cur_th_num
    /\ \/ ManagerGoes("count", "remove") /\ 2 * manager.busy < cur_th_num
       \/ ManagerGoes("count", "sleep") /\ 2 * manager.busy >= cur_th_num
    /\ UNCHANGED <<managerFrame, cur_th_num, thread_info, cancelled, alive>>

\* Variant of ChooseLast: the test of line 497 is cur_th_num < min_th_num.
ChooseLastTooFew ==
    /\ manager.pc = "remove"
    /\ \/ cur_th_num < min_num /\ ManagerGoes("remove", "sleep")
       \/ /\ cur_th_num >= min_num
          /\ manager' = [manager EXCEPT !.pc = "probe", !.i = cur_th_num - 1]
    /\ UNCHANGED <<managerFrame, cur_th_num, thread_info, cancelled, alive>>

\* Lines 497-500.
ChooseLast ==
    /\ manager.pc = "remove"
    /\ \/ cur_th_num <= min_num /\ ManagerGoes("remove", "sleep")
       \/ /\ cur_th_num > min_num
          /\ manager' = [manager EXCEPT !.pc = "probe", !.i = cur_th_num - 1]
    /\ UNCHANGED <<managerFrame, cur_th_num, thread_info, cancelled, alive>>

\* Lines 503-504: is_busy is read without the slot's lock.
ProbeLast ==
    /\ \/ ManagerGoes("probe", "sleep") /\ thread_info[manager.i].is_busy
       \/ ManagerGoes("probe", "cancel") /\ ~thread_info[manager.i].is_busy
    /\ UNCHANGED <<managerFrame, cur_th_num, thread_info, cancelled, alive>>

\* Line 546.
Cancel ==
    /\ ManagerGoes("cancel", "destroy")
    /\ cancelled' = cancelled \cup ({thread_info[manager.i].thread_id} \ {NoThread})
    /\ UNCHANGED <<managerFrame, cur_th_num, thread_info, alive>>

\* Lines 548-549: destroying a mutex that is held fails and changes nothing.
Destroy ==
    /\ ManagerGoes("destroy", "delete")
    /\ thread_info' = [thread_info EXCEPT ![manager.i].thread_lock =
                          IF @ = "free" THEN "destroyed" ELSE @]
    /\ UNCHANGED <<managerFrame, cur_th_num, cancelled, alive>>

\* Lines 554-558.
DeleteJob ==
    /\ ManagerGoes("delete", "load")
    /\ alive' = alive \ {thread_info[manager.i].pProcessEvent}
    /\ thread_info' = [thread_info EXCEPT ![manager.i].pProcessEvent = NULL]
    /\ UNCHANGED <<managerFrame, cur_th_num, cancelled>>

\* Line 563: cur_th_num-- is a load and a store.
LoadLast ==
    /\ manager.pc = "load"
    /\ manager' = [manager EXCEPT !.pc = "store", !.reg = cur_th_num]
    /\ UNCHANGED <<managerFrame, cur_th_num, thread_info, cancelled, alive>>

StoreLast ==
    /\ ManagerGoes("store", "remove")
    /\ cur_th_num' = manager.reg - 1
    /\ UNCHANGED <<managerFrame, thread_info, cancelled, alive>>

ManagerStep ==
    \/ WakeManager \/ CountBusy \/ Judge \/ ChooseLast \/ ProbeLast \/ Cancel
    \/ Destroy \/ DeleteJob \/ LoadLast \/ StoreLast

-------------------------------------------------------------------------------
Next ==
    \/ \E w \in Workers : WorkerStep(w) \/ WakeSpuriously(w)
    \/ \E c \in Clients : ClientStep(c)
    \/ ManagerStep

Spec == Init /\ [][Next]_vars

\* Every thread is scheduled, process() returns and clients offer refused jobs
\* again (test_thread_pool/main.cpp:135-160); a spurious wake-up is never owed.
FairSpec ==
    /\ Spec
    /\ \A w \in Workers : WF_vars(WorkerStep(w))
    /\ \A c \in Clients : WF_vars(ClientStep(c))
    /\ WF_vars(ManagerStep)

-------------------------------------------------------------------------------
Slot == [is_busy : BOOLEAN, pProcessEvent : Jobs \cup {NULL},
         thread_id : Workers \cup {NoThread},
         thread_lock : {"free", "dead", "destroyed"}]
Worker == [pc : {"none", "lookup", "begin", "wait", "woken", "check", "process",
                 "running", "null", "again", "exit"},
           seq : Slots, job : Jobs \cup {NULL}]
Client == [pc : {"out", "scan", "probe", "clear", "set", "signal", "lock", "add",
                 "load", "store", "create", "id", "sleep", "clearNew", "setNew",
                 "signalNew"},
           i : 0 .. max_num, job : Jobs \cup {NULL}, reg : 0 .. max_num]
Manager == [pc : {"sleep", "count", "remove", "probe", "cancel", "destroy",
                  "delete", "load", "store"},
            i : 0 .. max_num, busy : 0 .. max_num, reg : 0 .. max_num]

\* The type invariant of the module.
TypeOK ==
    /\ cur_th_num \in 0 .. max_num
    /\ thread_info \in [Slots -> Slot]
    /\ tp_lock \subseteq Clients
    /\ created \in 0 .. ThreadLimit
    /\ cancelled \subseteq Workers
    /\ worker \in [Workers -> Worker]
    /\ client \in [Clients -> Client]
    /\ manager \in Manager
    /\ alive \subseteq Jobs /\ runs \in [Jobs -> Nat] /\ accepted \subseteq Jobs

\* The pool never shrinks below min_th_num nor grows past the max_th_num slots
\* init() allocated, although cur_th_num++ (line 482, under tp_lock) and
\* cur_th_num-- (line 563, under no lock) can overwrite each other.
PoolSize == min_num <= cur_th_num /\ cur_th_num <= max_num

\* Every index used on thread_info lies inside the array malloc'ed by init():
\* the scanned slot (371-375), the added one (447), the one taken to be the
\* last (400) and the manager's (500), each computed from a cur_th_num that
\* another thread may be changing.
IndexInBounds ==
    /\ \A c \in Clients :
         client[c].pc \notin {"out", "scan", "lock", "add"} => client[c].i \in Slots
    /\ manager.pc \in {"probe", "cancel", "destroy", "delete"} => manager.i \in Slots

\* No thread calls, deletes or replaces a job that was already deleted: the
\* worker between lines 123 and 127, the client at lines 380 and 403.
NoUseAfterFree ==
    /\ \A w \in Workers :
         LET job == thread_info[worker[w].seq].pProcessEvent IN
         /\ worker[w].pc = "process" => job \in alive
         /\ worker[w].pc = "running" => worker[w].job = job /\ job \in alive
    /\ \A c \in Clients :
         client[c].pc \in {"clear", "clearNew"} =>
            thread_info[client[c].i].pProcessEvent \in alive \cup {NULL}

\* A job is executed at most once, whatever process_job() and the workers'
\* unlocked reads of the slot do (lines 123-127, 380-382).
RunAtMostOnce == \A j \in Jobs : runs[j] <= 1

\* The pool deletes a job only after having executed it: neither line 381 nor
\* line 404 throws away a job that is still waiting for its worker.
DeletedAfterRun == \A j \in Jobs : j \notin alive => runs[j] = 1

\* A job process_job() accepted and that has not run is in the slot of a worker
\* that is on its way to it: the signal of line 386 or 409 was not lost.
PendingHasWorker ==
    \A j \in accepted : runs[j] = 0 =>
        \E w \in Workers : /\ worker[w].pc \in {"woken", "check", "process"}
                           /\ thread_info[worker[w].seq].pProcessEvent = j

\* delete_thread() cancels a worker only while its slot is idle (lines 502-504:
\* "if last thread is busy, do nothing").
BusyThreadSpared == manager.pc = "cancel" => ~thread_info[manager.i].is_busy

\* Why PoolSize and IndexInBounds hold, in a form every step preserves: who is
\* between lines 397 and 415 holds tp_lock; a client loads and adds to a size
\* below max_num, the manager loads and subtracts from one above min_num, so a
\* store that overwrites the other's update still lands inside the bounds.
Adding == {"add", "load", "store", "create", "id", "sleep"}

SizeInv ==
    /\ PoolSize
    /\ IndexInBounds
    /\ \A c, d \in Clients : c \in tp_lock /\ d \in tp_lock => c = d
    /\ \A c \in Clients :
         /\ client[c].pc \in Adding => c \in tp_lock
         /\ client[c].pc = "load" => cur_th_num < max_num
         /\ client[c].pc = "store" => min_num <= client[c].reg /\ client[c].reg < max_num
         /\ client[c].pc # "out" => client[c].job \in Jobs
    /\ manager.pc \in {"probe", "cancel", "destroy", "delete", "load"} =>
            min_num < cur_th_num
    /\ manager.pc = "store" => min_num < manager.reg
    /\ manager.pc = "count" => manager.busy <= manager.i

\* Every call of process_job() returns.
CallReturns == \A c \in Clients : client[c].pc # "out" ~> client[c].pc = "out"

\* Every job the clients offer is executed in the end.
EveryJobRuns == \A j \in Jobs : <>(runs[j] = 1)
===============================================================================
