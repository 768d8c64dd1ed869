--------------------------- MODULE ThreadPoolProofs ---------------------------
(***************************************************************************)
(* Proofs about ThreadPool, in three parts, each resting on the one before.*)
(*                                                                         *)
(* 1. Types, sizes and indices, for any number of clients, jobs and threads*)
(*    and whatever the sleeps, the spurious wake-ups and the manager do:   *)
(*    IInv, that is TypeOK and SizeInv, is inductive.                      *)
(* 2. A job is executed at most once, whatever the clients and the sleeps  *)
(*    do, until the manager first removes a worker: OnceInv is inductive.  *)
(* 3. No job is lost, thrown away or used after it was deleted, in a pool  *)
(*    with one client and time to start its threads, again until the       *)
(*    manager first removes a worker: CalmInv is inductive.                *)
(*                                                                         *)
(* Every step of Next has its own step in each part; the steps of one      *)
(* thread are gathered in a lemma.                                         *)
(***************************************************************************)
EXTENDS ThreadPool, TLAPS

IInv == TypeOK /\ SizeInv

\* The initial states satisfy the invariant: init() has filled min_num slots.
LEMMA InitIInv == Init => IInv
  BY PoolAssumption
  DEF Init, IInv, TypeOK, SizeInv, PoolSize, IndexInBounds, Adding, Slots, Workers,
      NoThread, Slot, Worker, Client, Manager

\* The steps of a worker, tp_work_thread(): they touch no size and no index but
\* the worker's own slot, which get_thread_by_id() found below cur_th_num.
LEMMA WorkerKeeps ==
  ASSUME TypeOK, SizeInv, NEW w \in Workers, WorkerStep(w) \/ WakeSpuriously(w)
  PROVE  TypeOK' /\ SizeInv'
<1>1. CASE Lookup(w)
  <2>1. worker' \in [Workers -> Worker]
    BY <1>1 DEF TypeOK, Lookup, Worker
  <2>2. TypeOK'
    BY <1>1, <2>1 DEF TypeOK, Lookup, workerFrame
  <2>3. SizeInv'
    BY <1>1 DEF Lookup, workerFrame, SizeInv, PoolSize, IndexInBounds, Adding
  <2> QED BY <2>2, <2>3
<1>2. CASE Park(w)
  <2>1. worker' \in [Workers -> Worker]
    BY <1>2 DEF TypeOK, Park, WorkerGoes, Worker
  <2>2. worker[w].seq \in Slots
    BY <1>2 DEF TypeOK, Worker
  <2>3. thread_info' \in [Slots -> Slot]
    BY <1>2, <2>2, ZenonT(60) DEF TypeOK, Park, Slot
  <2>4. TypeOK'
    BY <1>2, <2>1, <2>2, <2>3 DEF TypeOK, Park, workerFrame
  <2>5. SizeInv'
    BY <1>2 DEF Park, workerFrame, SizeInv, PoolSize, IndexInBounds, Adding
  <2> QED BY <2>4, <2>5
<1>3. CASE Return(w)
  <2>1. worker' \in [Workers -> Worker]
    BY <1>3 DEF TypeOK, Return, WorkerGoes, Worker
  <2>2. TypeOK'
    BY <1>3, <2>1 DEF TypeOK, Return, workerFrame
  <2>3. SizeInv'
    BY <1>3 DEF Return, workerFrame, SizeInv, PoolSize, IndexInBounds, Adding
  <2> QED BY <2>2, <2>3
<1>4. CASE Check(w)
  <2>1. worker' \in [Workers -> Worker]
    BY <1>4 DEF TypeOK, Check, WorkerGoes, Worker
  <2>2. TypeOK'
    BY <1>4, <2>1 DEF TypeOK, Check, workerFrame
  <2>3. SizeInv'
    BY <1>4 DEF Check, workerFrame, SizeInv, PoolSize, IndexInBounds, Adding
  <2> QED BY <2>2, <2>3
<1>5. CASE Process(w)
  <2>1. worker' \in [Workers -> Worker]
    BY <1>5, ZenonT(60) DEF TypeOK, Process, Worker, Slot
  <2>2. runs' \in [Jobs -> Nat]
    BY <1>5 DEF TypeOK, Process
  <2>3. TypeOK'
    BY <1>5, <2>1, <2>2 DEF TypeOK, Process, workerFrame
  <2>4. SizeInv'
    BY <1>5 DEF Process, workerFrame, SizeInv, PoolSize, IndexInBounds, Adding
  <2> QED BY <2>3, <2>4
<1>6. CASE Finish(w)
  <2>1. worker' \in [Workers -> Worker]
    BY <1>6, ZenonT(60) DEF TypeOK, Finish, Worker
  <2>2. TypeOK'
    BY <1>6, <2>1 DEF TypeOK, Finish, workerFrame
  <2>3. SizeInv'
    BY <1>6 DEF Finish, workerFrame, SizeInv, PoolSize, IndexInBounds, Adding
  <2> QED BY <2>2, <2>3
<1>7. CASE Forget(w)
  <2>1. worker' \in [Workers -> Worker]
    BY <1>7 DEF TypeOK, Forget, WorkerGoes, Worker
  <2>2. worker[w].seq \in Slots
    BY <1>7 DEF TypeOK, Worker
  <2>3. thread_info' \in [Slots -> Slot]
    BY <1>7, <2>2 DEF TypeOK, Forget, Slot
  <2>4. TypeOK'
    BY <1>7, <2>1, <2>2, <2>3 DEF TypeOK, Forget, workerFrame
  <2>5. SizeInv'
    BY <1>7 DEF Forget, workerFrame, SizeInv, PoolSize, IndexInBounds, Adding
  <2> QED BY <2>4, <2>5
<1>8. CASE DieWaiting(w)
  <2>1. worker' \in [Workers -> Worker]
    BY <1>8 DEF TypeOK, DieWaiting, WorkerGoes, Worker
  <2>2. worker[w].seq \in Slots
    BY <1>8 DEF TypeOK, Worker
  <2>3. thread_info' \in [Slots -> Slot]
    BY <1>8, <2>2 DEF TypeOK, DieWaiting, Slot
  <2>4. TypeOK'
    BY <1>8, <2>1, <2>2, <2>3 DEF TypeOK, DieWaiting, workerFrame
  <2>5. SizeInv'
    BY <1>8 DEF DieWaiting, workerFrame, SizeInv, PoolSize, IndexInBounds, Adding
  <2> QED BY <2>4, <2>5
<1>9. CASE DieRunning(w)
  <2>1. worker' \in [Workers -> Worker]
    BY <1>9, ZenonT(60) DEF TypeOK, DieRunning, Worker
  <2>2. TypeOK'
    BY <1>9, <2>1 DEF TypeOK, DieRunning, workerFrame
  <2>3. SizeInv'
    BY <1>9 DEF DieRunning, workerFrame, SizeInv, PoolSize, IndexInBounds, Adding
  <2> QED BY <2>2, <2>3
<1>10. CASE WakeSpuriously(w)
  <2>1. worker' \in [Workers -> Worker]
    BY <1>10 DEF TypeOK, WakeSpuriously, WorkerGoes, Worker
  <2>2. TypeOK'
    BY <1>10, <2>1 DEF TypeOK, WakeSpuriously, workerFrame
  <2>3. SizeInv'
    BY <1>10 DEF WakeSpuriously, workerFrame, SizeInv, PoolSize, IndexInBounds, Adding
  <2> QED BY <2>2, <2>3
<1> QED
  BY <1>1, <1>2, <1>3, <1>4, <1>5, <1>6, <1>7, <1>8, <1>9, <1>10 DEF WorkerStep

\* pthread_cond_signal leaves every worker at a place of its program.
LEMMA WakeOneType ==
  ASSUME TypeOK, NEW i \in Slots, WakeOne(i)
  PROVE  worker' \in [Workers -> Worker]
<1>1. CASE \E w \in Workers : worker' = [worker EXCEPT ![w].pc = "woken"]
  BY <1>1, ZenonT(60) DEF TypeOK, Worker
<1>2. CASE UNCHANGED worker
  BY <1>2 DEF TypeOK
<1> QED BY <1>1, <1>2 DEF WakeOne, Parked

\* The steps of a client, process_job() and add_thread(): the index is compared
\* with cur_th_num before it is used, and tp_lock keeps two loads apart.
LEMMA ClientKeeps ==
  ASSUME TypeOK, SizeInv, NEW c \in Clients, ClientStep(c)
  PROVE  TypeOK' /\ SizeInv'
<1>1. CASE Call(c)
  <2>1. client' \in [Clients -> Client]
    BY <1>1 DEF TypeOK, Call, Client
  <2>2. TypeOK'
    BY <1>1, <2>1 DEF TypeOK, Call, clientFrame, inert
  <2>3. SizeInv'
    BY <1>1, PoolAssumption DEF TypeOK, Call, clientFrame, inert, Client, SizeInv, PoolSize, IndexInBounds, Adding
  <2> QED BY <2>2, <2>3
<1>2. CASE Scan(c)
  <2>1. client' \in [Clients -> Client]
    BY <1>2 DEF TypeOK, Scan, ClientGoes, Client
  <2>2. TypeOK'
    BY <1>2, <2>1 DEF TypeOK, Scan, clientFrame, inert
  <2>3. SizeInv'
    <3>1. CASE ClientGoes(c, "scan", "probe")
      BY <1>2, <3>1, PoolAssumption
      DEF TypeOK, Scan, ClientGoes, Slots, clientFrame, inert, Client, SizeInv, PoolSize, IndexInBounds, Adding
    <3>2. CASE ClientGoes(c, "scan", "lock")
      BY <1>2, <3>2, PoolAssumption
      DEF TypeOK, Scan, ClientGoes, Slots, clientFrame, inert, Client, SizeInv, PoolSize, IndexInBounds, Adding
    <3> QED BY <1>2, <3>1, <3>2 DEF Scan
  <2> QED BY <2>2, <2>3
<1>3. CASE Reserve(c)
  <2>1. client' \in [Clients -> Client]
    BY <1>3 DEF TypeOK, Reserve, ClientGoes, Client
  <2>2. client[c].i \in Slots
    BY <1>3 DEF Reserve, ClientGoes, SizeInv, PoolSize, IndexInBounds, Adding
  <2>3. thread_info' = [thread_info EXCEPT ![client[c].i].is_busy = TRUE]
    BY <1>3 DEF Reserve
  <2>4. thread_info' \in [Slots -> Slot]
    BY <2>2, <2>3, ZenonT(60) DEF TypeOK, Slot
  <2>5. TypeOK'
    BY <1>3, <2>1, <2>2, <2>3, <2>4 DEF TypeOK, Reserve, clientFrame, inert
  <2>6. SizeInv'
    BY <1>3, PoolAssumption DEF TypeOK, Reserve, ClientGoes, clientFrame, inert, Client, SizeInv, PoolSize, IndexInBounds, Adding
  <2> QED BY <2>5, <2>6
<1>4. CASE Skip(c)
  <2>1. client[c].i + 1 \in 0 .. max_num
    BY <1>4, PoolAssumption, SMTT(30) DEF TypeOK, Skip, Slots, SizeInv, PoolSize, IndexInBounds, Adding
  <2>2. client' \in [Clients -> Client]
    BY <1>4, <2>1 DEF TypeOK, Skip, Client
  <2>3. TypeOK'
    BY <1>4, <2>1, <2>2 DEF TypeOK, Skip, clientFrame, inert
  <2>4. SizeInv'
    BY <1>4, PoolAssumption DEF TypeOK, Skip, clientFrame, inert, Client, SizeInv, PoolSize, IndexInBounds, Adding
  <2> QED BY <2>3, <2>4
<1>5. CASE Clear(c)
  <2>1. client' \in [Clients -> Client]
    BY <1>5 DEF TypeOK, Clear, ClientGoes, Client
  <2>2. TypeOK'
    BY <1>5, <2>1 DEF TypeOK, Clear, clientFrame, inert
  <2>3. SizeInv'
    <3>1. CASE ClientGoes(c, "clear", "set")
      BY <1>5, <3>1, PoolAssumption
      DEF TypeOK, Clear, ClientGoes, clientFrame, inert, Client, SizeInv, PoolSize, IndexInBounds, Adding
    <3>2. CASE ClientGoes(c, "clearNew", "setNew")
      BY <1>5, <3>2, PoolAssumption
      DEF TypeOK, Clear, ClientGoes, clientFrame, inert, Client, SizeInv, PoolSize, IndexInBounds, Adding
    <3> QED BY <1>5, <3>1, <3>2 DEF Clear
  <2> QED BY <2>2, <2>3
<1>6. CASE Assign(c)
  <2>1. client' \in [Clients -> Client]
    BY <1>6 DEF TypeOK, Assign, ClientGoes, Client
  <2>2. client[c].i \in Slots
    BY <1>6 DEF Assign, ClientGoes, SizeInv, PoolSize, IndexInBounds, Adding
  <2>3. thread_info' \in [Slots -> Slot]
    BY <1>6, <2>2, SMTT(30) DEF TypeOK, Assign, Client, Slot
  <2>4. TypeOK'
    BY <1>6, <2>1, <2>2, <2>3 DEF TypeOK, Assign, clientFrame, inert
  <2>5. SizeInv'
    <3>1. CASE ClientGoes(c, "set", "signal")
      BY <1>6, <3>1, PoolAssumption
      DEF TypeOK, Assign, ClientGoes, clientFrame, inert, Client, SizeInv, PoolSize, IndexInBounds, Adding
    <3>2. CASE ClientGoes(c, "setNew", "signalNew")
      BY <1>6, <3>2, PoolAssumption
      DEF TypeOK, Assign, ClientGoes, clientFrame, inert, Client, SizeInv, PoolSize, IndexInBounds, Adding
    <3> QED BY <1>6, <3>1, <3>2 DEF Assign
  <2> QED BY <2>4, <2>5
<1>7. CASE Signal(c)
  <2>1. client[c].i \in Slots /\ client[c].job \in Jobs
    BY <1>7 DEF Signal, SizeInv, IndexInBounds
  <2>2. /\ \/ UNCHANGED thread_info
           \/ thread_info' = [thread_info EXCEPT ![client[c].i].is_busy = TRUE]
        /\ WakeOne(client[c].i)
    BY <1>7 DEF Signal
  <2>3. thread_info' \in [Slots -> Slot]
    <3>1. CASE UNCHANGED thread_info
      BY <3>1 DEF TypeOK
    <3>2. CASE thread_info' = [thread_info EXCEPT ![client[c].i].is_busy = TRUE]
      BY <2>1, <3>2, ZenonT(60) DEF TypeOK, Slot
    <3> QED BY <2>2, <3>1, <3>2
  <2>4. worker' \in [Workers -> Worker]
    BY <2>1, <2>2, WakeOneType
  <2>5. client' \in [Clients -> Client]
    <3>1. client' = [client EXCEPT ![c].pc = "out", ![c].job = NULL]
      BY <1>7 DEF Signal
    <3> QED BY <3>1, ZenonT(60) DEF TypeOK, Client
  <2>6. TypeOK'
    BY <1>7, <2>1, <2>3, <2>4, <2>5 DEF TypeOK, Signal, clientFrame
  <2>7. SizeInv'
    BY <1>7, PoolAssumption DEF TypeOK, Signal, clientFrame, Client, SizeInv, PoolSize, IndexInBounds, Adding
  <2> QED BY <2>6, <2>7
<1>8. CASE LockPool(c)
  <2>1. client' \in [Clients -> Client]
    BY <1>8 DEF TypeOK, LockPool, ClientGoes, Client
  <2>2. TypeOK'
    BY <1>8, <2>1 DEF TypeOK, LockPool, clientFrame, inert
  <2>3. SizeInv'
    BY <1>8, PoolAssumption DEF TypeOK, LockPool, ClientGoes, clientFrame, inert, Client, SizeInv, PoolSize, IndexInBounds, Adding
  <2> QED BY <2>2, <2>3
<1>9. CASE Refuse(c)
  <2>1. client' \in [Clients -> Client]
    <3>1. client' = [client EXCEPT ![c].pc = "out", ![c].job = NULL]
      BY <1>9 DEF Refuse
    <3> QED BY <3>1, ZenonT(60) DEF TypeOK, Client
  <2>2. TypeOK'
    BY <1>9, <2>1 DEF TypeOK, Refuse, clientFrame, inert
  <2>3. SizeInv'
    BY <1>9, PoolAssumption DEF TypeOK, Refuse, clientFrame, inert, Client, SizeInv, PoolSize, IndexInBounds, Adding
  <2> QED BY <2>2, <2>3
<1>10. CASE OpenSlot(c)
  <2>1. cur_th_num \in Slots
    BY <1>10, PoolAssumption DEF TypeOK, OpenSlot, Slots
  <2>2. client' \in [Clients -> Client] /\ thread_info' \in [Slots -> Slot]
    <3>1. /\ client' = [client EXCEPT ![c].pc = "load", ![c].i = cur_th_num]
          /\ thread_info' = [thread_info EXCEPT ![cur_th_num].thread_lock = "free"]
      BY <1>10 DEF OpenSlot
    <3>2. client' \in [Clients -> Client]
      BY <3>1, ZenonT(60) DEF TypeOK, Client
    <3>3. thread_info' \in [Slots -> Slot]
      BY <2>1, <3>1 DEF TypeOK, Slot
    <3> QED BY <3>2, <3>3
  <2>3. TypeOK'
    BY <1>10, <2>2 DEF TypeOK, OpenSlot, clientFrame
  <2>4. SizeInv'
    BY <1>10, <2>1, PoolAssumption DEF TypeOK, OpenSlot, clientFrame, Client, SizeInv, PoolSize, IndexInBounds, Adding
  <2> QED BY <2>3, <2>4
<1>11. CASE LoadSize(c)
  <2>1. client' = [client EXCEPT ![c].pc = "store", ![c].reg = cur_th_num]
    BY <1>11 DEF LoadSize
  <2>2. client' \in [Clients -> Client]
    BY <2>1, ZenonT(60) DEF TypeOK, Client
  <2>3. TypeOK'
    BY <1>11, <2>1, <2>2 DEF TypeOK, LoadSize, clientFrame, inert
  <2>4. SizeInv'
    BY <1>11, PoolAssumption DEF TypeOK, LoadSize, clientFrame, inert, Client, SizeInv, PoolSize, IndexInBounds, Adding
  <2> QED BY <2>3, <2>4
<1>12. CASE StoreSize(c)
  <2>1. client[c].reg + 1 \in 0 .. max_num
    BY <1>12, PoolAssumption DEF TypeOK, StoreSize, ClientGoes, Client, SizeInv
  <2>2. client' \in [Clients -> Client]
    BY <1>12, <2>1 DEF TypeOK, StoreSize, ClientGoes, Client
  <2>3. TypeOK'
    BY <1>12, <2>1, <2>2 DEF TypeOK, StoreSize, clientFrame, inert
  <2>4. SizeInv'
    BY <1>12, PoolAssumption DEF TypeOK, StoreSize, ClientGoes, clientFrame, inert, Client, SizeInv, PoolSize, IndexInBounds, Adding
  <2> QED BY <2>3, <2>4
<1>13. CASE Create(c)
  <2>1. created' \in 0 .. ThreadLimit /\ created' \in Workers
    BY <1>13, PoolAssumption DEF TypeOK, Create, Workers
  <2>2. /\ worker' = [worker EXCEPT ![created'].pc = "lookup"]
        /\ UNCHANGED <<cur_th_num, tp_lock, clientFrame, alive, accepted>>
    BY <1>13 DEF Create
  <2>3. worker' \in [Workers -> Worker]
    BY <2>1, <2>2 DEF TypeOK, Worker
  <2>4. client[c].i \in Slots
    BY <1>13 DEF Create, ClientGoes, SizeInv, IndexInBounds
  <2>5. CASE /\ ClientGoes(c, "create", "sleep")
             /\ thread_info' = [thread_info EXCEPT ![client[c].i].thread_id = created']
    <3>1. thread_info' \in [Slots -> Slot]
      BY <2>1, <2>4, <2>5 DEF TypeOK, Slot
    <3>2. client' \in [Clients -> Client]
      BY <2>5 DEF TypeOK, ClientGoes, Client
    <3>3. TypeOK'
      BY <2>1, <2>2, <2>3, <3>1, <3>2 DEF TypeOK, clientFrame
    <3>4. SizeInv'
      BY <2>2, <2>5, PoolAssumption DEF TypeOK, ClientGoes, clientFrame, Client, SizeInv, PoolSize, IndexInBounds, Adding
    <3> QED BY <3>3, <3>4
  <2>6. CASE ClientGoes(c, "create", "id") /\ UNCHANGED thread_info
    <3>1. client' \in [Clients -> Client]
      BY <2>6 DEF TypeOK, ClientGoes, Client
    <3>2. TypeOK'
      BY <2>1, <2>2, <2>3, <2>6, <3>1 DEF TypeOK, clientFrame
    <3>3. SizeInv'
      BY <2>2, <2>6, PoolAssumption DEF TypeOK, ClientGoes, clientFrame, Client, SizeInv, PoolSize, IndexInBounds, Adding
    <3> QED BY <3>2, <3>3
  <2> QED BY <1>13, <2>5, <2>6 DEF Create
<1>14. CASE StoreId(c)
  <2>1. client' \in [Clients -> Client]
    BY <1>14 DEF TypeOK, StoreId, ClientGoes, Client
  <2>2. client[c].i \in Slots
    BY <1>14 DEF StoreId, ClientGoes, SizeInv, PoolSize, IndexInBounds, Adding
  <2>3. created \in Workers \cup {NoThread} /\ thread_info' = [thread_info EXCEPT ![client[c].i].thread_id = created]
    BY <1>14, PoolAssumption DEF TypeOK, StoreId, Workers, NoThread
  <2>4. thread_info' \in [Slots -> Slot]
    BY <2>2, <2>3 DEF TypeOK, Slot
  <2>5. TypeOK'
    BY <1>14, <2>1, <2>2, <2>3, <2>4 DEF TypeOK, StoreId, clientFrame, inert
  <2>6. SizeInv'
    BY <1>14, PoolAssumption DEF TypeOK, StoreId, ClientGoes, clientFrame, inert, Client, SizeInv, PoolSize, IndexInBounds, Adding
  <2> QED BY <2>5, <2>6
<1>15. CASE PickLast(c)
  <2>1. cur_th_num - 1 \in 0 .. max_num /\ cur_th_num - 1 \in Slots
    BY <1>15, PoolAssumption DEF TypeOK, Slots, SizeInv, PoolSize
  <2>2. client' = [client EXCEPT ![c].pc = "clearNew", ![c].i = cur_th_num - 1]
    BY <1>15 DEF PickLast
  <2>3. client' \in [Clients -> Client]
    BY <2>1, <2>2, ZenonT(60) DEF TypeOK, Client
  <2>4. TypeOK'
    BY <1>15, <2>1, <2>2, <2>3 DEF TypeOK, PickLast, clientFrame, inert
  <2>5. SizeInv'
    BY <1>15, <2>1, PoolAssumption DEF TypeOK, PickLast, clientFrame, inert, Client, SizeInv, PoolSize, IndexInBounds, Adding
  <2> QED BY <2>4, <2>5
<1> QED
  BY <1>1, <1>2, <1>3, <1>4, <1>5, <1>6, <1>7, <1>8, <1>9, <1>10, <1>11, <1>12, <1>13, <1>14, <1>15 DEF ClientStep

\* The steps of the manager: the size it compared with min_th_num at line 497
\* can only have grown when it stores the decremented one.
LEMMA ManagerKeeps ==
  ASSUME TypeOK, SizeInv, ManagerStep
  PROVE  TypeOK' /\ SizeInv'
<1>1. CASE WakeManager
  <2>1. 0 \in 0 .. max_num
    BY <1>1, PoolAssumption DEF TypeOK
  <2>2. manager' = [manager EXCEPT !.pc = "count", !.i = 0, !.busy = 0]
    BY <1>1 DEF WakeManager
  <2>3. manager' \in Manager
    BY <2>1, <2>2 DEF TypeOK, Manager
  <2>4. TypeOK'
    BY <1>1, <2>1, <2>2, <2>3 DEF TypeOK, WakeManager, managerFrame
  <2>5. SizeInv'
    BY <1>1, <2>1, PoolAssumption DEF TypeOK, WakeManager, managerFrame, Manager, Client, SizeInv, PoolSize, IndexInBounds, Adding
  <2> QED BY <2>4, <2>5
<1>2. CASE CountBusy
  <2>1. /\ manager.i + 1 \in 0 .. max_num
        /\ manager.busy \in 0 .. max_num /\ manager.busy + 1 \in 0 .. max_num
        /\ manager.busy <= manager.i
    BY <1>2, PoolAssumption DEF TypeOK, CountBusy, Manager, SizeInv, PoolSize
  <2>2. PICK n \in {manager.busy, manager.busy + 1} :
           manager' = [manager EXCEPT !.i = manager.i + 1, !.busy = n]
    BY <1>2 DEF CountBusy
  <2>3. manager' \in Manager
    BY <2>1, <2>2 DEF TypeOK, Manager
  <2>4. TypeOK'
    BY <1>2, <2>3 DEF TypeOK, CountBusy, managerFrame
  <2>5. manager'.pc = "count" /\ manager'.busy <= manager'.i
    BY <1>2, <2>1, <2>2 DEF TypeOK, Manager, CountBusy
  <2>6. SizeInv'
    BY <1>2, <2>5 DEF CountBusy, managerFrame, SizeInv, PoolSize, IndexInBounds, Adding
  <2> QED BY <2>4, <2>6
<1>3. CASE Judge
  <2>1. manager' \in Manager
    BY <1>3 DEF TypeOK, Judge, ManagerGoes, Manager
  <2>2. TypeOK'
    BY <1>3, <2>1 DEF TypeOK, Judge, managerFrame
  <2>3. SizeInv'
    BY <1>3, PoolAssumption DEF TypeOK, Judge, ManagerGoes, managerFrame, Manager, Client, SizeInv, PoolSize, IndexInBounds, Adding
  <2> QED BY <2>2, <2>3
<1>4. CASE ChooseLast
  <2>1. CASE cur_th_num <= min_num /\ ManagerGoes("remove", "sleep")
    <3>1. manager' \in Manager
      BY <2>1 DEF TypeOK, ManagerGoes, Manager
    <3>2. TypeOK'
      BY <1>4, <3>1 DEF TypeOK, ChooseLast, managerFrame
    <3>3. SizeInv'
      BY <1>4, <2>1 DEF ChooseLast, ManagerGoes, managerFrame, TypeOK, Manager, SizeInv, PoolSize, IndexInBounds, Adding
    <3> QED BY <3>2, <3>3
  <2>2. CASE /\ cur_th_num > min_num
             /\ manager' = [manager EXCEPT !.pc = "probe", !.i = cur_th_num - 1]
    <3>1. cur_th_num - 1 \in Slots /\ cur_th_num - 1 \in 0 .. max_num
      BY <2>2, PoolAssumption DEF TypeOK, Slots
    <3>2. manager' \in Manager
      BY <2>2, <3>1 DEF TypeOK, Manager
    <3>3. TypeOK'
      BY <1>4, <3>2 DEF TypeOK, ChooseLast, managerFrame
    <3>4. SizeInv'
      BY <1>4, <2>2, <3>1 DEF ChooseLast, managerFrame, TypeOK, Manager, SizeInv, PoolSize, IndexInBounds, Adding
    <3> QED BY <3>3, <3>4
  <2> QED BY <1>4, <2>1, <2>2 DEF ChooseLast
<1>5. CASE ProbeLast
  <2>1. manager' \in Manager
    BY <1>5 DEF TypeOK, ProbeLast, ManagerGoes, Manager
  <2>2. TypeOK'
    BY <1>5, <2>1 DEF TypeOK, ProbeLast, managerFrame
  <2>3. SizeInv'
    BY <1>5, PoolAssumption DEF TypeOK, ProbeLast, ManagerGoes, managerFrame, Manager, Client, SizeInv, PoolSize, IndexInBounds, Adding
  <2> QED BY <2>2, <2>3
<1>6. CASE Cancel
  <2>1. manager' \in Manager
    BY <1>6 DEF TypeOK, Cancel, ManagerGoes, Manager
  <2>2. cancelled' \subseteq Workers
    BY <1>6 DEF TypeOK, Cancel, ManagerGoes, Slot, NoThread, SizeInv, IndexInBounds
  <2>3. TypeOK'
    BY <1>6, <2>1, <2>2 DEF TypeOK, Cancel, managerFrame
  <2>4. SizeInv'
    BY <1>6, PoolAssumption DEF TypeOK, Cancel, ManagerGoes, managerFrame, Manager, Client, SizeInv, PoolSize, IndexInBounds, Adding
  <2> QED BY <2>3, <2>4
<1>7. CASE Destroy
  <2>1. manager' \in Manager
    BY <1>7 DEF TypeOK, Destroy, ManagerGoes, Manager
  <2>2. /\ manager.i \in Slots
        /\ \E l \in {"destroyed", thread_info[manager.i].thread_lock} :
              thread_info' = [thread_info EXCEPT ![manager.i].thread_lock = l]
    BY <1>7 DEF Destroy, ManagerGoes, SizeInv, IndexInBounds
  <2>3. thread_info' \in [Slots -> Slot]
    BY <2>2 DEF TypeOK, Slot
  <2>4. TypeOK'
    BY <1>7, <2>1, <2>2, <2>3 DEF TypeOK, Destroy, managerFrame
  <2>5. SizeInv'
    BY <1>7, PoolAssumption DEF TypeOK, Destroy, ManagerGoes, managerFrame, Manager, Client, SizeInv, PoolSize, IndexInBounds, Adding
  <2> QED BY <2>4, <2>5
<1>8. CASE DeleteJob
  <2>1. manager' \in Manager
    BY <1>8 DEF TypeOK, DeleteJob, ManagerGoes, Manager
  <2>2. /\ manager.i \in Slots
        /\ thread_info' = [thread_info EXCEPT ![manager.i].pProcessEvent = NULL]
    BY <1>8 DEF DeleteJob, ManagerGoes, SizeInv, IndexInBounds
  <2>3. thread_info' \in [Slots -> Slot]
    BY <2>2 DEF TypeOK, Slot
  <2>4. TypeOK'
    BY <1>8, <2>1, <2>2, <2>3 DEF TypeOK, DeleteJob, managerFrame
  <2>5. SizeInv'
    BY <1>8, PoolAssumption DEF TypeOK, DeleteJob, ManagerGoes, managerFrame, Manager, Client, SizeInv, PoolSize, IndexInBounds, Adding
  <2> QED BY <2>4, <2>5
<1>9. CASE LoadLast
  <2>1. manager' = [manager EXCEPT !.pc = "store", !.reg = cur_th_num]
    BY <1>9 DEF LoadLast
  <2>2. manager' \in Manager
    BY <2>1 DEF TypeOK, Manager
  <2>3. TypeOK'
    BY <1>9, <2>1, <2>2 DEF TypeOK, LoadLast, managerFrame
  <2>4. SizeInv'
    BY <1>9, PoolAssumption DEF TypeOK, LoadLast, managerFrame, Manager, Client, SizeInv, PoolSize, IndexInBounds, Adding
  <2> QED BY <2>3, <2>4
<1>10. CASE StoreLast
  <2>1. manager' \in Manager
    BY <1>10 DEF TypeOK, StoreLast, ManagerGoes, Manager
  <2>2. manager.reg - 1 \in 0 .. max_num /\ cur_th_num' = manager.reg - 1
    BY <1>10, PoolAssumption DEF TypeOK, StoreLast, ManagerGoes, Manager, SizeInv
  <2>3. TypeOK'
    BY <1>10, <2>1, <2>2 DEF TypeOK, StoreLast, managerFrame
  <2>4. SizeInv'
    BY <1>10, PoolAssumption DEF TypeOK, StoreLast, ManagerGoes, managerFrame, Manager, Client, SizeInv, PoolSize, IndexInBounds, Adding
  <2> QED BY <2>3, <2>4
<1> QED
  BY <1>1, <1>2, <1>3, <1>4, <1>5, <1>6, <1>7, <1>8, <1>9, <1>10 DEF ManagerStep

-------------------------------------------------------------------------------
\* A step of the whole system, or a stutter, preserves the invariant.
LEMMA StepIInv == IInv /\ [Next]_vars => IInv'
<1> SUFFICES ASSUME IInv, [Next]_vars PROVE IInv'
  OBVIOUS
<1>1. CASE UNCHANGED vars
  BY <1>1 DEF IInv, TypeOK, SizeInv, PoolSize, IndexInBounds, Adding, vars
<1>2. ASSUME NEW w \in Workers, WorkerStep(w) \/ WakeSpuriously(w) PROVE IInv'
  BY <1>2, WorkerKeeps DEF IInv
<1>3. ASSUME NEW c \in Clients, ClientStep(c) PROVE IInv'
  BY <1>3, ClientKeeps DEF IInv
<1>4. CASE ManagerStep
  BY <1>4, ManagerKeeps DEF IInv
<1> QED BY <1>1, <1>2, <1>3, <1>4 DEF Next

\* The inductive invariant holds in every reachable state.
LEMMA Invariance == Spec => []IInv
<1>1. IInv /\ [Next]_vars => IInv'
  BY StepIInv
<1> QED BY <1>1, InitIInv, PTL DEF Spec

\* Every variable keeps its type: the slots of thread_pool.h, and the places and
\* registers of the three kinds of threads.
THEOREM TypeCorrect == Spec => []TypeOK
<1>1. IInv => TypeOK
  BY DEF IInv
<1> QED BY <1>1, Invariance, PTL

\* The size stays between the arguments of init() in spite of the unlocked
\* decrement of delete_thread().
THEOREM SizeBounded == Spec => []PoolSize
<1>1. IInv => PoolSize
  BY DEF IInv, SizeInv
<1> QED BY <1>1, Invariance, PTL

\* No thread ever uses an index outside the array malloc'ed by init().
THEOREM IndicesInBounds == Spec => []IndexInBounds
<1>1. IInv => IndexInBounds
  BY DEF IInv, SizeInv
<1> QED BY <1>1, Invariance, PTL

\* The strengthened invariant the run pool_managed checks, for every value of the
\* constants.
THEOREM SizeInvariant == Spec => []SizeInv
<1>1. IInv => SizeInv
  BY DEF IInv
<1> QED BY <1>1, Invariance, PTL
-------------------------------------------------------------------------------
(* The life of a job, until the manager first removes a worker.  It may wake,  *)
(* count the busy workers and look at the last one as often as it likes; the   *)
(* theorems speak of the pool up to the first pthread_cancel (line 546).  What *)
(* a removal does to jobs is no theorem: the manager takes no lock.            *)

\* The manager cancels no worker.
NoneRemoved == [][~Cancel]_vars

\* It never got as far, and no worker has been cancelled.
Untouched == manager.pc \notin {"destroy", "delete", "load", "store"} /\ cancelled = {}

\* A worker that has found its slot is the one whose id is in it, so no two are
\* at the same slot: ids are stored once, in the slot that is being added, by the
\* one client that holds tp_lock.
Engaged == {"begin", "wait", "woken", "check", "process", "running", "null", "again"}

Placed ==
    /\ \A w \in Workers : worker[w].pc \in Engaged =>
         thread_info[worker[w].seq].thread_id = w
    /\ \A w \in Workers : created < w => worker[w].pc = "none"
    /\ \A i \in Slots : cur_th_num <= i => thread_info[i].thread_id = NoThread
    /\ \A c \in Clients :
         /\ client[c].pc \in {"load", "store"} => client[c].i = cur_th_num
         /\ client[c].pc = "store" => client[c].reg = cur_th_num
         /\ client[c].pc \in {"create", "id"} =>
              client[c].i < cur_th_num /\ thread_info[client[c].i].thread_id = NoThread

\* The clients that have stored their job in a slot and not yet returned.
Storing == {c \in Clients : client[c].pc \in {"signal", "signalNew"}}

\* The jobs that process_job() has stored in a slot at some time.
Assigned == accepted \cup {client[c].job : c \in Storing}

\* A job has one owner: a client, and when that has stored it, one slot.
Owned ==
    /\ \A c \in Clients : client[c].job \notin accepted
    /\ \A c, d \in Clients : client[c].job = client[d].job /\ client[c].job # NULL => c = d
    /\ \A i \in Slots : thread_info[i].pProcessEvent \in Assigned \cup {NULL}
    /\ \A i, k \in Slots :
         thread_info[i].pProcessEvent = thread_info[k].pProcessEvent
            /\ thread_info[i].pProcessEvent # NULL => i = k

\* A job that was executed stays in its slot only while the worker that executed it
\* is between lines 125 and 127.
Executed ==
    /\ \A j \in Jobs : runs[j] # 0 => j \in Assigned
    /\ \A i \in Slots :
         thread_info[i].pProcessEvent # NULL /\ runs[thread_info[i].pProcessEvent] # 0 =>
            \E w \in Workers : worker[w].seq = i /\ worker[w].pc \in {"running", "null"}
    /\ RunAtMostOnce

OnceInv == Untouched /\ Placed /\ Owned /\ Executed

\* Placed, Owned and Executed hold in the initial states.
LEMMA InitOnce == Init => OnceInv
<1> SUFFICES ASSUME Init PROVE OnceInv
  OBVIOUS
<1>1. /\ \A i \in Slots : /\ thread_info[i].pProcessEvent = NULL
                          /\ thread_info[i].thread_id = IF i < min_num THEN i + 1 ELSE NoThread
      /\ \A c \in Clients : client[c] = [pc |-> "out", i |-> 0, job |-> NULL, reg |-> 0]
      /\ \A w \in Workers : worker[w].pc = IF w <= min_num THEN "lookup" ELSE "none"
      /\ \A j \in Jobs : runs[j] = 0
      /\ accepted = {} /\ cur_th_num = min_num /\ created = min_num
      /\ manager.pc = "sleep" /\ cancelled = {}
  BY DEF Init
<1>2. Placed
  BY <1>1, PoolAssumption DEF Placed, Engaged, Slots, Workers, NoThread
<1>3. Owned
  BY <1>1 DEF Owned, Assigned, Storing
<1>4. Executed
  BY <1>1 DEF Executed, RunAtMostOnce
<1> QED BY <1>1, <1>2, <1>3, <1>4 DEF OnceInv, Untouched

\* What every step of a worker leaves alone: the ids, the jobs of the other slots,
\* the other workers.  No worker is cancelled, so none dies.
LEMMA WorkerFrame ==
  ASSUME IInv, Untouched, NEW w \in Workers, WorkerStep(w) \/ WakeSpuriously(w)
  PROVE  /\ UNCHANGED workerFrame
         /\ ~DieWaiting(w) /\ ~DieRunning(w)
         /\ worker[w].seq \in Slots
         /\ \A v \in Workers : v # w => worker'[v] = worker[v]
         /\ \A i \in Slots : thread_info'[i].thread_id = thread_info[i].thread_id
<1>1. UNCHANGED workerFrame
  BY DEF WorkerStep, WakeSpuriously, Lookup, Park, Return, Check, Process, Finish, Forget,
      DieWaiting, DieRunning
<1>2. ~DieWaiting(w) /\ ~DieRunning(w)
  BY DEF Untouched, DieWaiting, DieRunning
<1>3. worker[w].seq \in Slots
  BY DEF IInv, TypeOK, Worker
<1>4. \A v \in Workers : v # w => worker'[v] = worker[v]
  BY <1>2 DEF IInv, TypeOK, WorkerGoes, WorkerStep, WakeSpuriously, Lookup, Park, Return, Check,
      Process, Finish, Forget
<1>5. \A i \in Slots : thread_info'[i].thread_id = thread_info[i].thread_id
  <2>1. \/ UNCHANGED thread_info
        \/ thread_info' = [thread_info EXCEPT ![worker[w].seq].is_busy = FALSE]
        \/ thread_info' = [thread_info EXCEPT ![worker[w].seq].pProcessEvent = NULL]
    BY <1>2 DEF WorkerStep, WakeSpuriously, Lookup, Park, Return, Check, Process, Finish, Forget
  <2> QED BY <1>3, <2>1 DEF IInv, TypeOK, Slot
<1> QED BY <1>1, <1>2, <1>3, <1>4, <1>5

\* A worker executes the job of its own slot, and nobody else is at that slot.
LEMMA WorkerOnce ==
  ASSUME IInv, OnceInv, NEW w \in Workers, WorkerStep(w) \/ WakeSpuriously(w)
  PROVE  OnceInv'
<1> USE DEF OnceInv
<1>1. /\ UNCHANGED workerFrame
      /\ ~DieWaiting(w) /\ ~DieRunning(w)
      /\ worker[w].seq \in Slots
      /\ \A v \in Workers : v # w => worker'[v] = worker[v]
      /\ \A i \in Slots : thread_info'[i].thread_id = thread_info[i].thread_id
  BY WorkerFrame
<1>2. Untouched' /\ Storing' = Storing /\ Assigned' = Assigned
  BY <1>1 DEF Untouched, workerFrame, Storing, Assigned
<1>3. worker \in [Workers -> Worker] /\ thread_info \in [Slots -> Slot]
  BY DEF IInv, TypeOK
<1>4. Placed'
  <2>1. worker'[w].pc \in Engaged => thread_info[worker'[w].seq].thread_id = w
    <3>1. CASE Lookup(w)
      <4>1. \/ worker'[w].pc = "exit"
            \/ thread_info[worker'[w].seq].thread_id = w
        <5>1. CASE \E i \in Slots : /\ worker' = [worker EXCEPT ![w].pc = "begin", ![w].seq = i]
                                    /\ thread_info[i].thread_id = w
          BY <1>3, <5>1 DEF Worker
        <5>2. CASE worker' = [worker EXCEPT ![w].pc = "exit"]
          BY <1>3, <5>2 DEF Worker
        <5> QED BY <3>1, <5>1, <5>2 DEF Lookup
      <4> QED BY <4>1 DEF Engaged
    <3>2. CASE ~Lookup(w)
      <4>1. worker[w].pc \in Engaged /\ worker'[w].seq = worker[w].seq
        <5>1. CASE Park(w) \/ Return(w) \/ Check(w) \/ WakeSpuriously(w)
          BY <1>3, <5>1 DEF Engaged, WorkerGoes, Park, Return, Check, WakeSpuriously, Worker
        <5>2. CASE Process(w) \/ Finish(w) \/ Forget(w)
          BY <1>3, <5>2 DEF Engaged, WorkerGoes, Process, Finish, Forget, Worker
        <5> QED BY <1>1, <3>2, <5>1, <5>2 DEF WorkerStep
      <4> QED BY <4>1 DEF Placed
    <3> QED BY <3>1, <3>2
  <2>2. worker'[w].seq \in Slots
    BY WorkerKeeps DEF IInv, TypeOK, Worker
  <2>3. created < w => worker'[w].pc = "none"
    BY <1>1, <1>3 DEF Placed, WorkerGoes, WorkerStep, WakeSpuriously, Lookup, Park, Return,
      Check, Process, Finish, Forget
  <2>4. \A v \in Workers : worker'[v].pc \in Engaged =>
             thread_info'[worker'[v].seq].thread_id = v
    BY <1>1, <1>3, <2>1, <2>2 DEF Placed, Worker
  <2>5. \A c \in Clients : client[c].pc \in {"create", "id"} => client[c].i \in Slots
    BY DEF IInv, SizeInv, IndexInBounds
  <2> QED BY <1>1, <2>3, <2>4, <2>5 DEF Placed, workerFrame
<1>5. Owned'
  <2>1. \A i \in Slots : thread_info'[i].pProcessEvent \in {NULL, thread_info[i].pProcessEvent}
    BY <1>1, <1>3 DEF WorkerGoes, WorkerStep, WakeSpuriously, Lookup, Park, Return,
      Check, Process, Finish, Forget, Slot
  <2> QED BY <1>1, <1>2, <2>1 DEF Owned, workerFrame
<1>6. Executed'
  <2>1. CASE Process(w)
    <3> DEFINE job == thread_info[worker[w].seq].pProcessEvent
    <3>1. /\ UNCHANGED thread_info
          /\ worker'[w].pc = "running" /\ worker'[w].seq = worker[w].seq
          /\ worker[w].pc = "process"
          /\ runs' = [j \in Jobs |-> IF j = job THEN runs[j] + 1 ELSE runs[j]]
      BY <1>3, <2>1 DEF Process
    <3>2. job \in Jobs => runs[job] = 0
      BY <1>1, <1>3, <3>1, PoolAssumption DEF Placed, Executed, Engaged
    <3>3. /\ job \in Assigned \cup {NULL} /\ job \in Jobs \cup {NULL}
          /\ \A i \in Slots : thread_info[i].pProcessEvent = job /\ job # NULL =>
                i = worker[w].seq
      BY <1>1, <1>3 DEF Owned, Slot
    <3>4. \A j \in Jobs : j # job => runs'[j] = runs[j]
      BY <3>1
    <3>5. RunAtMostOnce'
      BY <3>1, <3>2 DEF Executed, RunAtMostOnce
    <3>6. \A j \in Jobs : runs'[j] # 0 => j \in Assigned'
      BY <1>2, <3>3, <3>4, PoolAssumption DEF Executed
    <3>7. ASSUME NEW i \in Slots, thread_info'[i].pProcessEvent # NULL,
                 runs'[thread_info'[i].pProcessEvent] # 0
          PROVE  \E v \in Workers : worker'[v].seq = i /\ worker'[v].pc \in {"running", "null"}
      <4>1. CASE i = worker[w].seq
        BY <3>1, <4>1
      <4>2. CASE i # worker[w].seq
        BY <1>1, <1>3, <3>1, <3>3, <3>4, <3>7, <4>2 DEF Executed, Slot
      <4> QED BY <4>1, <4>2
    <3> QED BY <3>5, <3>6, <3>7 DEF Executed
  <2>2. CASE Forget(w)
    BY <1>1, <1>2, <1>3, <2>2 DEF Executed, RunAtMostOnce, Forget, WorkerGoes
  <2>3. CASE Finish(w)
    BY <1>1, <1>2, <1>3, <2>3 DEF Executed, RunAtMostOnce, Finish
  <2>4. CASE Park(w)
    BY <1>1, <1>2, <1>3, <2>4 DEF Executed, RunAtMostOnce, Park, WorkerGoes
  <2>5. CASE Lookup(w) \/ Return(w) \/ Check(w) \/ WakeSpuriously(w)
    BY <1>1, <1>2, <1>3, <2>5 DEF Executed, RunAtMostOnce, Lookup, Return, Check, WakeSpuriously,
      WorkerGoes
  <2> QED BY <1>1, <2>1, <2>2, <2>3, <2>4, <2>5 DEF WorkerStep
<1> QED BY <1>2, <1>4, <1>5, <1>6

\* A step of a client that stores no id and no job, wakes and creates nobody, and
\* does not return from an accepted call: only the client itself changes.
Quiet(c) ==
    /\ UNCHANGED <<clientFrame, cur_th_num, worker, created, accepted>>
    /\ \A i \in Slots : /\ thread_info'[i].thread_id = thread_info[i].thread_id
                        /\ thread_info'[i].pProcessEvent = thread_info[i].pProcessEvent
    /\ \A d \in Clients : d # c => client'[d] = client[d]
    /\ client[c].pc \notin {"signal", "signalNew"}
    /\ client'[c].pc \notin {"signal", "signalNew"}
    /\ client'[c].job \in {client[c].job, NULL}
    /\ client'[c].pc \in {"load", "store"} => client'[c].i = cur_th_num
    /\ client'[c].pc = "store" => client'[c].reg = cur_th_num
    /\ client'[c].pc \notin {"create", "id"}

\* Such a step keeps every part of OnceInv.
LEMMA QuietOnce ==
  ASSUME IInv, OnceInv, NEW c \in Clients, Quiet(c)
  PROVE  OnceInv'
<1> USE DEF OnceInv
<1>1. Untouched' /\ UNCHANGED <<cur_th_num, worker, created, accepted, runs>>
  BY DEF Untouched, Quiet, clientFrame
<1>2. Storing' = Storing /\ Assigned' = Assigned
  <2>1. Storing' = Storing
    BY DEF Quiet, Storing
  <2>2. \A d \in Storing : client'[d] = client[d]
    BY DEF Quiet, Storing
  <2> QED BY <1>1, <2>1, <2>2 DEF Assigned
<1>3. worker \in [Workers -> Worker] /\ NULL \notin accepted
  BY PoolAssumption DEF IInv, TypeOK
<1>4. \A d \in Clients : client[d].pc \in {"create", "id"} => client[d].i \in Slots
  BY DEF IInv, SizeInv, IndexInBounds
<1>5. Placed'
  <2>1. \A d \in Clients \ {c} : client'[d] = client[d]
    BY DEF Quiet
  <2>2. \A i \in Slots : thread_info'[i].thread_id = thread_info[i].thread_id
    BY DEF Quiet
  <2>3. \A v \in Workers : worker'[v].pc \in Engaged =>
             thread_info'[worker'[v].seq].thread_id = v
    BY <1>1, <1>3, <2>2 DEF Placed, Worker
  <2>4. ASSUME NEW d \in Clients
        PROVE  /\ client'[d].pc \in {"load", "store"} => client'[d].i = cur_th_num
               /\ client'[d].pc = "store" => client'[d].reg = cur_th_num
               /\ client'[d].pc \in {"create", "id"} =>
                    client'[d].i < cur_th_num /\ thread_info'[client'[d].i].thread_id = NoThread
    BY <1>4, <2>1, <2>2 DEF Placed, Quiet
  <2> QED BY <1>1, <2>2, <2>3, <2>4 DEF Placed
<1>6. Owned'
  BY <1>1, <1>2, <1>3 DEF Owned, Quiet
<1>7. Executed'
  BY <1>1, <1>2 DEF Executed, RunAtMostOnce, Quiet
<1> QED BY <1>1, <1>5, <1>6, <1>7

\* The steps of a client that are quiet, each for the reason its code gives.
LEMMA QuietSteps ==
  ASSUME IInv, OnceInv, NEW c \in Clients,
         \/ Scan(c) \/ Reserve(c) \/ Skip(c) \/ Clear(c) \/ LockPool(c) \/ Refuse(c)
         \/ OpenSlot(c) \/ LoadSize(c) \/ PickLast(c)
  PROVE  Quiet(c)
<1>1. client \in [Clients -> Client] /\ thread_info \in [Slots -> Slot]
  BY DEF IInv, TypeOK
<1>2. CASE Scan(c) \/ Skip(c) \/ Clear(c) \/ LockPool(c) \/ Refuse(c) \/ PickLast(c)
  <2>1. UNCHANGED <<clientFrame, worker, created, accepted, thread_info, cur_th_num>>
    BY <1>2 DEF Scan, Skip, Clear, LockPool, Refuse, PickLast, inert
  <2>2. /\ \A d \in Clients : d # c => client'[d] = client[d]
        /\ client[c].pc \notin {"signal", "signalNew"}
        /\ client'[c].pc \notin {"signal", "signalNew", "load", "store", "create", "id"}
        /\ client'[c].job \in {client[c].job, NULL}
    BY <1>1, <1>2 DEF Scan, Skip, Clear, LockPool, Refuse, PickLast, ClientGoes, Client
  <2> QED BY <2>1, <2>2 DEF Quiet
<1>3. CASE Reserve(c)
  <2>1. UNCHANGED <<clientFrame, worker, created, accepted, cur_th_num>>
    BY <1>3 DEF Reserve
  <2>2. client[c].i \in Slots /\ thread_info' = [thread_info EXCEPT ![client[c].i].is_busy = TRUE]
    BY <1>3 DEF Reserve, ClientGoes, IInv, SizeInv, IndexInBounds
  <2>3. \A i \in Slots : /\ thread_info'[i].thread_id = thread_info[i].thread_id
                         /\ thread_info'[i].pProcessEvent = thread_info[i].pProcessEvent
    BY <1>1, <2>2 DEF Slot
  <2>4. /\ \A d \in Clients : d # c => client'[d] = client[d]
        /\ client[c].pc = "probe" /\ client'[c].pc = "clear"
        /\ client'[c].job = client[c].job
    BY <1>1, <1>3 DEF Reserve, ClientGoes, Client
  <2> QED BY <2>1, <2>3, <2>4 DEF Quiet
<1>4. CASE OpenSlot(c)
  <2>1. UNCHANGED <<clientFrame, worker, created, accepted, cur_th_num>>
    BY <1>4 DEF OpenSlot
  <2>2. /\ cur_th_num \in Slots
        /\ thread_info' = [thread_info EXCEPT ![cur_th_num].thread_lock = "free"]
    BY <1>4, PoolAssumption DEF OpenSlot, Slots, IInv, TypeOK
  <2>3. \A i \in Slots : /\ thread_info'[i].thread_id = thread_info[i].thread_id
                         /\ thread_info'[i].pProcessEvent = thread_info[i].pProcessEvent
    BY <1>1, <2>2 DEF Slot
  <2>4. client[c].pc = "add" /\ client' = [client EXCEPT ![c].pc = "load", ![c].i = cur_th_num]
    BY <1>4 DEF OpenSlot
  <2>5. /\ \A d \in Clients : d # c => client'[d] = client[d]
        /\ client'[c].pc = "load" /\ client'[c].i = cur_th_num
        /\ client'[c].job = client[c].job
    BY <1>1, <2>4 DEF Client
  <2> QED BY <2>1, <2>3, <2>4, <2>5 DEF Quiet
<1>5. CASE LoadSize(c)
  <2>1. UNCHANGED <<clientFrame, worker, created, accepted, cur_th_num, thread_info>>
    BY <1>5 DEF LoadSize, inert
  <2>2. /\ client[c].pc = "load" /\ client[c].i = cur_th_num
        /\ client' = [client EXCEPT ![c].pc = "store", ![c].reg = cur_th_num]
    BY <1>5 DEF LoadSize, OnceInv, Placed
  <2>3. /\ \A d \in Clients : d # c => client'[d] = client[d]
        /\ client'[c].pc = "store" /\ client'[c].i = cur_th_num /\ client'[c].reg = cur_th_num
        /\ client'[c].job = client[c].job
    BY <1>1, <2>2 DEF Client
  <2> QED BY <2>1, <2>2, <2>3 DEF Quiet
<1> QED BY <1>2, <1>3, <1>4, <1>5

\* A job is given to one client, which owns it alone until it has stored it in one
\* slot; an id is stored by the only client that holds tp_lock.
LEMMA ClientOnce ==
  ASSUME IInv, OnceInv, NEW c \in Clients, ClientStep(c)
  PROVE  OnceInv'
<1> USE DEF OnceInv
<1>1. /\ client \in [Clients -> Client] /\ thread_info \in [Slots -> Slot]
      /\ worker \in [Workers -> Worker]
      /\ accepted \subseteq Jobs /\ NULL \notin Jobs
  BY PoolAssumption DEF IInv, TypeOK
<1>2. \A d \in Clients : client[d].pc \in {"create", "id", "set", "setNew", "signal", "signalNew"} =>
          client[d].i \in Slots
  BY DEF IInv, SizeInv, IndexInBounds
<1>3. \A d \in Clients : client[d].pc \in Adding /\ client[c].pc \in Adding => c = d
  BY DEF IInv, SizeInv
<1>4. CASE \/ Scan(c) \/ Reserve(c) \/ Skip(c) \/ Clear(c) \/ LockPool(c) \/ Refuse(c)
           \/ OpenSlot(c) \/ LoadSize(c) \/ PickLast(c)
  BY <1>4, QuietSteps, QuietOnce
<1>5. CASE Call(c)
  <2>1. UNCHANGED <<cur_th_num, worker, created, accepted, runs, manager, cancelled, thread_info>>
    BY <1>5 DEF Call, inert, clientFrame
  <2>2. PICK j \in Jobs \ (accepted \cup {client[d].job : d \in Clients}) :
           client' = [client EXCEPT ![c].pc = "scan", ![c].i = 0, ![c].job = j]
    BY <1>5 DEF Call
  <2>3. /\ \A d \in Clients : d # c => client'[d] = client[d]
        /\ client'[c].pc = "scan" /\ client'[c].job = j /\ client[c].pc = "out"
    BY <1>1, <1>5, <2>2 DEF Client, Call
  <2>4. Storing' = Storing /\ Assigned' = Assigned
    <3>1. Storing' = Storing
      BY <2>3 DEF Storing
    <3>2. \A d \in Storing : client'[d] = client[d]
      BY <2>3 DEF Storing
    <3> QED BY <2>1, <3>1, <3>2 DEF Assigned
  <2>5. Placed'
    BY <2>1, <2>3 DEF Placed
  <2>6. Owned'
    BY <1>1, <2>1, <2>2, <2>3, <2>4 DEF Owned
  <2>7. Executed'
    BY <2>1, <2>4 DEF Executed, RunAtMostOnce
  <2> QED BY <2>1, <2>5, <2>6, <2>7 DEF Untouched
<1>6. CASE Assign(c)
  <2>1. UNCHANGED <<cur_th_num, worker, created, accepted, runs, manager, cancelled>>
    BY <1>6 DEF Assign, clientFrame
  <2>2. /\ client[c].i \in Slots /\ client[c].pc \in {"set", "setNew"}
        /\ thread_info' = [thread_info EXCEPT ![client[c].i].pProcessEvent = client[c].job]
    BY <1>2, <1>6 DEF Assign, ClientGoes
  <2>3. /\ \A d \in Clients : d # c => client'[d] = client[d]
        /\ client'[c].pc \in {"signal", "signalNew"} /\ client'[c].job = client[c].job
    BY <1>1, <1>6 DEF Assign, ClientGoes, Client
  <2>4. /\ \A i \in Slots : /\ thread_info'[i].thread_id = thread_info[i].thread_id
                            /\ i # client[c].i => thread_info'[i] = thread_info[i]
        /\ thread_info'[client[c].i].pProcessEvent = client[c].job
    BY <1>1, <2>2 DEF Slot
  <2>5. client[c].job \in Jobs
    BY <2>2 DEF IInv, SizeInv
  <2>6. client[c].job \notin Assigned
    BY <1>1, <2>2, <2>5 DEF Owned, Assigned, Storing
  <2>7. Assigned' = Assigned \cup {client[c].job}
    <3>1. Storing' = Storing \cup {c}
      BY <2>3 DEF Storing
    <3>2. \A d \in Storing : client'[d].job = client[d].job
      BY <2>3 DEF Storing
    <3> QED BY <2>1, <2>3, <3>1, <3>2 DEF Assigned
  <2>8. Placed'
    <3>1. \A v \in Workers : worker[v].pc \in Engaged => worker[v].seq \in Slots
      BY <1>1 DEF Worker
    <3> QED BY <1>2, <2>1, <2>3, <2>4, <3>1 DEF Placed
  <2>9. Owned'
    BY <1>1, <2>1, <2>3, <2>4, <2>5, <2>6, <2>7 DEF Owned
  <2>10. Executed'
    BY <1>1, <2>1, <2>4, <2>5, <2>6, <2>7 DEF Executed, RunAtMostOnce
  <2> QED BY <2>1, <2>8, <2>9, <2>10 DEF Untouched
<1>7. CASE Signal(c)
  <2>1. /\ UNCHANGED <<cur_th_num, created, runs, manager, cancelled>>
        /\ accepted' = accepted \cup {client[c].job}
        /\ client' = [client EXCEPT ![c].pc = "out", ![c].job = NULL]
        /\ client[c].pc \in {"signal", "signalNew"} /\ client[c].i \in Slots
    BY <1>2, <1>7 DEF Signal, clientFrame
  <2>2. /\ \A d \in Clients : d # c => client'[d] = client[d]
        /\ client'[c].pc = "out" /\ client'[c].job = NULL
    BY <1>1, <2>1 DEF Client
  <2>3. client[c].job \in Jobs
    BY <2>1 DEF IInv, SizeInv
  <2>4. \A i \in Slots : /\ thread_info'[i].thread_id = thread_info[i].thread_id
                         /\ thread_info'[i].pProcessEvent = thread_info[i].pProcessEvent
    <3>1. CASE UNCHANGED thread_info
      BY <3>1
    <3>2. CASE thread_info' = [thread_info EXCEPT ![client[c].i].is_busy = TRUE]
      BY <1>1, <2>1, <3>2 DEF Slot
    <3> QED BY <1>7, <3>1, <3>2 DEF Signal
  <2>5. \A v \in Workers :
           \/ worker'[v] = worker[v]
           \/ worker[v].pc = "wait" /\ worker'[v].pc = "woken" /\ worker'[v].seq = worker[v].seq
    BY <1>1, <1>7 DEF Signal, WakeOne, Parked, Worker
  <2>6. Assigned' = Assigned
    <3>1. Storing' = Storing \ {c} /\ c \in Storing
      BY <2>1, <2>2 DEF Storing
    <3>2. \A d \in Storing \ {c} : client'[d].job = client[d].job
      BY <2>2 DEF Storing
    <3> QED BY <2>1, <3>1, <3>2 DEF Assigned
  <2>7. Placed'
    <3>1. \A v \in Workers : /\ worker[v].seq \in Slots
                             /\ worker'[v].seq = worker[v].seq
                             /\ worker'[v].pc \in Engaged => worker[v].pc \in Engaged
                             /\ worker[v].pc = "none" => worker'[v].pc = "none"
      BY <1>1, <2>5 DEF Worker, Engaged
    <3>2. \A v \in Workers : worker'[v].pc \in Engaged =>
             thread_info'[worker'[v].seq].thread_id = v
      BY <2>4, <3>1 DEF Placed
    <3>3. \A d \in Clients :
             /\ client'[d].pc \in {"load", "store"} => client'[d].i = cur_th_num
             /\ client'[d].pc = "store" => client'[d].reg = cur_th_num
             /\ client'[d].pc \in {"create", "id"} =>
                  client'[d].i < cur_th_num /\ thread_info'[client'[d].i].thread_id = NoThread
      BY <1>2, <2>2, <2>4 DEF Placed
    <3>4. \A v \in Workers : created < v => worker'[v].pc = "none"
      BY <3>1 DEF Placed
    <3> QED BY <2>1, <2>4, <3>2, <3>3, <3>4 DEF Placed
  <2>8. Owned'
    BY <1>1, <2>1, <2>2, <2>3, <2>4, <2>6 DEF Owned
  <2>9. Executed'
    BY <2>1, <2>4, <2>5, <2>6 DEF Executed, RunAtMostOnce
  <2> QED BY <2>1, <2>7, <2>8, <2>9 DEF Untouched
<1>8. CASE StoreSize(c)
  <2>1. UNCHANGED <<worker, created, accepted, runs, manager, cancelled, thread_info>>
    BY <1>8 DEF StoreSize, inert, clientFrame
  <2>2. /\ client[c].pc = "store" /\ client[c].i = cur_th_num /\ cur_th_num' = cur_th_num + 1
        /\ client' = [client EXCEPT ![c].pc = "create"]
    BY <1>8 DEF StoreSize, ClientGoes, Placed
  <2>3. /\ \A d \in Clients : d # c => client'[d] = client[d]
        /\ client'[c].pc = "create" /\ client'[c].job = client[c].job
        /\ client'[c].i = client[c].i
    BY <1>1, <2>2 DEF Client
  <2>4. cur_th_num \in Nat /\ max_num \in Nat
    BY PoolAssumption DEF IInv, TypeOK
  <2>5. client[c].i \in Slots
    BY <2>2 DEF IInv, SizeInv, IndexInBounds
  <2>6. Storing' = Storing /\ Assigned' = Assigned
    <3>1. Storing' = Storing
      BY <2>2, <2>3 DEF Storing
    <3>2. \A d \in Storing : client'[d] = client[d]
      BY <2>2, <2>3 DEF Storing
    <3> QED BY <2>1, <3>1, <3>2 DEF Assigned
  <2>7. Placed'
    <3>1. \A d \in Clients \ {c} : client[d].pc \notin Adding
      BY <1>3, <2>2 DEF Adding
    <3>2. \A i \in Slots : cur_th_num' <= i => thread_info[i].thread_id = NoThread
      BY <2>2, <2>4 DEF Placed, Slots
    <3>3. client'[c].i < cur_th_num' /\ thread_info[client[c].i].thread_id = NoThread
      BY <2>2, <2>3, <2>4, <2>5 DEF Placed
    <3> QED BY <2>1, <2>3, <3>1, <3>2, <3>3 DEF Placed, Adding
  <2>8. Owned'
    BY <2>1, <2>3, <2>6 DEF Owned
  <2>9. Executed'
    BY <2>1, <2>6 DEF Executed, RunAtMostOnce
  <2> QED BY <2>1, <2>7, <2>8, <2>9 DEF Untouched
<1>9. CASE Create(c)
  <2>1. /\ UNCHANGED <<cur_th_num, accepted, runs, manager, cancelled>>
        /\ created < ThreadLimit /\ created' = created + 1
        /\ worker' = [worker EXCEPT ![created'].pc = "lookup"]
        /\ client[c].pc = "create" /\ client[c].i \in Slots
    BY <1>2, <1>9 DEF Create, clientFrame, ClientGoes
  <2>2. created \in Nat /\ ThreadLimit \in Nat /\ created' \in Workers
    BY <2>1, PoolAssumption DEF IInv, TypeOK, Workers
  <2>3. /\ \A v \in Workers : v # created' => worker'[v] = worker[v]
        /\ worker'[created'].pc = "lookup" /\ worker[created'].pc = "none"
        /\ \A v \in Workers : created' < v => worker'[v].pc = "none"
    BY <1>1, <2>1, <2>2 DEF Placed, Workers, Worker
  <2>4. /\ \A d \in Clients : d # c => client'[d] = client[d]
        /\ client'[c].pc \in {"id", "sleep"}
        /\ client'[c].job = client[c].job /\ client'[c].i = client[c].i
    BY <1>1, <1>9 DEF Create, ClientGoes, Client
  <2>5. Storing' = Storing /\ Assigned' = Assigned
    <3>1. Storing' = Storing
      BY <2>1, <2>4 DEF Storing
    <3>2. \A d \in Storing : client'[d] = client[d]
      BY <2>1, <2>4 DEF Storing
    <3> QED BY <2>1, <3>1, <3>2 DEF Assigned
  <2>6. /\ \A i \in Slots : thread_info'[i].pProcessEvent = thread_info[i].pProcessEvent
        /\ \A i \in Slots : i # client[c].i => thread_info'[i] = thread_info[i]
        /\ client'[c].pc = "id" => UNCHANGED thread_info
    <3>1. CASE UNCHANGED thread_info
      BY <3>1
    <3>2. CASE /\ ClientGoes(c, "create", "sleep")
               /\ thread_info' = [thread_info EXCEPT ![client[c].i].thread_id = created']
      BY <1>1, <2>1, <3>2 DEF Slot, ClientGoes
    <3> QED BY <1>9, <3>1, <3>2 DEF Create
  <2>7. Placed'
    <3>1. \A d \in Clients \ {c} : client[d].pc \notin Adding
      BY <1>3, <2>1 DEF Adding
    <3>2. client[c].i < cur_th_num /\ thread_info[client[c].i].thread_id = NoThread
      BY <2>1 DEF Placed
    <3>3. \A v \in Workers : worker'[v].pc \in Engaged =>
             thread_info'[worker'[v].seq].thread_id = v
      <4>1. ASSUME NEW v \in Workers, worker'[v].pc \in Engaged
            PROVE  thread_info'[worker'[v].seq].thread_id = v
        <5>1. v # created' /\ worker'[v] = worker[v]
          BY <2>2, <2>3, <4>1 DEF Engaged
        <5>2. thread_info[worker[v].seq].thread_id = v /\ worker[v].seq \in Slots
          BY <1>1, <4>1, <5>1 DEF Placed, Worker
        <5>3. worker[v].seq # client[c].i
          BY <3>2, <5>2 DEF Workers, NoThread
        <5> QED BY <2>6, <5>1, <5>2, <5>3
      <4> QED BY <4>1
    <3>4. \A i \in Slots : cur_th_num <= i => thread_info'[i].thread_id = NoThread
      <4>1. client[c].i \in Int /\ cur_th_num \in Int /\ Slots \subseteq Int
        BY <2>1, PoolAssumption DEF IInv, TypeOK, Slots
      <4> QED BY <2>6, <3>2, <4>1 DEF Placed
    <3> QED BY <2>1, <2>3, <2>4, <2>6, <3>1, <3>2, <3>3, <3>4 DEF Placed, Adding
  <2>8. Owned'
    BY <2>1, <2>4, <2>5, <2>6 DEF Owned
  <2>9. Executed'
    BY <2>1, <2>3, <2>5, <2>6 DEF Executed, RunAtMostOnce
  <2> QED BY <2>1, <2>7, <2>8, <2>9 DEF Untouched
<1>10. CASE StoreId(c)
  <2>1. /\ UNCHANGED <<cur_th_num, worker, created, accepted, runs, manager, cancelled>>
        /\ client[c].pc = "id" /\ client[c].i \in Slots
        /\ thread_info' = [thread_info EXCEPT ![client[c].i].thread_id = created]
    BY <1>2, <1>10 DEF StoreId, clientFrame, ClientGoes
  <2>2. /\ \A d \in Clients : d # c => client'[d] = client[d]
        /\ client'[c].pc = "sleep" /\ client'[c].job = client[c].job
    BY <1>1, <1>10 DEF StoreId, ClientGoes, Client
  <2>3. Storing' = Storing /\ Assigned' = Assigned
    <3>1. Storing' = Storing
      BY <2>1, <2>2 DEF Storing
    <3>2. \A d \in Storing : client'[d] = client[d]
      BY <2>1, <2>2 DEF Storing
    <3> QED BY <2>1, <3>1, <3>2 DEF Assigned
  <2>4. /\ \A i \in Slots : thread_info'[i].pProcessEvent = thread_info[i].pProcessEvent
        /\ \A i \in Slots : i # client[c].i => thread_info'[i] = thread_info[i]
    BY <1>1, <2>1 DEF Slot
  <2>5. Placed'
    <3>1. \A d \in Clients \ {c} : client[d].pc \notin Adding
      BY <1>3, <2>1 DEF Adding
    <3>2. client[c].i < cur_th_num /\ thread_info[client[c].i].thread_id = NoThread
      BY <2>1 DEF Placed
    <3>3. ASSUME NEW v \in Workers, worker[v].pc \in Engaged
          PROVE  thread_info'[worker[v].seq].thread_id = v
      <4>1. thread_info[worker[v].seq].thread_id = v /\ worker[v].seq \in Slots
        BY <1>1, <3>3 DEF Placed, Worker
      <4>2. worker[v].seq # client[c].i
        BY <3>2, <4>1 DEF Workers, NoThread
      <4> QED BY <2>4, <4>1, <4>2
    <3>4. \A i \in Slots : cur_th_num <= i => thread_info'[i].thread_id = NoThread
      <4>1. client[c].i \in Int /\ cur_th_num \in Int /\ Slots \subseteq Int
        BY <2>1, PoolAssumption DEF IInv, TypeOK, Slots
      <4> QED BY <2>4, <3>2, <4>1 DEF Placed
    <3> QED BY <2>1, <2>2, <3>1, <3>3, <3>4 DEF Placed, Adding
  <2>6. Owned'
    BY <2>1, <2>2, <2>3, <2>4 DEF Owned
  <2>7. Executed'
    BY <2>1, <2>3, <2>4 DEF Executed, RunAtMostOnce
  <2> QED BY <2>1, <2>5, <2>6, <2>7 DEF Untouched
<1> QED
  BY <1>4, <1>5, <1>6, <1>7, <1>8, <1>9, <1>10 DEF ClientStep

\* Until the manager cancels a worker its steps change its own place only.
LEMMA ManagerLooks ==
  ASSUME TypeOK, Untouched, ManagerStep, ~Cancel
  PROVE  /\ UNCHANGED <<managerFrame, cur_th_num, thread_info, cancelled, alive>>
         /\ Untouched'
<1>1. ~Destroy /\ ~DeleteJob /\ ~LoadLast /\ ~StoreLast
  BY DEF Untouched, Destroy, DeleteJob, LoadLast, StoreLast, ManagerGoes
<1>2. UNCHANGED <<managerFrame, cur_th_num, thread_info, cancelled, alive>>
  BY <1>1 DEF ManagerStep, WakeManager, CountBusy, Judge, ChooseLast, ProbeLast
<1>3. manager'.pc \notin {"destroy", "delete", "load", "store"}
  BY <1>1 DEF TypeOK, Manager, Untouched, ManagerStep, WakeManager, CountBusy, Judge,
      ChooseLast, ProbeLast, ManagerGoes
<1> QED BY <1>2, <1>3 DEF Untouched

\* Every step but the removal of a worker preserves OnceInv.
LEMMA StepOnce == IInv /\ OnceInv /\ [Next]_vars /\ [~Cancel]_vars => OnceInv'
<1> SUFFICES ASSUME IInv, OnceInv, [Next]_vars, [~Cancel]_vars PROVE OnceInv'
  OBVIOUS
<1>1. CASE UNCHANGED vars
  BY <1>1 DEF OnceInv, Untouched, Placed, Owned, Executed, RunAtMostOnce, Assigned, Storing, vars
<1>2. ASSUME NEW w \in Workers, WorkerStep(w) \/ WakeSpuriously(w) PROVE OnceInv'
  BY <1>2, WorkerOnce
<1>3. ASSUME NEW c \in Clients, ClientStep(c) PROVE OnceInv'
  BY <1>3, ClientOnce
<1>4. ASSUME ManagerStep, ~Cancel PROVE OnceInv'
  <2>1. /\ UNCHANGED <<managerFrame, cur_th_num, thread_info, cancelled, alive>>
        /\ Untouched'
    BY <1>4, ManagerLooks DEF IInv, OnceInv
  <2> QED BY <2>1
     DEF OnceInv, managerFrame, Placed, Owned, Executed, RunAtMostOnce, Assigned, Storing
<1> QED BY <1>1, <1>2, <1>3, <1>4 DEF Next

\* The strengthened invariant, until the manager removes a worker.
LEMMA OnceInvariance == Spec /\ NoneRemoved => []OnceInv
<1>1. IInv /\ [Next]_vars => IInv'
  BY StepIInv
<1>2. IInv /\ OnceInv /\ [Next]_vars /\ [~Cancel]_vars => OnceInv'
  BY StepOnce
<1> QED BY <1>1, <1>2, InitIInv, InitOnce, PTL DEF Spec, NoneRemoved

\* Until the manager first removes a worker (line 546) no job is executed twice,
\* however many clients race for the slots, however late the threads start and find
\* their ids, and whatever wakes them (lines 123-127, 380-382, 403-405).
THEOREM ExecutedOnce == Spec /\ NoneRemoved => []RunAtMostOnce
<1>1. OnceInv => RunAtMostOnce
  BY DEF OnceInv, Executed
<1> QED BY <1>1, OnceInvariance, PTL
-------------------------------------------------------------------------------
(* One client and a pool that has time to start its threads, as in             *)
(* test_thread_pool: what a slot, its worker and the client know of each other.*)
(* That program runs for longer than MANAGE_INTERVAL (main.cpp:185-199), so    *)
(* the manager does wake in it; what follows holds until it removes a worker.  *)

\* One client calls process_job(), the sleeps outlast the start of the threads,
\* every thread can be created, and none wakes without a signal.
Calm ==
    /\ TimelySleep /\ IdStoredFirst /\ ~Spurious
    /\ max_num <= ThreadLimit
    /\ \A c, d \in Clients : c = d

\* Every slot in use has a worker, but for the one whose thread is being created.
Staffed ==
    /\ \A c \in Clients : client[c].pc # "id"
    /\ \A i \in Slots : i < cur_th_num =>
         \/ thread_info[i].thread_id \in 1 .. created
         \/ \E c \in Clients : client[c].pc = "create" /\ client[c].i = i
    /\ \A i, k \in Slots :
         thread_info[i].thread_id = thread_info[k].thread_id
            /\ thread_info[i].thread_id # NoThread => i = k
    /\ \A w \in Workers : worker[w].pc # "exit"
    /\ \A w \in Workers : worker[w].pc = "lookup" =>
         \E i \in Slots : i < cur_th_num /\ thread_info[i].thread_id = w
    /\ \A w \in Workers : created < w <=> worker[w].pc = "none"
    /\ \A c \in Clients :
         created = IF client[c].pc = "create" THEN cur_th_num - 1 ELSE cur_th_num
    /\ Starting => \A c \in Clients : client[c].pc \in {"out", "sleep"}

\* The client that has chosen a slot, and stores its job there.
Chosen == {"clear", "set", "signal", "clearNew", "setNew", "signalNew"}

\* The worker of slot i is at one of the places.
WorkerOf(i, places) ==
    \E w \in Workers : w = thread_info[i].thread_id /\ worker[w].pc \in places

\* A slot is empty until its worker is about to be woken, and only the slot of a
\* blocked worker is chosen, so nothing is ever overwritten.
Handed ==
    /\ \A c \in Clients : client[c].pc = "probe" => client[c].i < cur_th_num
    /\ \A c \in Clients : client[c].pc \in {"create", "sleep"} =>
         /\ client[c].i = cur_th_num - 1
         /\ thread_info[client[c].i].pProcessEvent = NULL
    /\ \A c \in Clients : client[c].pc = "sleep" =>
         WorkerOf(client[c].i, {"lookup", "begin", "wait"})
    /\ \A c \in Clients : client[c].pc \in Chosen =>
         /\ client[c].i < cur_th_num
         /\ WorkerOf(client[c].i, {"wait"})
         /\ thread_info[client[c].i].pProcessEvent =
                IF c \in Storing THEN client[c].job ELSE NULL
         /\ client[c].pc \in {"clear", "set", "signal"} =>
                thread_info[client[c].i].is_busy
    /\ \A i \in Slots : thread_info[i].thread_id = NoThread =>
         thread_info[i].pProcessEvent = NULL

\* What the place of a worker says of its slot: it is busy from the signal on, and
\* its job lives, has been accepted, and has run or not.
Pending == {"woken", "check", "process"}

AtWork(w) ==
    LET slot == thread_info[worker[w].seq]
        job  == slot.pProcessEvent
    IN
    /\ worker[w].pc \in {"lookup", "begin"} =>
         \A i \in Slots : thread_info[i].thread_id = w => thread_info[i].pProcessEvent = NULL
    /\ worker[w].pc = "wait" /\ job # NULL => \E c \in Storing : client[c].i = worker[w].seq
    /\ worker[w].pc \in Pending \cup {"running", "null", "again"} => slot.is_busy
    /\ worker[w].pc \in Pending => job \in alive \cap accepted /\ runs[job] = 0
    /\ worker[w].pc = "running" => job \in alive \cap accepted /\ runs[job] = 1
                                     /\ worker[w].job = job
    /\ worker[w].pc = "null" => job \in accepted /\ runs[job] = 1
    /\ worker[w].pc = "again" => job = NULL

CalmInv ==
    /\ Staffed /\ Handed
    /\ \A w \in Workers : AtWork(w)
    /\ DeletedAfterRun /\ PendingHasWorker

\* At first the min_num workers of init() start on empty slots.
LEMMA InitCalm == Init => CalmInv
<1> SUFFICES ASSUME Init PROVE CalmInv
  OBVIOUS
<1>1. /\ \A i \in Slots : /\ thread_info[i].pProcessEvent = NULL
                          /\ thread_info[i].thread_id = IF i < min_num THEN i + 1 ELSE NoThread
      /\ \A c \in Clients : client[c] = [pc |-> "out", i |-> 0, job |-> NULL, reg |-> 0]
      /\ \A w \in Workers : worker[w].pc = IF w <= min_num THEN "lookup" ELSE "none"
      /\ \A j \in Jobs : runs[j] = 0
      /\ accepted = {} /\ cur_th_num = min_num /\ created = min_num /\ alive = Jobs
  BY DEF Init
<1>2. Staffed
  <2>1. \A w \in Workers : worker[w].pc = "lookup" =>
           \E i \in Slots : i < cur_th_num /\ thread_info[i].thread_id = w
    <3>1. ASSUME NEW w \in Workers, worker[w].pc = "lookup"
          PROVE  \E i \in Slots : i < cur_th_num /\ thread_info[i].thread_id = w
      <4>1. w \in Nat /\ w <= min_num /\ w >= 1
        BY <1>1, <3>1, PoolAssumption DEF Workers
      <4>2. w - 1 \in Slots /\ w - 1 < min_num
        BY <4>1, PoolAssumption DEF Slots
      <4> QED BY <1>1, <4>1, <4>2
    <3> QED BY <3>1
  <2> QED BY <1>1, <2>1, PoolAssumption DEF Staffed, Slots, Workers, NoThread
<1>3. Handed
  BY <1>1 DEF Handed, Chosen
<1>4. \A w \in Workers : AtWork(w)
  BY <1>1 DEF AtWork, Pending
<1> QED BY <1>1, <1>2, <1>3, <1>4 DEF CalmInv, DeletedAfterRun, PendingHasWorker

\* What the step of a worker does when nobody wakes it but a client: it goes on from
\* one place to the next, never leaves the program, and touches its own slot only.
LEMMA WorkerMoves ==
  ASSUME Calm, IInv, OnceInv, CalmInv, NEW w \in Workers, WorkerStep(w) \/ WakeSpuriously(w)
  PROVE  /\ ~WakeSpuriously(w)
         /\ worker[w].pc \notin {"none", "wait"}
         /\ worker'[w].pc \notin {"none", "exit", "lookup"}
         /\ worker'[w].pc = "begin" => worker[w].pc = "lookup"
         /\ worker'[w].pc = "wait" \/ worker'[w].pc = "begin" \/ worker[w].pc \notin {"lookup", "begin"}
         /\ \A i \in Slots : i # worker[w].seq => thread_info'[i] = thread_info[i]
         /\ \A i \in Slots : thread_info'[i].pProcessEvent \in {thread_info[i].pProcessEvent, NULL}
         /\ \/ worker[w].pc = "lookup" /\ worker'[w].pc = "begin" /\ UNCHANGED thread_info
            \/ /\ worker[w].pc \in Engaged /\ worker'[w].seq = worker[w].seq
               /\ thread_info[worker[w].seq].thread_id = w
<1>1. /\ worker \in [Workers -> Worker] /\ thread_info \in [Slots -> Slot]
      /\ worker[w].seq \in Slots /\ ~DieWaiting(w) /\ ~DieRunning(w)
      /\ worker[w].pc # "exit"
  BY WorkerFrame DEF IInv, TypeOK, OnceInv, CalmInv, Staffed
<1>2. ~WakeSpuriously(w)
  BY DEF Calm, WakeSpuriously
<1>3. CASE Lookup(w)
  <2>1. worker[w].pc = "lookup" /\ UNCHANGED thread_info
    BY <1>3 DEF Lookup
  <2>2. worker'[w].pc = "begin"
    <3>1. \E i \in Slots : i < cur_th_num /\ thread_info[i].thread_id = w
      BY <2>1 DEF CalmInv, Staffed
    <3>2. PICK i \in Slots : worker' = [worker EXCEPT ![w].pc = "begin", ![w].seq = i]
      BY <1>3, <3>1 DEF Lookup
    <3> QED BY <1>1, <3>2 DEF Worker
  <2> QED BY <1>2, <2>1, <2>2
<1>4. CASE Park(w)
  <2>1. /\ worker[w].pc \in {"begin", "again"}
        /\ worker' = [worker EXCEPT ![w].pc = "wait"]
        /\ thread_info' = [thread_info EXCEPT ![worker[w].seq].is_busy = FALSE]
    BY <1>4 DEF Park, WorkerGoes
  <2>2. /\ \A i \in Slots : i # worker[w].seq => thread_info'[i] = thread_info[i]
        /\ \A i \in Slots : thread_info'[i].pProcessEvent = thread_info[i].pProcessEvent
    BY <1>1, <2>1 DEF Slot
  <2> QED BY <1>1, <1>2, <2>1, <2>2 DEF Worker, OnceInv, Placed, Engaged
<1>5. CASE Return(w) \/ Check(w)
  <2>1. UNCHANGED thread_info /\ worker[w].pc \in {"woken", "check"}
    BY <1>5 DEF Return, Check, WorkerGoes
  <2>2. \E p \in {"check", "again", "process"} : worker' = [worker EXCEPT ![w].pc = p]
    BY <1>5 DEF Return, Check, WorkerGoes
  <2> QED BY <1>1, <1>2, <2>1, <2>2 DEF Worker, OnceInv, Placed, Engaged
<1>6. CASE Process(w) \/ Finish(w)
  <2>1. UNCHANGED thread_info /\ worker[w].pc \in {"process", "running"}
    BY <1>6 DEF Process, Finish
  <2>2. worker'[w].pc \in {"running", "null"} /\ worker'[w].seq = worker[w].seq
    BY <1>1, <1>6 DEF Process, Finish, Worker
  <2> QED BY <1>1, <1>2, <2>1, <2>2 DEF OnceInv, Placed, Engaged
<1>7. CASE Forget(w)
  <2>1. /\ worker[w].pc = "null"
        /\ worker' = [worker EXCEPT ![w].pc = "again"]
        /\ thread_info' = [thread_info EXCEPT ![worker[w].seq].pProcessEvent = NULL]
    BY <1>7 DEF Forget, WorkerGoes
  <2>2. /\ \A i \in Slots : i # worker[w].seq => thread_info'[i] = thread_info[i]
        /\ thread_info'[worker[w].seq].pProcessEvent = NULL
    BY <1>1, <2>1 DEF Slot
  <2> QED BY <1>1, <1>2, <2>1, <2>2 DEF Worker, OnceInv, Placed, Engaged
<1> QED BY <1>1, <1>2, <1>3, <1>4, <1>5, <1>6, <1>7 DEF WorkerStep

\* A worker executes and deletes the job of its own slot, which no other slot holds,
\* and leaves the slot of every blocked worker alone.
LEMMA WorkerCalm ==
  ASSUME Calm, IInv, OnceInv, CalmInv, NEW w \in Workers, WorkerStep(w) \/ WakeSpuriously(w)
  PROVE  CalmInv'
<1> USE DEF CalmInv
<1> DEFINE at   == worker[w].seq
           mine == thread_info[at].pProcessEvent
<1>1. /\ UNCHANGED <<cur_th_num, created, client, accepted>>
      /\ ~DieWaiting(w) /\ ~DieRunning(w) /\ at \in Slots
      /\ \A v \in Workers : v # w => worker'[v] = worker[v]
      /\ \A i \in Slots : thread_info'[i].thread_id = thread_info[i].thread_id
  BY WorkerFrame DEF OnceInv, workerFrame
<1>2. /\ worker \in [Workers -> Worker] /\ thread_info \in [Slots -> Slot]
      /\ NULL \notin Jobs /\ alive \subseteq Jobs /\ accepted \subseteq Jobs
      /\ runs \in [Jobs -> Nat]
  BY PoolAssumption DEF IInv, TypeOK
<1>3. /\ ~WakeSpuriously(w)
      /\ worker[w].pc \notin {"none", "wait"}
      /\ worker'[w].pc \notin {"none", "exit", "lookup"}
      /\ worker'[w].pc = "begin" => worker[w].pc = "lookup"
      /\ worker'[w].pc = "wait" \/ worker'[w].pc = "begin" \/ worker[w].pc \notin {"lookup", "begin"}
      /\ \A i \in Slots : i # at => thread_info'[i] = thread_info[i]
      /\ \A i \in Slots : thread_info'[i].pProcessEvent \in {thread_info[i].pProcessEvent, NULL}
      /\ \/ worker[w].pc = "lookup" /\ worker'[w].pc = "begin" /\ UNCHANGED thread_info
         \/ /\ worker[w].pc \in Engaged /\ worker'[w].seq = at
            /\ thread_info[at].thread_id = w
  BY WorkerMoves
<1>4. Storing' = Storing
  BY <1>1 DEF Storing
<1>5. \A v \in Workers : v # w /\ worker[v].pc \in Engaged =>
         /\ worker[v].seq \in Slots
         /\ thread_info'[worker[v].seq] = thread_info[worker[v].seq]
         /\ worker[v].seq # at \/ UNCHANGED thread_info
  BY <1>2, <1>3 DEF OnceInv, Placed, Worker
<1>6. \A v \in Workers : v # w /\ worker[v].pc \in Engaged /\ worker[w].pc \in Engaged =>
         (thread_info[worker[v].seq].pProcessEvent # NULL =>
            thread_info[worker[v].seq].pProcessEvent # mine)
  BY <1>1, <1>3, <1>5, PoolAssumption DEF OnceInv, Placed, Owned, Engaged
<1>7. Staffed'
  <2>1. Starting' => Starting
    BY <1>1, <1>3 DEF Starting
  <2>2. \A v \in Workers : /\ worker'[v].pc # "exit"
                           /\ worker'[v].pc = "lookup" => worker[v].pc = "lookup"
                           /\ worker'[v].pc = "none" <=> worker[v].pc = "none"
    BY <1>1, <1>3 DEF Staffed
  <2> QED BY <1>1, <2>1, <2>2 DEF Staffed
<1>8. Handed'
  <2>1. \A i \in Slots : WorkerOf(i, {"wait"}) =>
           /\ WorkerOf(i, {"wait"})'
           /\ thread_info'[i] = thread_info[i]
    BY <1>1, <1>3 DEF WorkerOf
  <2>2. \A i \in Slots : WorkerOf(i, {"lookup", "begin", "wait"}) =>
           WorkerOf(i, {"lookup", "begin", "wait"})'
    BY <1>1, <1>3 DEF WorkerOf
  <2>3. \A c \in Clients : client[c].pc \in Chosen \cup {"create", "sleep"} => client[c].i \in Slots
    BY DEF IInv, SizeInv, IndexInBounds, Chosen
  <2> QED BY <1>1, <1>3, <1>4, <2>1, <2>2, <2>3 DEF Handed, Chosen
<1>9. /\ \A j \in Jobs : j # mine => (j \in alive' <=> j \in alive) /\ runs'[j] = runs[j]
      /\ worker[w].pc \notin {"process", "running"} => UNCHANGED <<alive, runs>>
      /\ alive' \subseteq alive
      /\ \A j \in Jobs : runs'[j] = 0 => runs[j] = 0
  <2>1. CASE Process(w)
    BY <1>2, <2>1 DEF Process
  <2>2. CASE Finish(w)
    BY <1>2, <2>2 DEF Finish
  <2>3. CASE Lookup(w) \/ Park(w) \/ Return(w) \/ Check(w) \/ Forget(w)
    BY <2>3 DEF Lookup, Park, Return, Check, Forget
  <2> QED BY <1>1, <1>3, <2>1, <2>2, <2>3 DEF WorkerStep
<1>10. ASSUME NEW v \in Workers, v # w PROVE AtWork(v)'
  <2>1. worker'[v] = worker[v] /\ AtWork(v)
    BY <1>1, <1>10
  <2>2. CASE worker[v].pc \in {"lookup", "begin"}
    BY <1>1, <1>3, <2>1, <2>2 DEF AtWork, Pending
  <2>3. CASE worker[v].pc \in Pending \cup {"wait", "running", "null", "again"}
    <3> DEFINE job == thread_info[worker[v].seq].pProcessEvent
    <3>1. thread_info'[worker[v].seq] = thread_info[worker[v].seq]
      BY <1>5, <1>10, <2>3 DEF Engaged, Pending
    <3>2. job \in Jobs => (job \in alive' <=> job \in alive) /\ runs'[job] = runs[job]
      BY <1>2, <1>3, <1>6, <1>9, <1>10, <2>3 DEF Engaged, Pending
    <3> HIDE DEF job
    <3>3. job \in accepted => job \in Jobs
      BY <1>2
    <3> QED BY <1>1, <1>4, <2>1, <2>3, <3>1, <3>2, <3>3 DEF AtWork, Pending, job
  <2>4. CASE worker[v].pc \notin Pending \cup {"lookup", "begin", "wait", "running", "null", "again"}
    BY <2>1, <2>4 DEF AtWork
  <2> QED BY <2>2, <2>3, <2>4
<1>11. AtWork(w)' /\ DeletedAfterRun' /\ (worker[w].pc \in Pending =>
           \/ worker'[w].pc \in Pending /\ thread_info'[worker'[w].seq].pProcessEvent = mine
           \/ runs'[mine] # 0)
  <2>1. CASE Lookup(w)
    <3>1. worker[w].pc = "lookup" /\ UNCHANGED <<thread_info, alive, runs>>
      BY <2>1 DEF Lookup
    <3>2. worker'[w].pc = "begin"
      BY <1>3, <3>1 DEF Engaged
    <3> QED BY <3>1, <3>2 DEF AtWork, Pending, DeletedAfterRun
  <2>2. CASE Park(w)
    <3>1. /\ worker[w].pc \in {"begin", "again"} /\ UNCHANGED <<alive, runs>>
          /\ worker' = [worker EXCEPT ![w].pc = "wait"]
      BY <2>2 DEF Park, WorkerGoes
    <3>2. worker'[w].pc = "wait" /\ worker'[w].seq = at
      BY <1>2, <3>1 DEF Worker
    <3>3. mine = NULL
      <4>1. CASE worker[w].pc = "begin"
        BY <1>1, <1>3, <4>1 DEF AtWork
      <4>2. CASE worker[w].pc = "again"
        BY <4>2 DEF AtWork
      <4> QED BY <3>1, <4>1, <4>2
    <3>4. thread_info'[at].pProcessEvent = NULL
      BY <1>1, <1>3, <3>3
    <3> QED BY <3>1, <3>2, <3>4 DEF AtWork, Pending, DeletedAfterRun
  <2>3. CASE Return(w) \/ Check(w)
    <3>1. worker[w].pc \in {"woken", "check"} /\ UNCHANGED <<thread_info, alive, runs>>
      BY <2>3 DEF Return, Check, WorkerGoes
    <3>2. mine \in alive \cap accepted /\ runs[mine] = 0 /\ thread_info[at].is_busy
      BY <3>1 DEF AtWork, Pending
    <3>3. \E p \in {"check", "process"} : worker' = [worker EXCEPT ![w].pc = p]
      BY <1>2, <2>3, <3>2 DEF Return, Check, WorkerGoes
    <3>4. worker'[w].pc \in {"check", "process"} /\ worker'[w].seq = at
      BY <1>2, <3>3 DEF Worker
    <3> QED BY <1>1, <3>1, <3>2, <3>4 DEF AtWork, Pending, DeletedAfterRun
  <2>4. CASE Process(w)
    <3>1. /\ worker[w].pc = "process" /\ UNCHANGED <<thread_info, alive>>
          /\ worker' = [worker EXCEPT ![w].pc = "running", ![w].job = mine]
          /\ runs' = [j \in Jobs |-> IF j = mine THEN runs[j] + 1 ELSE runs[j]]
      BY <2>4 DEF Process
    <3>2. mine \in alive \cap accepted /\ runs[mine] = 0 /\ thread_info[at].is_busy
      BY <3>1 DEF AtWork, Pending
    <3>3. worker'[w].pc = "running" /\ worker'[w].seq = at /\ worker'[w].job = mine
      BY <1>2, <3>1 DEF Worker
    <3>4. runs'[mine] = 1
      BY <1>2, <3>1, <3>2, SMTT(30)
    <3>5. AtWork(w)'
      BY <1>1, <3>1, <3>2, <3>3, <3>4 DEF AtWork, Pending
    <3>6. DeletedAfterRun'
      BY <1>9, <3>1, <3>2 DEF DeletedAfterRun
    <3> QED BY <3>4, <3>5, <3>6
  <2>5. CASE Finish(w)
    <3>1. /\ worker[w].pc = "running" /\ UNCHANGED <<thread_info, runs>>
          /\ worker' = [worker EXCEPT ![w].pc = "null", ![w].job = NULL]
      BY <2>5 DEF Finish
    <3>2. mine \in alive \cap accepted /\ runs[mine] = 1 /\ thread_info[at].is_busy
      BY <3>1 DEF AtWork
    <3>3. worker'[w].pc = "null" /\ worker'[w].seq = at
      BY <1>2, <3>1 DEF Worker
    <3> QED BY <1>1, <1>9, <3>1, <3>2, <3>3 DEF AtWork, Pending, DeletedAfterRun
  <2>6. CASE Forget(w)
    <3>1. /\ worker[w].pc = "null" /\ UNCHANGED <<alive, runs>>
          /\ worker' = [worker EXCEPT ![w].pc = "again"]
          /\ thread_info' = [thread_info EXCEPT ![at].pProcessEvent = NULL]
      BY <2>6 DEF Forget, WorkerGoes
    <3>2. thread_info[at].is_busy
      BY <3>1 DEF AtWork
    <3>3. worker'[w].pc = "again" /\ worker'[w].seq = at
      BY <1>2, <3>1 DEF Worker
    <3>4. thread_info'[at].pProcessEvent = NULL /\ thread_info'[at].is_busy
      <4>1. thread_info[at] \in Slot
        BY <1>1, <1>2
      <4>2. thread_info'[at] = [thread_info[at] EXCEPT !.pProcessEvent = NULL]
        BY <1>1, <1>2, <3>1
      <4> QED BY <3>2, <4>1, <4>2 DEF Slot
    <3> QED BY <1>1, <3>1, <3>3, <3>4 DEF AtWork, Pending, DeletedAfterRun
  <2> QED BY <1>1, <1>3, <2>1, <2>2, <2>3, <2>4, <2>5, <2>6 DEF WorkerStep
<1>12. PendingHasWorker'
  <2>1. ASSUME NEW j \in accepted, runs'[j] = 0
        PROVE  \E v \in Workers : /\ worker'[v].pc \in Pending
                                  /\ thread_info'[worker'[v].seq].pProcessEvent = j
    <3>1. runs[j] = 0 /\ j # NULL
      BY <1>1, <1>2, <1>9, <2>1
    <3>2. PICK v \in Workers : /\ worker[v].pc \in Pending
                              /\ thread_info[worker[v].seq].pProcessEvent = j
      BY <1>1, <2>1, <3>1 DEF PendingHasWorker, Pending
    <3>3. CASE v = w
      BY <1>1, <1>3, <1>11, <2>1, <3>2, <3>3 DEF Pending
    <3>4. CASE v # w
      BY <1>1, <1>5, <3>2, <3>4 DEF Engaged, Pending
    <3> QED BY <3>3, <3>4
  <2> QED BY <1>1, <2>1 DEF PendingHasWorker, Pending
<1> QED BY <1>7, <1>8, <1>10, <1>11, <1>12

\* A slot that is found idle while no thread is starting has a blocked worker.
LEMMA IdleSlot ==
  ASSUME Calm, IInv, OnceInv, CalmInv, NEW c \in Clients, client[c].pc = "probe",
         NEW i \in Slots, i < cur_th_num, ~thread_info[i].is_busy
  PROVE  WorkerOf(i, {"wait"}) /\ thread_info[i].pProcessEvent = NULL
<1> USE DEF CalmInv
<1>1. \A d \in Clients : d = c
  BY DEF Calm
<1>2. thread_info[i].thread_id \in 1 .. created
  BY <1>1 DEF Staffed
<1> DEFINE w == thread_info[i].thread_id
<1>3. w \in Workers /\ ~(created < w)
  BY <1>2, PoolAssumption DEF IInv, TypeOK, Workers
<1>4. worker[w].pc \notin {"none", "exit", "lookup", "begin"}
  BY <1>3 DEF Staffed, Starting
<1>5. worker \in [Workers -> Worker]
  BY DEF IInv, TypeOK
<1>6. worker[w].pc \in Engaged
  BY <1>3, <1>4, <1>5 DEF Worker, Engaged
<1>7. worker[w].seq = i
  <2>1. worker[w].seq \in Slots /\ thread_info[worker[w].seq].thread_id = w
    BY <1>3, <1>5, <1>6 DEF OnceInv, Placed, Worker
  <2>2. w # NoThread
    BY <1>3 DEF Workers, NoThread
  <2> QED BY <2>1, <2>2 DEF Staffed
<1>8. worker[w].pc = "wait"
  BY <1>3, <1>4, <1>6, <1>7 DEF AtWork, Engaged, Pending
<1>9. thread_info[i].pProcessEvent = NULL
  BY <1>1, <1>3, <1>7, <1>8 DEF AtWork, Storing
<1> QED BY <1>3, <1>8, <1>9 DEF WorkerOf

\* A step that creates no thread, stores no id and leaves every worker in the
\* program keeps every slot staffed.
LEMMA KeepsStaffed ==
  ASSUME Staffed, NEW c \in Clients, \A d \in Clients : d = c,
         UNCHANGED <<cur_th_num, created>>,
         \A i \in Slots : thread_info'[i].thread_id = thread_info[i].thread_id,
         \A v \in Workers : /\ worker'[v].pc # "exit"
                            /\ worker'[v].pc = "lookup" => worker[v].pc = "lookup"
                            /\ worker'[v].pc = "none" <=> worker[v].pc = "none",
         {client[c].pc, client'[c].pc} \cap {"create", "id"} = {},
         Starting' => client'[c].pc \in {"out", "sleep"}
  PROVE  Staffed'
<1>1. \A d \in Clients : client'[d].pc \notin {"create", "id"} /\ client[d].pc # "create"
  OBVIOUS
<1>2. \A i \in Slots : i < cur_th_num' => thread_info'[i].thread_id \in 1 .. created'
  BY <1>1 DEF Staffed
<1>3. \A i, k \in Slots :
         thread_info'[i].thread_id = thread_info'[k].thread_id
            /\ thread_info'[i].thread_id # NoThread => i = k
  BY DEF Staffed
<1>4. \A w \in Workers : worker'[w].pc = "lookup" =>
         \E i \in Slots : i < cur_th_num' /\ thread_info'[i].thread_id = w
  BY DEF Staffed
<1>5. \A w \in Workers : created' < w <=> worker'[w].pc = "none"
  BY DEF Staffed
<1>6. \A d \in Clients :
         created' = IF client'[d].pc = "create" THEN cur_th_num' - 1 ELSE cur_th_num'
  BY <1>1 DEF Staffed
<1>7. Starting' => \A d \in Clients : client'[d].pc \in {"out", "sleep"}
  OBVIOUS
<1> QED BY <1>1, <1>2, <1>3, <1>4, <1>5, <1>6, <1>7 DEF Staffed

\* A step of the client that neither stores its job nor adds a thread, and chooses a
\* slot only if its worker is blocked.
Plain(c) ==
    /\ UNCHANGED <<worker, created, alive, runs, accepted, cur_th_num>>
    /\ \A i \in Slots :
         /\ thread_info'[i].thread_id = thread_info[i].thread_id
         /\ thread_info'[i].pProcessEvent = thread_info[i].pProcessEvent
         /\ thread_info[i].is_busy => thread_info'[i].is_busy
    /\ {client[c].pc, client'[c].pc} \cap {"create", "id", "signal", "signalNew"} = {}
    /\ ~Starting \/ client'[c].pc = "out"
    /\ client'[c].pc # "sleep"
    /\ client'[c].pc = "probe" => client'[c].i < cur_th_num
    /\ client'[c].pc \in Chosen =>
         /\ client'[c].i \in Slots /\ client'[c].i < cur_th_num
         /\ WorkerOf(client'[c].i, {"wait"})
         /\ thread_info[client'[c].i].pProcessEvent = NULL
         /\ client'[c].pc \in {"clear", "set"} => thread_info'[client'[c].i].is_busy

LEMMA PlainCalm ==
  ASSUME Calm, IInv, OnceInv, CalmInv, NEW c \in Clients, Plain(c)
  PROVE  CalmInv'
<1> USE DEF CalmInv
<1>1. \A d \in Clients : d = c
  BY DEF Calm
<1>2. UNCHANGED <<worker, created, alive, runs, accepted, cur_th_num>>
  BY DEF Plain
<1>3. Storing = {} /\ Storing' = {}
  BY <1>1 DEF Plain, Storing
<1>4. worker \in [Workers -> Worker]
  BY DEF IInv, TypeOK
<1>5. Staffed'
  <2>1. Starting' = Starting
    BY <1>2 DEF Starting
  <2>2. Starting' => client'[c].pc \in {"out", "sleep"}
    BY <2>1 DEF Plain
  <2>3. {client[c].pc, client'[c].pc} \cap {"create", "id"} = {}
    BY DEF Plain
  <2>4. \A i \in Slots : thread_info'[i].thread_id = thread_info[i].thread_id
    BY DEF Plain
  <2>5. \A v \in Workers : worker'[v].pc # "exit"
    BY <1>2 DEF Staffed
  <2> QED BY <1>1, <1>2, <2>2, <2>3, <2>4, <2>5, KeepsStaffed
<1>6. Handed'
  <2>1. \A i \in Slots : WorkerOf(i, {"wait"}) => WorkerOf(i, {"wait"})'
    BY <1>2 DEF WorkerOf, Plain
  <2>2. \A i \in Slots : thread_info'[i].thread_id = NoThread => thread_info'[i].pProcessEvent = NULL
    BY DEF Handed, Plain
  <2> QED BY <1>1, <1>2, <1>3, <2>1, <2>2 DEF Handed, Plain, Chosen
<1>7. ASSUME NEW w \in Workers PROVE AtWork(w)'
  <2>1. worker[w].seq \in Slots
    BY <1>4 DEF Worker
  <2> QED BY <1>2, <1>3, <2>1 DEF AtWork, Plain
<1>8. DeletedAfterRun'
  BY <1>2 DEF DeletedAfterRun
<1>9. PendingHasWorker'
  <2>1. \A w \in Workers : worker[w].seq \in Slots
    BY <1>4 DEF Worker
  <2> QED BY <1>2, <2>1 DEF PendingHasWorker, Plain
<1> QED BY <1>5, <1>6, <1>7, <1>8, <1>9

LEMMA PlainSteps ==
  ASSUME Calm, IInv, OnceInv, CalmInv, NEW c \in Clients,
         \/ Call(c) \/ Scan(c) \/ Reserve(c) \/ Skip(c) \/ Clear(c) \/ LockPool(c)
         \/ Refuse(c) \/ OpenSlot(c) \/ LoadSize(c) \/ PickLast(c)
  PROVE  Plain(c)
<1> USE DEF CalmInv
<1>1. /\ client \in [Clients -> Client] /\ thread_info \in [Slots -> Slot]
      /\ NULL \notin alive /\ \A d \in Clients : d = c
  BY PoolAssumption DEF IInv, TypeOK, Calm
<1>2. client[c].pc \notin {"out", "sleep"} => ~Starting
  BY DEF Staffed
<1>3. CASE Call(c) \/ LockPool(c) \/ LoadSize(c)
  <2>1. UNCHANGED <<worker, created, alive, runs, accepted, cur_th_num, thread_info>>
    BY <1>3 DEF Call, LockPool, LoadSize, inert, clientFrame
  <2>2. ~Starting
    BY <1>2, <1>3 DEF Call, LockPool, LoadSize, ClientGoes, Calm
  <2>3. client[c].pc \in {"out", "lock", "load"} /\ client'[c].pc \in {"scan", "add", "store"}
    BY <1>1, <1>3 DEF Call, LockPool, LoadSize, ClientGoes, Client
  <2> QED BY <2>1, <2>2, <2>3 DEF Plain, Chosen
<1>4. CASE Scan(c)
  <2>1. UNCHANGED <<worker, created, alive, runs, accepted, cur_th_num, thread_info>>
    BY <1>4 DEF Scan, inert, clientFrame
  <2>2. /\ client[c].pc = "scan"
        /\ \/ client'[c].pc = "lock"
           \/ client'[c].pc = "probe" /\ client'[c].i = client[c].i /\ client[c].i < cur_th_num
    BY <1>1, <1>4 DEF Scan, ClientGoes, Client
  <2> QED BY <1>2, <2>1, <2>2 DEF Plain, Chosen
<1>5. CASE Skip(c)
  <2>1. UNCHANGED <<worker, created, alive, runs, accepted, cur_th_num, thread_info>>
    BY <1>5 DEF Skip, inert, clientFrame
  <2>2. client[c].pc = "probe" /\ client'[c].pc = "scan"
    BY <1>1, <1>5 DEF Skip, Client
  <2> QED BY <1>2, <2>1, <2>2 DEF Plain, Chosen
<1>6. CASE Reserve(c)
  <2>1. /\ UNCHANGED <<worker, created, alive, runs, accepted, cur_th_num>>
        /\ client[c].pc = "probe" /\ client[c].i \in Slots /\ client[c].i < cur_th_num
        /\ ~thread_info[client[c].i].is_busy
        /\ thread_info' = [thread_info EXCEPT ![client[c].i].is_busy = TRUE]
    BY <1>6 DEF Reserve, ClientGoes, clientFrame, IInv, SizeInv, IndexInBounds, Handed
  <2>2. /\ \A i \in Slots : /\ thread_info'[i].thread_id = thread_info[i].thread_id
                            /\ thread_info'[i].pProcessEvent = thread_info[i].pProcessEvent
                            /\ thread_info[i].is_busy => thread_info'[i].is_busy
        /\ thread_info'[client[c].i].is_busy
    BY <1>1, <2>1 DEF Slot
  <2>3. client'[c].pc = "clear" /\ client'[c].i = client[c].i
    BY <1>1, <1>6 DEF Reserve, ClientGoes, Client
  <2>4. WorkerOf(client[c].i, {"wait"}) /\ thread_info[client[c].i].pProcessEvent = NULL
    BY <2>1, IdleSlot
  <2> QED BY <1>2, <2>1, <2>2, <2>3, <2>4 DEF Plain, Chosen
<1>7. CASE Clear(c)
  <2>1. /\ UNCHANGED <<worker, created, runs, accepted, cur_th_num, thread_info>>
        /\ client[c].pc \in {"clear", "clearNew"}
        /\ alive' = alive \ {thread_info[client[c].i].pProcessEvent}
    BY <1>7 DEF Clear, ClientGoes, clientFrame
  <2>2. /\ client'[c].i = client[c].i
        /\ \/ client[c].pc = "clear" /\ client'[c].pc = "set"
           \/ client[c].pc = "clearNew" /\ client'[c].pc = "setNew"
    BY <1>1, <1>7 DEF Clear, ClientGoes, Client
  <2>3. /\ client[c].i \in Slots /\ client[c].i < cur_th_num
        /\ WorkerOf(client[c].i, {"wait"})
        /\ thread_info[client[c].i].pProcessEvent = NULL
        /\ client[c].pc = "clear" => thread_info[client[c].i].is_busy
    BY <2>1 DEF Handed, Chosen, Storing, IInv, SizeInv, IndexInBounds
  <2>4. UNCHANGED alive
    BY <1>1, <2>1, <2>3
  <2> QED BY <1>2, <2>1, <2>2, <2>3, <2>4 DEF Plain, Chosen
<1>8. CASE Refuse(c)
  <2>1. /\ UNCHANGED <<worker, created, alive, runs, accepted, cur_th_num, thread_info>>
        /\ client' = [client EXCEPT ![c].pc = "out", ![c].job = NULL]
    BY <1>8 DEF Refuse, inert, clientFrame
  <2>2. client[c].pc = "add"
    BY <1>8, PoolAssumption DEF Refuse, Staffed, Calm, IInv, TypeOK
  <2>3. client'[c].pc = "out"
    BY <1>1, <2>1 DEF Client
  <2> QED BY <2>1, <2>2, <2>3 DEF Plain, Chosen
<1>9. CASE OpenSlot(c)
  <2>1. /\ UNCHANGED <<worker, created, alive, runs, accepted, cur_th_num>>
        /\ client[c].pc = "add" /\ cur_th_num \in Slots
        /\ client' = [client EXCEPT ![c].pc = "load", ![c].i = cur_th_num]
        /\ thread_info' = [thread_info EXCEPT ![cur_th_num].thread_lock = "free"]
    BY <1>9, PoolAssumption DEF OpenSlot, clientFrame, IInv, TypeOK, Slots
  <2>2. \A i \in Slots : /\ thread_info'[i].thread_id = thread_info[i].thread_id
                         /\ thread_info'[i].pProcessEvent = thread_info[i].pProcessEvent
                         /\ thread_info'[i].is_busy = thread_info[i].is_busy
    BY <1>1, <2>1 DEF Slot
  <2>3. client'[c].pc = "load"
    BY <1>1, <2>1 DEF Client
  <2> QED BY <1>2, <2>1, <2>2, <2>3 DEF Plain, Chosen
<1>10. CASE PickLast(c)
  <2>1. /\ UNCHANGED <<worker, created, alive, runs, accepted, cur_th_num, thread_info>>
        /\ client[c].pc = "sleep" /\ ~Starting
        /\ client' = [client EXCEPT ![c].pc = "clearNew", ![c].i = cur_th_num - 1]
    BY <1>10 DEF PickLast, inert, clientFrame, Calm
  <2>2. client'[c].pc = "clearNew" /\ client'[c].i = cur_th_num - 1
    BY <1>1, <2>1 DEF Client
  <2>3. client[c].i = cur_th_num - 1 /\ client[c].i \in Slots /\ cur_th_num - 1 < cur_th_num
    BY <2>1, PoolAssumption DEF Handed, IInv, TypeOK, SizeInv, IndexInBounds
  <2>4. /\ thread_info[client[c].i].pProcessEvent = NULL
        /\ WorkerOf(client[c].i, {"wait"})
    BY <2>1 DEF Handed, WorkerOf, Starting
  <2> QED BY <2>1, <2>2, <2>3, <2>4 DEF Plain, Chosen
<1> QED BY <1>3, <1>4, <1>5, <1>6, <1>7, <1>8, <1>9, <1>10

\* The client stores its job in the empty slot of a blocked worker, its signal wakes
\* that worker, and a new thread finds its id in a slot that was never used.
LEMMA ClientCalm ==
  ASSUME Calm, IInv, OnceInv, CalmInv, NEW c \in Clients, ClientStep(c)
  PROVE  CalmInv'
<1> USE DEF CalmInv
<1>1. /\ client \in [Clients -> Client] /\ thread_info \in [Slots -> Slot]
      /\ worker \in [Workers -> Worker] /\ runs \in [Jobs -> Nat]
      /\ accepted \subseteq Jobs /\ NULL \notin Jobs
      /\ cur_th_num \in Nat /\ created \in Nat /\ max_num \in Nat /\ Slots \subseteq Nat
  BY PoolAssumption DEF IInv, TypeOK, Slots
<1>2. \A d \in Clients : d = c
  BY DEF Calm
<1>3. client[c].pc \notin {"out", "sleep"} => ~Starting
  BY DEF Staffed
<1>4. \A w \in Workers : /\ worker[w].seq \in Slots
                         /\ worker[w].pc \in Engaged => thread_info[worker[w].seq].thread_id = w
  BY <1>1 DEF Worker, OnceInv, Placed
<1>5. CASE \/ Call(c) \/ Scan(c) \/ Reserve(c) \/ Skip(c) \/ Clear(c) \/ LockPool(c)
           \/ Refuse(c) \/ OpenSlot(c) \/ LoadSize(c) \/ PickLast(c)
  BY <1>5, PlainSteps, PlainCalm
<1>6. CASE Assign(c)
  <2>1. /\ UNCHANGED <<cur_th_num, worker, created, accepted, runs, alive>>
        /\ client[c].pc \in {"set", "setNew"}
        /\ thread_info' = [thread_info EXCEPT ![client[c].i].pProcessEvent = client[c].job]
    BY <1>6 DEF Assign, clientFrame, ClientGoes
  <2>2. /\ client[c].i \in Slots /\ client[c].i < cur_th_num
        /\ WorkerOf(client[c].i, {"wait"})
        /\ client[c].pc = "set" => thread_info[client[c].i].is_busy
    BY <2>1 DEF Handed, Chosen, IInv, SizeInv, IndexInBounds
  <2>3. /\ client'[c].i = client[c].i /\ client'[c].job = client[c].job
        /\ \/ client[c].pc = "set" /\ client'[c].pc = "signal"
           \/ client[c].pc = "setNew" /\ client'[c].pc = "signalNew"
    BY <1>1, <1>6 DEF Assign, ClientGoes, Client
  <2>4. /\ \A i \in Slots : /\ thread_info'[i].thread_id = thread_info[i].thread_id
                            /\ thread_info'[i].is_busy = thread_info[i].is_busy
                            /\ i # client[c].i => thread_info'[i] = thread_info[i]
        /\ thread_info'[client[c].i].pProcessEvent = client[c].job
    BY <1>1, <2>1, <2>2 DEF Slot
  <2>5. Storing = {} /\ Storing' = {c}
    BY <1>2, <2>1, <2>3 DEF Storing
  <2>6. Staffed'
    <3>1. Starting' = Starting
      BY <2>1 DEF Starting
    <3> QED BY <1>2, <1>3, <2>1, <2>3, <2>4, <3>1 DEF Staffed
  <2>7. Handed'
    <3>1. WorkerOf(client[c].i, {"wait"})'
      BY <2>1, <2>2, <2>3, <2>4 DEF WorkerOf
    <3>2. thread_info[client[c].i].thread_id # NoThread
      BY <2>2 DEF WorkerOf, Workers, NoThread
    <3>3. \A i \in Slots : thread_info'[i].thread_id = NoThread => thread_info'[i].pProcessEvent = NULL
      BY <2>4, <3>2 DEF Handed
    <3> QED BY <1>2, <2>1, <2>2, <2>3, <2>4, <2>5, <3>1, <3>3 DEF Handed, Chosen
  <2>8. ASSUME NEW w \in Workers PROVE AtWork(w)'
    <3>1. CASE worker[w].seq = client[c].i /\ worker[w].pc \in Engaged
      <4>1. worker[w].pc = "wait"
        BY <1>4, <2>2, <3>1 DEF WorkerOf
      <4> QED BY <2>1, <2>3, <2>5, <3>1, <4>1 DEF AtWork, Pending
    <3>2. CASE worker[w].seq # client[c].i /\ worker[w].pc \in Engaged
      <4>1. thread_info'[worker[w].seq] = thread_info[worker[w].seq]
        BY <1>4, <2>4, <3>2
      <4> QED BY <1>3, <2>1, <2>5, <3>2, <4>1 DEF AtWork, Pending, Starting
    <3>3. CASE worker[w].pc \notin Engaged
      BY <1>3, <2>1, <3>3 DEF AtWork, Pending, Engaged, Starting
    <3> QED BY <3>1, <3>2, <3>3
  <2>9. DeletedAfterRun'
    BY <2>1 DEF DeletedAfterRun
  <2>10. PendingHasWorker'
    <3>1. \A w \in Workers : worker[w].pc \in {"woken", "check", "process"} =>
             thread_info'[worker[w].seq] = thread_info[worker[w].seq]
      BY <1>4, <2>2, <2>4 DEF WorkerOf, Engaged
    <3>2. ASSUME NEW j \in accepted', runs'[j] = 0
          PROVE  \E v \in Workers : /\ worker'[v].pc \in {"woken", "check", "process"}
                                    /\ thread_info'[worker'[v].seq].pProcessEvent = j
      <4>1. PICK v \in Workers : /\ worker[v].pc \in {"woken", "check", "process"}
                                 /\ thread_info[worker[v].seq].pProcessEvent = j
        BY <2>1, <3>2 DEF PendingHasWorker
      <4> QED BY <2>1, <3>1, <4>1
    <3> QED BY <3>2 DEF PendingHasWorker
  <2> QED BY <2>6, <2>7, <2>8, <2>9, <2>10
<1>7. CASE Signal(c)
  <2> DEFINE job == client[c].job
  <2>1. /\ UNCHANGED <<cur_th_num, created, runs, alive>>
        /\ accepted' = accepted \cup {job}
        /\ client' = [client EXCEPT ![c].pc = "out", ![c].job = NULL]
        /\ client[c].pc \in {"signal", "signalNew"}
        /\ \/ client[c].pc = "signal" /\ UNCHANGED thread_info
           \/ /\ client[c].pc = "signalNew"
              /\ thread_info' = [thread_info EXCEPT ![client[c].i].is_busy = TRUE]
        /\ WakeOne(client[c].i)
    BY <1>7 DEF Signal, clientFrame
  <2>2. /\ client[c].i \in Slots /\ client[c].i < cur_th_num /\ job \in Jobs
        /\ thread_info[client[c].i].pProcessEvent = job
        /\ client[c].pc = "signal" => thread_info[client[c].i].is_busy
    BY <2>1 DEF Handed, Chosen, Storing, IInv, SizeInv, IndexInBounds
  <2>3. PICK w \in Workers : w = thread_info[client[c].i].thread_id /\ worker[w].pc = "wait"
    BY <2>1 DEF Handed, Chosen, WorkerOf
  <2>4. worker[w].seq = client[c].i
    BY <1>4, <2>2, <2>3 DEF Staffed, Workers, NoThread, Engaged
  <2>5. Parked(client[c].i) = {w}
    BY <1>4, <2>3, <2>4 DEF Parked, Engaged
  <2>6. /\ \A v \in Workers : v # w => worker'[v] = worker[v]
        /\ worker'[w].pc = "woken" /\ worker'[w].seq = client[c].i
    BY <1>1, <2>1, <2>4, <2>5 DEF WakeOne, Worker
  <2>7. /\ client'[c].pc = "out"
        /\ Storing = {c} /\ Storing' = {}
    BY <1>1, <1>2, <2>1 DEF Client, Storing
  <2>8. /\ \A i \in Slots : /\ thread_info'[i].thread_id = thread_info[i].thread_id
                            /\ thread_info'[i].pProcessEvent = thread_info[i].pProcessEvent
                            /\ thread_info[i].is_busy => thread_info'[i].is_busy
        /\ thread_info'[client[c].i].is_busy
    BY <1>1, <2>1, <2>2 DEF Slot
  <2>9. runs[job] = 0 /\ job \in alive
    <3>1. runs[job] = 0
      <4>1. \A v \in Workers : v # w /\ worker[v].pc \in Engaged => worker[v].seq # client[c].i
        BY <1>4, <2>3
      <4>2. runs[job] # 0 =>
               \E v \in Workers : worker[v].seq = client[c].i /\ worker[v].pc \in {"running", "null"}
        <5>1. job # NULL
          BY <1>1, <2>2
        <5>2. Executed
          BY DEF OnceInv
        <5> QED BY <2>2, <5>1, <5>2 DEF Executed
      <4> QED BY <2>3, <4>1, <4>2 DEF Engaged
    <3> QED BY <2>2, <3>1 DEF DeletedAfterRun
  <2>10. Staffed'
    <3>2. \A v \in Workers : /\ worker'[v].pc # "exit"
                             /\ worker'[v].pc = "lookup" => worker[v].pc = "lookup"
                             /\ worker'[v].pc = "none" <=> worker[v].pc = "none"
      BY <2>3, <2>6 DEF Staffed
    <3>3. Starting' => client'[c].pc \in {"out", "sleep"}
      BY <2>7
    <3>4. {client[c].pc, client'[c].pc} \cap {"create", "id"} = {}
      BY <2>1, <2>7
    <3> QED BY <1>2, <2>1, <2>8, <3>2, <3>3, <3>4, KeepsStaffed
  <2>11. Handed'
    BY <1>2, <2>7, <2>8 DEF Handed, Chosen
  <2>12. ASSUME NEW v \in Workers PROVE AtWork(v)'
    <3>1. CASE v = w
      BY <2>1, <2>2, <2>6, <2>8, <2>9, <3>1 DEF AtWork, Pending
    <3>2. CASE v # w /\ worker[v].pc = "wait"
      <4>1. thread_info[worker[v].seq].pProcessEvent = NULL
        BY <1>4, <2>3, <2>7, <3>2, SMTT(30) DEF AtWork, Engaged
      <4> QED BY <1>4, <2>6, <2>8, <3>2, <4>1 DEF AtWork, Pending
    <3>3. CASE v # w /\ worker[v].pc # "wait"
      BY <1>4, <2>1, <2>6, <2>8, <3>3 DEF AtWork, Pending
    <3> QED BY <3>1, <3>2, <3>3, SMTT(30)
  <2>13. DeletedAfterRun'
    BY <2>1 DEF DeletedAfterRun
  <2>14. PendingHasWorker'
    <3>1. ASSUME NEW j \in accepted', runs'[j] = 0
          PROVE  \E v \in Workers : /\ worker'[v].pc \in {"woken", "check", "process"}
                                    /\ thread_info'[worker'[v].seq].pProcessEvent = j
      <4>1. CASE j = job
        BY <2>2, <2>6, <2>8, <4>1
      <4>2. CASE j # job
        <5>1. PICK v \in Workers : /\ worker[v].pc \in {"woken", "check", "process"}
                                   /\ thread_info[worker[v].seq].pProcessEvent = j
          BY <2>1, <3>1, <4>2 DEF PendingHasWorker
        <5> QED BY <1>4, <2>3, <2>6, <2>8, <5>1
      <4> QED BY <4>1, <4>2
    <3> QED BY <3>1 DEF PendingHasWorker
  <2> QED BY <2>10, <2>11, <2>12, <2>13, <2>14
<1>8. CASE StoreSize(c)
  <2>1. /\ UNCHANGED <<worker, created, accepted, runs, alive, thread_info>>
        /\ client[c].pc = "store" /\ client[c].i = cur_th_num /\ cur_th_num' = cur_th_num + 1
        /\ client' = [client EXCEPT ![c].pc = "create"]
    BY <1>8 DEF StoreSize, inert, clientFrame, ClientGoes, OnceInv, Placed
  <2>2. client'[c].pc = "create" /\ client'[c].i = client[c].i /\ client[c].i \in Slots
    BY <1>1, <2>1 DEF Client, IInv, SizeInv, IndexInBounds
  <2>3. Storing = {} /\ Storing' = {}
    BY <1>2, <2>1, <2>2 DEF Storing
  <2>4. Staffed'
    <3>1. ~Starting'
      BY <1>3, <2>1 DEF Starting
    <3>2. \A i \in Slots : i < cur_th_num' => i < cur_th_num \/ i = client'[c].i
      BY <1>1, <2>1, <2>2
    <3>3. \A i \in Slots : i < cur_th_num' =>
             \/ thread_info[i].thread_id \in 1 .. created
             \/ \E d \in Clients : client'[d].pc = "create" /\ client'[d].i = i
      BY <1>2, <2>1, <2>2, <3>2 DEF Staffed
    <3>4. \A w \in Workers : worker[w].pc # "lookup"
      BY <1>3, <2>1 DEF Starting
    <3>5. created = cur_th_num' - 1
      BY <1>1, <2>1 DEF Staffed
    <3> QED BY <1>2, <2>1, <2>2, <3>1, <3>3, <3>4, <3>5 DEF Staffed
  <2>5. Handed'
    <3>1. thread_info[client[c].i].pProcessEvent = NULL
      BY <1>1, <2>1, <2>2 DEF Handed, OnceInv, Placed
    <3> QED BY <1>1, <1>2, <2>1, <2>2, <3>1 DEF Handed, Chosen
  <2>6. \A w \in Workers : AtWork(w)'
    BY <2>1, <2>3 DEF AtWork, Pending
  <2>7. DeletedAfterRun' /\ PendingHasWorker'
    BY <2>1 DEF DeletedAfterRun, PendingHasWorker
  <2> QED BY <2>4, <2>5, <2>6, <2>7
<1>9. CASE Create(c)
  <2>1. /\ UNCHANGED <<cur_th_num, accepted, runs, alive>>
        /\ created < ThreadLimit /\ created' = created + 1
        /\ worker' = [worker EXCEPT ![created'].pc = "lookup"]
        /\ client[c].pc = "create" /\ client' = [client EXCEPT ![c].pc = "sleep"]
        /\ thread_info' = [thread_info EXCEPT ![client[c].i].thread_id = created']
        /\ client[c].i \in Slots
    BY <1>9 DEF Create, clientFrame, ClientGoes, Calm, IInv, SizeInv, IndexInBounds
  <2>2. /\ created' \in Workers /\ created' # NoThread
        /\ client[c].i = cur_th_num - 1 /\ created = cur_th_num - 1
        /\ thread_info[client[c].i].thread_id = NoThread
        /\ thread_info[client[c].i].pProcessEvent = NULL
    BY <1>1, <2>1, PoolAssumption DEF Workers, NoThread, Handed, Staffed, OnceInv, Placed
  <2>3. /\ client'[c].pc = "sleep" /\ client'[c].i = client[c].i
        /\ Storing = {} /\ Storing' = {}
    BY <1>1, <1>2, <2>1 DEF Client, Storing
  <2>4. /\ \A v \in Workers : v # created' => worker'[v] = worker[v]
        /\ worker'[created'].pc = "lookup" /\ worker[created'].pc = "none"
    BY <1>1, <2>1, <2>2 DEF Worker, Staffed
  <2>5. /\ \A i \in Slots : /\ thread_info'[i].pProcessEvent = thread_info[i].pProcessEvent
                            /\ thread_info'[i].is_busy = thread_info[i].is_busy
                            /\ i # client[c].i => thread_info'[i] = thread_info[i]
        /\ thread_info'[client[c].i].thread_id = created'
    BY <1>1, <2>1 DEF Slot
  <2>6. \A i \in Slots : thread_info[i].thread_id \in 0 .. created
    BY <1>1, <1>2, <2>1, <2>2 DEF Staffed, NoThread, OnceInv, Placed
  <2>7. Staffed'
    <3>1. \A i \in Slots : i < cur_th_num => thread_info'[i].thread_id \in 1 .. created'
      BY <1>1, <1>2, <2>1, <2>2, <2>5 DEF Staffed
    <3>2. \A i, k \in Slots :
             thread_info'[i].thread_id = thread_info'[k].thread_id
                /\ thread_info'[i].thread_id # NoThread => i = k
      BY <1>1, <2>1, <2>5, <2>6 DEF Staffed
    <3>3. \A v \in Workers : worker'[v].pc = "lookup" => v = created'
      BY <1>3, <2>1, <2>4 DEF Starting
    <3>4. \A v \in Workers : worker'[v].pc = "lookup" =>
             \E i \in Slots : i < cur_th_num /\ thread_info'[i].thread_id = v
      BY <1>1, <2>1, <2>2, <2>5, <3>3
    <3>5. \A v \in Workers : created' < v <=> worker'[v].pc = "none"
      BY <1>1, <2>1, <2>2, <2>4 DEF Staffed, Workers
    <3> QED BY <1>1, <1>2, <2>1, <2>2, <2>3, <2>4, <3>1, <3>2, <3>4, <3>5 DEF Staffed
  <2>8. Handed'
    <3>1. WorkerOf(client[c].i, {"lookup", "begin", "wait"})'
      BY <2>2, <2>3, <2>4, <2>5 DEF WorkerOf
    <3> QED BY <1>2, <2>1, <2>2, <2>3, <2>5, <3>1 DEF Handed, Chosen
  <2>9. ASSUME NEW v \in Workers PROVE AtWork(v)'
    <3>1. CASE v = created'
      <4>1. \A i \in Slots : thread_info'[i].thread_id = v => i = client[c].i
        BY <1>1, <2>1, <2>5, <2>6, <3>1, SMTT(30)
      <4> QED BY <2>2, <2>4, <2>5, <3>1, <4>1 DEF AtWork, Pending
    <3>2. CASE v # created'
      <4>1. worker[v].pc \notin {"lookup", "begin"}
        BY <1>3, <2>1 DEF Starting
      <4> QED BY <1>4, <2>1, <2>3, <2>4, <2>5, <3>2, <4>1 DEF AtWork, Pending
    <3> QED BY <3>1, <3>2
  <2>10. DeletedAfterRun'
    BY <2>1 DEF DeletedAfterRun
  <2>11. PendingHasWorker'
    <3>1. \A v \in Workers : worker[v].pc \in {"woken", "check", "process"} => v # created'
      BY <2>4
    <3> QED BY <1>4, <2>1, <2>4, <2>5, <3>1 DEF PendingHasWorker
  <2> QED BY <2>7, <2>8, <2>9, <2>10, <2>11
<1>10. ~StoreId(c)
  BY DEF StoreId, ClientGoes, Staffed
<1> QED
  BY <1>5, <1>6, <1>7, <1>8, <1>9, <1>10 DEF ClientStep

\* Every step of a calm pool but the removal of a worker preserves CalmInv.
LEMMA StepCalm ==
  Calm => (IInv /\ OnceInv /\ CalmInv /\ [Next]_vars /\ [~Cancel]_vars => CalmInv')
<1> SUFFICES ASSUME Calm, IInv, OnceInv, CalmInv, [Next]_vars, [~Cancel]_vars PROVE CalmInv'
  OBVIOUS
<1>1. CASE UNCHANGED vars
  BY <1>1 DEF CalmInv, Staffed, Handed, AtWork, DeletedAfterRun, PendingHasWorker, WorkerOf,
      Starting, Storing, vars
<1>2. ASSUME NEW w \in Workers, WorkerStep(w) \/ WakeSpuriously(w) PROVE CalmInv'
  BY <1>2, WorkerCalm
<1>3. ASSUME NEW c \in Clients, ClientStep(c) PROVE CalmInv'
  BY <1>3, ClientCalm
<1>4. ASSUME ManagerStep, ~Cancel PROVE CalmInv'
  <2>1. UNCHANGED <<managerFrame, cur_th_num, thread_info, cancelled, alive>>
    BY <1>4, ManagerLooks DEF IInv, OnceInv
  <2> QED BY <2>1
     DEF CalmInv, managerFrame, Staffed, Handed, AtWork, DeletedAfterRun, PendingHasWorker,
         WorkerOf, Starting, Storing
<1> QED BY <1>1, <1>2, <1>3, <1>4 DEF Next

LEMMA CalmInvariance == ASSUME Calm PROVE Spec /\ NoneRemoved => [](IInv /\ CalmInv)
<1>1. IInv /\ [Next]_vars => IInv'
  BY StepIInv
<1>2. IInv /\ OnceInv /\ [Next]_vars /\ [~Cancel]_vars => OnceInv'
  BY StepOnce
<1>3. IInv /\ OnceInv /\ CalmInv /\ [Next]_vars /\ [~Cancel]_vars => CalmInv'
  BY StepCalm
<1> QED BY <1>1, <1>2, <1>3, InitIInv, InitOnce, InitCalm, PTL DEF Spec, NoneRemoved

\* In a calm pool, until the manager removes a worker, no job is used after it was
\* deleted, however many jobs, slots and threads there are: not by the worker that
\* reads the slot twice without its lock (lines 123 and 125), nor by the client that
\* clears the slot (lines 380 and 403).
THEOREM JobsUsedWhileAlive == ASSUME Calm PROVE Spec /\ NoneRemoved => []NoUseAfterFree
<1>1. IInv /\ CalmInv => NoUseAfterFree
  BY DEF CalmInv, AtWork, Pending, Handed, Chosen, Storing, NoUseAfterFree
<1> QED BY <1>1, CalmInvariance, PTL

\* In a calm pool, until the manager removes a worker, no job is thrown away: what line
\* 126, 381 or 404 deletes has run.  (Line 556, in a removal, may delete one that has not.)
THEOREM NoJobDiscarded == ASSUME Calm PROVE Spec /\ NoneRemoved => []DeletedAfterRun
<1>1. CalmInv => DeletedAfterRun
  BY DEF CalmInv
<1> QED BY <1>1, CalmInvariance, PTL

\* In a calm pool, until the manager removes a worker, the signal of line 386 or 409 is
\* never lost: an accepted job that has not run is in the slot of a worker that is awake.
THEOREM JobsReachWorkers == ASSUME Calm PROVE Spec /\ NoneRemoved => []PendingHasWorker
<1>1. CalmInv => PendingHasWorker
  BY DEF CalmInv
<1> QED BY <1>1, CalmInvariance, PTL

\* A pool whose smallest size is its largest never removes a worker: delete_thread()
\* returns at line 497.
LEMMA FixedPoolKeepsAll == ASSUME min_num = max_num PROVE Spec => NoneRemoved
<1>1. IInv => ~Cancel
  BY PoolAssumption DEF IInv, TypeOK, SizeInv, PoolSize, Cancel, ManagerGoes
<1> QED BY <1>1, Invariance, PTL DEF NoneRemoved

\* So in such a pool, if it is calm, all of this holds for ever, however often the
\* manager looks at it: test_thread_pool started with min_num = max_num (main.cpp:173-177).
THEOREM FixedPool ==
    ASSUME Calm, min_num = max_num
    PROVE  Spec => [](RunAtMostOnce /\ NoUseAfterFree /\ DeletedAfterRun /\ PendingHasWorker)
<1>1. Spec => NoneRemoved
  BY FixedPoolKeepsAll
<1> QED
  BY <1>1, ExecutedOnce, JobsUsedWhileAlive, NoJobDiscarded, JobsReachWorkers, PTL
===============================================================================
