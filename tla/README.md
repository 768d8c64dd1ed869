# Formal models of class_lib

TLA+ models, model-checked with TLC and in part proved with TLAPS, of
`class_lib`: the thread pool, the timer manager, the circle buffer, the sockets,
the list, the cipher and the file splitter, and the programs of the repository
that drive them. The models follow the POSIX branch of the code; `WIN32` sections
are not modelled.

Line numbers refer to the files under `src/`.

## 1. The system

| Component | State it keeps | Operations | Interaction |
|---|---|---|---|
| `class_lib/thread_pool` | `cur_th_num`, the array `thread_info` (flag, job, id, mutex and condition per slot), `tp_lock` | `init`, `process_job`, `add_thread`, `delete_thread`, `get_tp_status`; the loops of the workers and of the manager | clients, workers and one manager thread share the array; a slot's flag is read and written under its mutex, except by the manager, the job pointer under no lock |
| `class_lib/timer` | three request lists, the set `m_timerList`, the `Timer` objects | `startTimer`, `stopTimer`, `killTimer`, destructor; the loop of the manager | clients leave requests, the manager drains them every 10 ms, deletes timers and clears `m_timer` in the client's object |
| `class_lib/circlebuffer.h` | ring array, read and write index, counter, one lock, two conditions | `push`, `pop`, waits with and without a time-out | `test_circlebuff`: one producer, one consumer |
| `test_thread_2thread_commu_close` | status, message list | `AddMessage`, `Quit`, `run` | main thread and sub thread agree who deletes the object |
| `test_thread_waitcond` | a list, one condition | `push`, `pop`, `poP` | one producer, several waiting threads |
| `class_lib/thread_class` | thread handle, recursive mutex, condition | `start`, `lock`, `Wait`, `WakeUp` | used by all of the above |
| `class_lib/socket_class` | a file descriptor | `Send`, `Recv`, `SendBytes`, `RecvBytes`, `Connect`, `Accept`, `Close`, UDP variants | loops over partial `send()` and `recv()`; used by the socket programs |
| `socket_server`, `socket_client` | a flag polled by a sending thread, a descriptor number | receive a framed message, acknowledge it | main thread and sending thread share the flag and the descriptor; the client waits for the answer |
| `test_socket_tcp_server`, `_client` | the files of both sides, the bytes left | PUT and GET of a file in chunks | a thread for each connection, which ends after one message |
| `test_socket_udp`, `_client` | header, file, bytes left | a file in datagrams | one way, no acknowledgements |
| `class_lib/list.h` | two chains of pointers, their ends, a counter | pushes, pops, `at`, `erase`, `clear` | used by `Analysis` |
| `class_lib/crypto` | positions in the current and the previous block | `TEncrypt`, `TDecrypt` | the TCP file transfer |
| `class_lib/analysis` | records and members found so far | `analysis`, `getData` | `parse_file` |
| `string_class`, `template_modern.h`, `copy_move_cons.h`, `filesystem`, `log.h`, `byte_order.h` | data of one thread | sequential operations | none |

What makes each hard, and what makes it correct:

- *Pool.* A signal can be lost because a worker waits without testing anything;
  `cur_th_num` is changed under different locks or none; a job pointer is read,
  executed, deleted and cleared without a lock while clients replace it; the
  manager cancels threads that hold mutexes. Correct means: indices and size in
  bounds, every accepted job executed once and deleted only afterwards, calls
  return.
- *Timer.* The order of calls is not the order of the lists; objects and timers
  are destroyed while the manager works, and addresses are reused. Correct means:
  nothing freed is ticked, the last call decides, destructors return.
- *Circle buffer.* Wrap-around, full against empty, waits that are not loops, a
  wait that times out. Correct means: a bounded FIFO queue, no lost wake-up.
- *Quit handshake.* Either thread may be the one to delete the object; `Quit`
  gives up after a number of rounds. Correct means: deleted once, by a thread
  that is the last to use it.
- *Repertory.* One signal stands for four items and several sleepers. Correct
  means: nobody takes from an empty list, no item waits among sleepers only.
- *Sockets.* Any call may transfer a part of what was asked, and the peer may close
  or die anywhere. Correct means: a call that succeeds has moved exactly what it
  was given, in order.
- *Acknowledging server.* One flag means "acknowledge" and "the connection is
  closed", it is read and cleared in two steps, and descriptor numbers are used
  again. Correct means: one acknowledgement for each message, none lost, and every
  sending thread ends.
- *File transfer.* Both sides count the bytes on their own, a put returns before
  anything was read, several connections may use one file. Correct means: exact
  copies, nobody waits for ever.
- *Datagrams.* Loss, repetition, reordering, truncation. Correct means: no buffer is
  overrun, and an undisturbed stream gives the file.
- *List, cipher, splitter.* Pointers and indices at ends and boundaries. Correct
  means: a sequence; the inverse; nothing lost between two separators.

## 2. The modules

| Module | Models | Proofs |
|---|---|---|
| `ThreadPool`, `MCThreadPool` | `class_lib/thread_pool`, driven as in `test_thread_pool` | `ThreadPoolProofs` |
| `Timer` | `class_lib/timer`, driven as in `test_timer` | `TimerProofs` |
| `CircleBuff` (implements `Fifo`) | `class_lib/circlebuffer.h` with `test_circlebuff` | `CircleBuffProofs` |
| `Clock` | the time-out of `WaitCondition::Wait` (`thread_class.cpp:160-185`) and the length of a period of `TimerManager` (`timer.cpp:175-192`) | end of `TimerProofs` |
| `SubThread` | `test_thread_2thread_commu_close` | `SubThreadProofs` |
| `DataRepertory` | `test_thread_waitcond` | `DataRepertoryProofs` |
| `SocketStream` | class `Socket` of `class_lib/socket_class` over TCP | |
| `AckServer` (extends `SocketStream`, implements `RequestReply`) | `socket_server` with `socket_client` | `AckServerProofs` |
| `FileTransfer` (extends `SocketStream`) | `test_socket_tcp_server` with `test_socket_tcp_client` | `FileTransferProofs` |
| `UdpTransfer` | class `UdpSocket`, `test_socket_udp` with `test_socket_udp_client` | `LibraryProofs` |
| `LinkedList` (implements `Deque`) | `class_lib/list.h` | `LibraryProofs` |
| `Crypto` | `class_lib/crypto` | |
| `Analysis` | `class_lib/analysis` | |
| `MCLibrary` | driver of the last four | |

**Grain of atomicity.** A step is one access to shared data. A region between a
lock and its unlock is one step when everything that conflicts with it holds the
same lock; such a step is enabled while the lock can be taken. `pthread_cond_wait`
splits its region: the thread is "waiting", then "woken" until it has the mutex
again. Signals wake one waiting thread or are lost. Operators named as variants
of an action (`ParkBusy`, `PopNext`, ...) are no part of any specification; each
is the action with one bug, and serves to show that the property it is paired
with in `PROJECT.json` can fail.

**ThreadPool.** `thread_info`, `cur_th_num` and `tp_lock` are the code's;
`worker[w]`, `client[c]` and `manager` hold each thread's place and locals. The
workers' loop is `Lookup`, `Park`, `Return`, `Check`, `Process`, `Finish`,
`Forget`: the pointer is read in `Check`, again in `Process` and again in
`Finish`, as the code does. `process_job` is `Call`, `Scan`, `Reserve` or `Skip`,
`Clear`, `Assign`, `Signal`, and for a new worker `LockPool`, `OpenSlot`,
`LoadSize`, `StoreSize`, `Create`, `StoreId`, `PickLast`. The manager is
`WakeManager` .. `StoreLast`. `cur_th_num++` and `cur_th_num--` are a load and a
store each, since they run under different locks. `malloc` leaves `is_busy` with
any value. A cancelled worker dies at a cancellation point; inside
`pthread_cond_wait` it first takes the mutex, and then holds it for ever
(`thread_lock = "dead"`). A failed `pthread_create` (`ThreadLimit`) leaves the
incremented `cur_th_num`, as in the code.

Three constants are assumptions on time. `TimelySleep`: the sleeps of 1 s after
`init` and of 100 ms in `add_thread` outlast the start of the workers they wait
for. `IdStoredFirst`: `pthread_create` stores the id before the new thread reads
it. `Manages`: the run is longer than `MANAGE_INTERVAL` (60 s).

**Timer.** Each phase of `process()` is one step, for it runs under the lock of
its list. `object[o]` tells where the client of object `o` is: `Construct`,
`Start` (allocation at any free address, or only a new interval), `Activate`,
`Stop`, `Destroy`, `Leave`. The countdown is left out: a tick may or may not call
`onTimer()`. `Spaced` is the assumption that a client leaves a manager period
between opposite requests for one object, as `test_timer/main.cpp:68-96` does.

**CircleBuff.** The ring, its indices and counter are the code's; `producer` and
`consumer` are the two loops of `test_circlebuff.cpp`. Messages are their
numbers; `delivered` and `dropped` record what became of them. The refinement
mapping to `Fifo` reads the contents of the ring, oldest first, as the queue.

**SubThread.** `m_list` is the number of messages. The object's existence is
`alive`; the steps that delete it are separate from the ones that decide to, since
the code deletes after it has released the lock. Threads may be late anywhere.

**DataRepertory.** `Take` is a return of `poP` or `pop` with an item, `Wait` a
wait, `Miss` what they do when another thread was faster.

**SocketStream.** A connection is two sequences of units in flight, a unit being a
field or some bytes of a text, and a flag that the kernel has reset it. A call is a
record `io[p]`: what is left to send or to receive, and what was received. One
round of a loop is one step: `SendSome` hands over any part of the rest that the
window takes, `RecvSome` gets any part of what is there and was asked for,
`RecvFails` and `SendFails` are the returns of -1. Closing with unread data resets
the connection. A second send after the peer has gone returns -1; that the signal
`SIGPIPE` ends a process that does not ignore it is left out (`Crash` and `Kill`
cover a process that ends there).

**AckServer.** `main`, `sender[c]` and `client[c]` are the three programs' places,
`flag` is `ThreadStatus::m_status`, `fd` the connection behind the server's
descriptor number, 0 when it is closed. Reading the flag (`SeeFlag`) and clearing it
(`TakeFlag`) are two steps, and so are closing the connection and setting the flag.
`Crash` ends the server anywhere, `Kill` a client. The mapping to `RequestReply`
tells whose turn it is from what is in flight, in the flag and in the places of the
threads. Nothing keeps the server from accepting the next client while a `SendThread`
is still running (see 5), and neither does the model: both then use one descriptor
number and one flag. `last` is the connection accepted last, for which `Spawn` starts
the thread. The history variable `crowded` collects the connections that were accepted
while an older `SendThread` was running. Of these only `AckArrives`
speaks; the other properties promise nothing to them, but to every other connection
that what happens to them does it no harm.

**FileTransfer.** `cl[u]` and `srv[k]` are the places and locals of the client's
command and of the `ClientThread` of connection `k`; `store` is the server's
directory. Every early return is an action: `CallFails`, `LocalError`,
`SrvCallFails`, `StoreError`, `RunFails`. History variables record the file a
transfer was to copy, which transfers overlapped on a file, and which puts returned.
The last `fwrite()` of a put and the `fclose()` after it are one step.

**UdpTransfer.** The receiver takes any datagram sent so far, any number of times:
loss, repetition and reordering at once. `intact` records that it has taken them as
they were sent. Sender and receiver end at any call that fails.

**LinkedList, Crypto, Analysis.** The list has a heap of elements and the code's
pointers; the mapping to `Deque` walks it from the front. The cipher works on bytes
of 3 bits, so that TLC can run it: shifts, rounds, chaining and padding are the
code's, the constants are cut to the shorter words. The splitter keeps the code's
`head` and `tail` as the arguments of a recursive function.

## 3. The runs

| Run | Instance | Shows |
|---|---|---|
| `pool_once` | 1 client, 4 jobs, 1..2 workers, timely, no manager | `NoUseAfterFree`, `DeletedAfterRun`, `PendingHasWorker`, `EveryJobRuns`: the pool as `test_thread_pool` uses it is correct until its manager first wakes, after a period of 60 s |
| `pool_managed` | 2 clients, 2 jobs, 1..2 workers, 3 threads, manager, any delay | `TypeOK`, `PoolSize`, `IndexInBounds`, `SizeInv` |
| `pool_races` | 2 clients, 2 jobs, any delay, spurious wake-ups, no manager | `RunAtMostOnce`, `CallReturns` |
| `pool_busy_cancelled` | 1 client, 2 jobs, 1..2 workers, manager | `BusyThreadSpared` is violated (see 5) |
| `timer_spaced` | 2 objects, 3 addresses, 3 requests per list | `TypeOK`, `NoDangling`, `LastCallWins`, `DestructorReturns` |
| `timer_burst` | 1 object, no spacing | `LastCallWins` is violated (see 5) |
| `circle_buff` | 3 slots, 8 messages, spurious wake-ups | `TypeOK`, `RingInv`, `NoLostWakeup`, refinement `IsFifo`, `EveryMessageSettled` |
| `subthread` | 4 rounds, 5 messages, any delay | `TypeOK`, `NoUseAfterFree`, `NoLostWakeup`, `DeletedAtLast` |
| `data_repertory` | 3 threads, 3 calls of `push`, spurious wake-ups | `TypeOK`, `NotAllAsleep`, `EveryItemTaken` |
| `ack_server` | 2 clients, messages of 3 units, buffer and window of 2 | `TypeOK`, `InFrame`, refinement `IsRequestReply`, `AckArrives`, `SenderEnds`; clients accepted while an older `SendThread` runs are part of the run, but only `AckArrives` speaks of them |
| `file_transfer` | 1 user, 2 connections, 1 name, files of 0 and 3 pieces, chunks of 2 | `TypeOK`, `InFrame`, `PutArrives`, `CopyExact`, `EveryoneReturns` |
| `library` | lists of 4 elements; files of 0 and 5 units in datagrams of 2; texts of up to 9 bytes; files of up to 6 characters | refinement `IsDeque`, `UdpExact`, `RoundTrip`, `AnalysisSplits` |

**Bounds.** *Pool:* two slots are enough for every race the code has between a
fixed and an added worker; a second client meets the first at each lock; three
threads let a slot be given a second worker after a removal; four jobs fill both
workers twice. *Timer:* three addresses for two objects let an address be reused
by the other object while old requests wait; three requests per list make
start-stop-start bursts. *Circle buffer:* eight messages go round three slots
more than twice, with both full and empty met at every index. *SubThread:* the 50
rounds differ only in being the first, a middle or the last one. *Repertory:*
three waiting threads and batches of four leave more and fewer items than threads.
*AckServer:* the second client finds whatever the first one left, or meets its
`SendThread`; a buffer smaller than the texts and a window smaller than a message make
every call partial. One length is enough, since the length is read from the header each
time; the theorems of `AckServerProofs` hold for all lengths, zero too. *File
transfer:* a file of three pieces takes a full chunk and a rest, and each of them
more than one `recv()`; the user's second command meets a connection that the server
has closed or is closing, and its second connection overlaps the thread of the
first, so two transfers of one file meet. *Library:* the four parts share a run, not
a state: `part` is chosen at the start and the other variables keep still. Four
elements have two in the middle; nine bytes of text cover all eight alignments, of
two and three blocks. All files of six characters hold up to two records that
answer to one name; those that begin with `a=,b=` go on for six more, which adds a
second record with both names.
Symmetry is used in `pool_managed` only, which has no liveness property and whose
clients and jobs are interchangeable. `CHECK_DEADLOCK FALSE` is set everywhere:
the bounded environments end, and the waits of a finished program are no error.

**Fairness.** Weak fairness of each thread's steps: the scheduler of the system
runs every thread that can run. Environment steps are never owed: spurious
wake-ups, a client's next request in `Timer`. Three further promises are the
programs': `process()` and `onTimer()` return, `test_thread_pool` offers a refused
job again (`main.cpp:135-160`), and the main thread calls `Quit()` in the end
(`main.cpp:41`). The timed wait of the producer ends because time passes. Users of
the file transfer owe nothing: the fairness is that of a command under way.

## 4. The proofs

The theorems, but for two about `Clock`, are of the form `Spec => []Inv` or
`Spec => AbstractSpec` by an inductive invariant checked with TLC first, with one
lemma or step per action. They hold for every value of the constants allowed by the
named assumptions, and by a hypothesis where one is written out (`ASSUME ... PROVE`).

- `ThreadPoolProofs`, in three parts, each resting on the one before.
  *Sizes.* From `PoolAssumption` (`1 <= min_num <= max_num`, enough
  threads for `init`): `TypeOK`, `PoolSize`, `IndexInBounds`. The size is not
  inductive alone: a client that stores may overwrite a store of the manager and
  the reverse. `SizeInv` adds what each thread knows of the value it loaded (a
  client below `max_num`, the manager above `min_num`), that the clients between
  lines 397 and 415 hold `tp_lock`, and that `tp_lock` has one holder. Then each
  store lands in bounds whatever it overwrites.
  *Once.* `ExecutedOnce`: `RunAtMostOnce` for any clients and delays until the
  manager first cancels a worker (`NoneRemoved`, line 546); that it counts and judges
  the pool is covered. `OnceInv`: a slot has one worker at most (`Placed`), a
  job is in one client's hands or in one slot (`Owned`), and an executed job is in
  its slot only while the worker that executed it is between lines 125 and 127
  (`Executed`).
  *Nothing lost.* `JobsUsedWhileAlive`, `NoJobDiscarded`, `JobsReachWorkers`:
  `NoUseAfterFree`, `DeletedAfterRun` and `PendingHasWorker` in a `Calm` pool (one
  client, sleeps that outlast the start of the threads, every thread created, no
  spurious wake-up), again as long as `NoneRemoved`; for any number of slots and jobs.
  `test_thread_pool` has such a pool, but it runs for ever (`main.cpp:185-199`) and its
  manager wakes every 60 s: the theorems cover it up to the first removal. `FixedPool`
  shows that for `min_num = max_num` there is none, so that all four promises hold
  without end. `CalmInv` says what a slot, its worker and the client know of
  each other: every slot in use has a worker (`Staffed`), a reserved slot is idle
  until it is signalled (`Handed`), and a worker that runs has a job that nobody
  else touches (`AtWork`). Section 5 tells what goes wrong without each condition.
- `CircleBuffProofs`. From `BuffAssumption` (at least one slot): `TypeOK`,
  `RingInv`, `NoLostWakeup`, and the refinement `Spec => IsFifo`. The two lemmas
  `PushAppends` and `PopTakesHead` say what `push` and `pop` do to the sequence of
  contents; each step of the threads is then a step of `Fifo` or a stutter.
- `SubThreadProofs`. `TypeOK`, `NoUseAfterFree` and `NoLostWakeup`. The invariant `Handover`
  says what `m_status` promises: "QUIT" is the thread's last word, "QUITFAILED" is
  `Quit`'s last word, and each may delete only after the other's.
- `DataRepertoryProofs`. `TypeOK` and `NotAllAsleep`, for any number of threads.
- `TimerProofs`. `TypeOK` for all clients, `NoDangling` and `LastCallWins` for those
  that are `Spaced`. An object and its timer point to each other as long as the timer
  exists, and a killed timer's object is in its destructor (`Owned`, `Killed`): this
  is why no timer is deleted twice. The manager knows live timers only because a
  killed one never waits to be activated (`Listed`), which is where `Spaced` is used.
  A stop request may outlive its timer, whose address `new` may hand out again; it
  does no harm because it is drained in the very next phase, before anything is
  activated (`Stale`). `Drained` says what a waiting request tells of the last one.
  Its end is about the operators of `Clock`. `WaitEndsInTime`: for
  every clock and waiting time the result is a valid `timespec` (`tv_nsec` below a
  second) that many milliseconds away; the carry is at most one second (`Carry`),
  since both of its terms are below a second (`MicrosBounded`). `PeriodsAddUp`: what
  `calculateDuration` returns is the time between two readings of the clock, with and
  without the borrow, also when the clock was set back. Integers are unbounded here:
  `int` milliseconds suffice for periods below 24 days.
- `AckServerProofs`. `TypeOK`, `InFrame` and the refinement `IsRequestReply` for any
  number of connections, overlapping or not, messages, buffer and window. `InFrame` alone
  is far from inductive: `AckInv` follows every unit of a message. What the server has received,
  what is on the wire and what the client has still to send are, in this order, the
  message (`MessageFramed`); the same is said of the acknowledgement (`Hearing`), and
  `Replying` says at which of the places one question can be. `Connected` is why
  no call fails while both sides live, `Serving` why one thread at most answers
  a connection that is not `crowded`: one that was accepted when every older `SendThread`
  had ended meets none later, so what such a thread still does concerns connections
  behind it (`Aside`, `Elsewhere`). For the refinement each step is shown to take
  one turn of `RequestReply` or none.
- `FileTransferProofs`. `TypeOK`, `InFrame`, `PutArrives` and `CopyExact` from
  `FileAssumption`: any number of users and connections, names and sizes of files,
  chunks, buffers and windows, whoever leaves, fails or is killed when. A file may have
  any number of pieces, so the units of a transfer cannot be listed as those of
  `AckServer` are. They are described by position: `Requests(F, type, nm)[i]` is the
  set of units that may be the `i`th of a command on file `F`, `Replies` the same for the
  answer to a get, and `Along(R, s, a)` says that the sequence `s` stands behind the
  first `a` of them. The invariant `Inv` has for each connection

  - *how far each side is*, by the place of its thread (`Begun`, `Sent`, `Taken`, `Given`);
  - *that the stream closes the gap* (`Request`, `Reply`): what one thread has received,
    what is on the wire and what the other has still to send are, in this order, the units
    between the two places. No property follows from less, since each step moves units
    from one of the three to the next and is correct only because of those before it;
  - *what the file is at that place* (`ServerFile`, `ClientFile`): the first `off` pieces
    are stored, the last ones are still with the client, and `Data` tells that those on the
    way are the ones between;
  - *who is there* (`ServerLink`, `ClientLink`, `ServerCalls`, `ClientCalls`): why a
    connection has one client that puts or gets first, and why a call fails only after the
    other side has left. `PutArrives` adds to `Request` that a put that returned has sent
    all of its file (`Whole`);
  - *who shares a file* (`Clash`): two transfers of one name, one of them a put, are both in
    `shared`, for which `CopyExact` promises nothing.

  Each `...Keeps` lemma is one action or a few that move alike. `CopyExact` is an action
  property: the last chunk of a put is the whole file because `off + left` is its length.
- `LibraryProofs`, the datagrams. `FileReceived`: `UdpExact` for any file and any sizes. The
  datagrams are pieces of one stream, the header and the file; `Cuts(at)` says that
  `at[i]` units of it stand before datagram `i`. A piece of the header never shares
  a datagram with the file, for `SendBytes` is called for each of them: that is why
  cutting off what exceeds the receiver's buffer costs nothing.
- `LibraryProofs`, the list. `ChainsAgree` and the refinement `ImplementsDeque`, for lists of
  any length. The invariant names the sequence `c` of addresses: the forward chain
  leads through it one way, the backward chain the other, and it covers the heap
  (`Holds`). Pushes append to `c`; `erase` in its four cases and the pops in their two do
  the same thing to the heap (`Relinked`), which takes one element out of `c`
  (`Closed`); `clear` finds all of it from the back (`WalkFromBack`). The walks are
  recursive functions; what they compute is proved by the least position at which
  they could be wrong (`Least`, `WalkIs`).

Only model-checked: every liveness property (the prover has no rule for
fairness here); `DeletedAtLast` of the handshake, a liveness property as well.
`RoundTrip` and `AnalysisSplits` stay with TLC: the cipher works with the bit
operations that the prover has no theory of, and the splitter is a recursive operator
over its input. All other properties of the passing runs are theorems.

## 5. What the models found

- `pool_busy_cancelled`: `delete_thread` (lines 502-546) reads `is_busy` without
  the slot's mutex, and a worker that has become busy since is cancelled. The comment
  of line 502 promises the opposite. In the run the manager judges the pool idle before
  the first job has a slot; the client adds a second worker; the manager chooses this
  worker's slot while it is idle; the client stores its job there and sets `is_busy`
  (lines 405-408); the manager cancels. A client that reserves an idle slot (373-378)
  can do the same, which takes a third job.
- `timer_burst`: start and stop within one period are applied in list order. The
  sequence of `test_timer/main.cpp:35-41`, which ends in `stopTimer`, leaves the
  timer running. That `main` is disabled by `#if 0`; it still shows what the calls are
  meant for.

Behaviours seen in other instances, with no document that says otherwise; they
are why the passing runs and the theorems have the assumptions they have:

- Without `TimelySleep` a signal sent before the worker waits is lost, the job
  stays in the slot, and the next client deletes it there (line 381) before it has
  run. An uninitialised `is_busy` (line 231) makes this possible at start.
- With two clients, the one that adds a worker releases `tp_lock` at line 401;
  another client may take the new slot before line 405, and line 404 deletes its
  job.
- A worker that wakes without a signal after a client has reserved its slot finds no
  job, waits again and sets the slot idle (lines 118-123): the next client may reserve
  it again and delete the job of the first.
- When `pthread_create` fails in `add_thread`, the slot it was for is counted all the
  same, without a worker; a job put into it is never run.
- With the manager, an overwritten update of `cur_th_num` puts two workers on one
  slot, and a job runs twice; a worker cancelled in `pthread_cond_wait` keeps the
  slot's mutex, and a client that scans it blocks.
- An object started and destroyed within one period leaves a freed timer in
  `m_timerList` (`timer.cpp:146-168`: deleted first, then activated).
- A thread that was woken but gets the mutex after `Quit` gave up sets "QUIT" over
  "QUITFAILED" (lines 88-92): the object is never deleted. `DeletedAtLast` names this
  case and shows that there is no other.
- A client that is accepted while an older `SendThread` runs (`crowded`) shares
  descriptor number and flag with it: the old thread may answer or close the new
  connection, or never end, since line 133 clears the flag it waits for. Nothing at line
  126 prevents this, and the `Sleep(50)` of line 183 is shorter than the 100 ms between
  two looks at the flag.
- A put on a connection the server has closed after the command before may return 0;
  the file is not stored.
- Two transfers of one file at a time, one of them a put, mix or shorten it.
- A `ClientThread` whose first receive fails is never deleted (`run` returns at line
  132 of the server without `delete this`).
- The manager may call `onTimer` of an object whose derived part is already destroyed,
  since only the base class destructor kills the timer (`timer.cpp:9-11`).

## 6. Not modelled, and the plan

Not modelled: the destructor of `ThreadPool` (no program calls it while the pool
is in use), the unlocked creation of the singletons (called first from `main`),
the countdown of `Timer::tick` (a tick may call `onTimer` or not), `WIN32` branches, `select()` with a time limit (every caller
waits for ever), broadcasts and socket options, the string class, the `boost_*` and
template examples, logging, file system wrappers, byte order macros. Of the
file server, a failure of `start()` (line 417: the connection is left unserved) and of
`fclose()` (line 338: a file that is too short) are left out; the code looks at neither.
The two
`test_cond_mutilthread` programs broadcast to threads that wait as those of
`DataRepertory` do, whose single signal is the harder case.

What could be added, in this order:

1. The pool with more than one client: which of `Calm`'s conditions each of the three
   theorems can do without.
2. The second and later commands on one connection of the file transfer. The server
   answers one command and closes, so `Request` and `Reply` speak of the first; of the
   others they say only that nothing is on the way back.
