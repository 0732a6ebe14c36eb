# CppFramework in TLA+

TLA+ models of the concurrent core of CppFramework: its message queues, event
tasks and their manager, the state machine of a task, the task pool, the
background worker, the event flag, the timer and the subprocess. TLC checks each
on a small instance; TLAPS proves every safety invariant of theirs for every
value of the constants.

Source paths below are relative to `src/`.

## 1. The system

CppFramework is a C++ library of building blocks for message-driven programs
on Linux: threads that own a queue, pools, timers, synchronisation, and a
subprocess API. It has no process-wide state; a program composes the parts.

| Component | State it keeps | Operations | Interacts with |
|---|---|---|---|
| `IMessageQueue` (`include/Message/IMessageQueue.hpp`) | none, an interface | send, receive, timed_receive, clear, is_empty, count | implemented by the next two, used by event tasks |
| `SynchronizedDeque` (`include/Message/SynchronizedDeque.hpp`) | `queue_`, `mutex_`, `condition_` | as above | any threads |
| `PosixMessageQueue` (`include/Message/PosixMessageQueue.hpp`) | a descriptor of a kernel queue, its `O_NONBLOCK` flag; the queue's name | as above, creation, attachment, unlink | the kernel; other objects and processes with the name |
| Event task (`include/Task/EventTaskBase.hpp`) | the queue, `thread_`, `stopped_`, a promise per call | start, stop, send_event, rpc_event; the main loop | clients through the queue and the promises; handlers and callbacks run in its thread |
| State machine task (`include/Task/StateMachine.hpp`, `StatementTask.hpp`, `MessageEventAggregator.hpp`) | the table, the atomic `current_` | on/add (before the start), set_state, publish, state_changed | the aggregator of an event task; other threads set the state |
| `EventTaskManager` (`include/Task/EventTaskManager.hpp`) | a map of tasks, a shared mutex | register, unregister, send_event, rpc_event, stop | forwards to tasks with the lock held |
| `EventRequest` (`include/Task/EventRequest.hpp`) | a payload of any type | copy, assign, get | travels in the messages |
| `TaskPool` (`lib/Task/TaskPool.cpp`) | `tasks_`, `workers_`, `stop_`, `mutex_`, `condition_` | enqueue, clear_waiting_tasks, stop; the workers | clients; tasks that enqueue tasks |
| `BackGroundWorker` (`lib/Task/BackGroundWorker.cpp`) | `running_`, `stop_`, `cancellation_pending_`, a thread | run_task_async, cancel_async, is_busy, destructor; the loop | clients, the task and its handler |
| `EventFlag` (`lib/Sync/EventFlag.cpp`) | `pattern_`, `mutex_`, `condition_` | wait, timed_wait, set | any threads |
| `Timer` (`lib/Timer/Timer.cpp`) | `active_`, `restart_`, `event_handlers_`, `thread_` | start, stop, wait_for_stop, auto_restart, add_listener; the thread | listeners run in its thread |
| `Process` (`lib/SubProcess/Process.cpp`) | `id_`, `has_exited_`; two pipes and a detached thread per child | start, start_async, kill, move; destructor | the child process, the kernel |
| Launchers, exceptions, enum and property templates, utilities | values only | | |

What is hard about it, and what makes each part correct:

* **Queues.** Wake-ups, deadlines and `clear()` race for the same messages: a
  message must be received once, in order, or dropped by a clear, and no
  receiver may sleep beside one. The POSIX queue adds a bounded kernel queue,
  a flag that belongs to a descriptor that several threads use, a deadline
  computed in seconds and nanoseconds, and a name that outlives processes: it
  must be gone when its owners are, and an owner must get a queue of its own.
* **Event task.** Clients are ordered only by the queue. `stop()` is itself a
  message, so everything in front of it is processed and nothing behind it;
  several clients may stop the task at once and only one may join; an answer
  must reach its own caller, also after another caller's timeout, and when a
  handler throws.
* **State machine.** `current_` is read, read again, stored and reported in
  separate steps, around callbacks of any length.
* **Task pool.** `stop()` must drain the pool, but takes no mutex, and the
  empty `std::function` stands for "no task".
* **Background worker.** The request and its cancellation are taken back
  outside the mutex, one after the other; `stop_` is a plain `bool`.
* **Event flag.** The notification comes after the mutex is released, and an
  AND match can be there and gone before the waiter runs.
* **Timer.** The thread is replaced by the next start, while an old one may
  still be asleep.
* **Process.** Two pipes of bounded room are read one after the other while the
  child writes as it likes; the collecting thread, kill() and the destructor
  compete for the one wait() that reaps the child; one `has_exited_` serves
  however many children the object starts.
* **Manager.** rpc_event() waits for a handler with the shared lock held, and
  unregister_task() may join a task's thread with the exclusive one; handlers
  call the manager, too. A task must live while it is used, and nobody may wait
  in a circle as long as the callers keep to rules that nowhere stand in the code.

`PROJECT.json` lists the hazards one by one, each at its line.

## 2. Modules

| Module | Models | Form |
|---|---|---|
| `FifoQueue` | the promise of `IMessageQueue`: no mutex, no wait set | abstract specification |
| `SynchronizedDeque` | the class of the same name; implements `FifoQueue` | detailed specification |
| `PosixMessageQueue` | the calls of `PosixMessageQueue<T>` and the kernel's queue; implements `FifoQueue` | detailed specification |
| `PosixQueueName` | its constructors and destructor, the name, processes that crash | detailed specification |
| `EventTask` | `EventTaskBase` and its clients; composes `FifoQueue` as its queue | detailed specification |
| `EventTaskManager` | `EventTaskManager`, its clients, the tasks' threads and their handlers' calls | detailed specification |
| `StateMachine` | `StateMachine`, `MessageEventAggregator`, `StatementTask::set_state` | detailed specification |
| `TaskPool`, `EventFlag`, `BackGroundWorker`, `Timer`, `Process` | the classes of those names | detailed specifications |
| `MCPosixMessageQueue`, `MCPosixQueueName`, `MCEventTaskManager`, `MCStateMachine` | what TLC needs as constants: who uses which object, which process it is in, what is registered at the start, the table | model checking |
| `FlagTimerWorker_proofs` | theorems of `EventFlag`, `Timer` and `BackGroundWorker` | proofs |
| `PosixMessageQueue_proofs` | theorems of `PosixMessageQueue` and `PosixQueueName` | proofs |
| the other `*_proofs` | theorems of the module they are named for | proofs |

Modules whose theorems share a proof module keep their names apart: `Timer`'s
initial predicate is `TimerInit`, its type invariant `TimerTypeOK`, and so in
`BackGroundWorker` (`Worker...`) and `PosixQueueName` (`Name...`).

`EventTask` uses the *abstract* queue: its `queue`, `sent`, `delivered` and
`waiting` are changed by `FifoQueue`'s actions only, with the main thread as the
one receiver. That this stands for the real queue is what the refinement of
`FifoQueue` by `SynchronizedDeque` is for.

### How state and steps correspond to the code

A **critical section is one step**: what a method does between locking and
unlocking cannot be seen halfway. `condition_variable::wait` releases the mutex
and joins the wait set atomically, so "predicate false, blocked" is one step
when all who change the predicate hold the mutex. Where the code leaves the
mutex out, the step is split: `TaskPool::stop()` (`stop_store`, `stop_notify`)
and therefore a worker's `Decide` and `Block`; `EventFlag::set()` (`set`,
`notify`); `on_task_completed()` (`reset("reset1")`, `reset("reset2")`); and every access to
an atomic by the state machine and the timer. A blocked thread that is woken goes back to evaluating
its predicate, in a step of its own, so others can get in between. Wake-ups may
be spurious.

* `SynchronizedDeque`: `receive(c, t)` enters receive() or timed_receive();
  `get_front` and `Block` are the two outcomes of the predicate, `Expire` and
  `GiveUp` the deadline and the last look at the queue that
  `wait_for(lock, time, predicate)` takes.
* `PosixMessageQueue`: each system call is a step, or enters a waiting position
  in the kernel. `clear` sets `O_NONBLOCK` and saves the flag it found, `drain`
  is the mq_receive loop, `restore` the RAII guard. `to_abs_timespec` is the
  arithmetic of that function, with C++'s division towards zero and the second
  cut into a thousand parts; `invalid` is the EINVAL that a time out of range gets.
* `PosixQueueName`: `open_owner` and `open_attach` are the constructors, `close`
  and `unlink` the two system calls of the destructor, between which others may
  come; `crash` ends a process with all its objects. What is in a queue is only
  whether there is something. The kernel keeps a queue without a name as long as
  somebody has it open.
* `EventTask`: `posted[n]` and `response[n]` are the content and the promise of
  the n-th message. `stop` is the check of `is_running()`, `post_stop` the
  kStop message, `join` the end of the call. `process` is one round of the loop
  with every outcome: a handler may return either value or throw, and a command
  without a handler throws. kStart and kStop have the values 0 and 1 that user
  commands may have as well.
* `EventTaskManager`: a call waits in position "locking" and then does its work
  in one step, unless it waits with the lock: `rpc_event` then adds its thread to
  `readers` until `return` or `timeout`, and a `register_task` or
  `unregister_task` that drops a last reference becomes `writer` until `join`.
  A task is its thread, its queue up to kStop and the message in its handler;
  what `EventTask` says of order and of the single join is used here, not shown
  again. `held` are the shared pointers outside the map. `breaches` notes what
  callers did against the rules of section 6.
* `StateMachine`: `publish` reads the state and chooses the handler, `handle`
  returns from it, `transition` compares and decides, `load`, `store`, `report`
  are set_state(), `reported` is the return of the state_changed callback. Other
  threads call set_state(); so do, in the task's thread, on_start_ and the handler
  of an event, and, nested, the callback in whichever thread reports (`listening`).
  `resume` says which of these the task's thread goes back to.
* `TaskPool`: `wait_for_new_task` takes the front, or the empty function when
  the deque is empty and stop_ is set; `dispatch` is the loop's decision on it.
  `owed` are the tasks enqueued before `stop()` stored stop_, or by a task.
* `EventFlag`: a pattern is the set of its bits that are 1.
* `BackGroundWorker`: `Readable` are the values that the unsynchronised read of
  `stop_` may return: the one seen under the mutex or a later one.
* `Process`: the n-th child forked is its number. `next[n]` is what the child
  does next, chosen ahead, so that a write into a full pipe can wait. `read` and
  `read_pipe_end` are the loop of read_pipe for the one stream and then the
  other, `wait4`, `store` and `set_value` the rest of the detached thread.
  `term`, `poll`, `deadline`, `sigkill` and `reap` are kill(), the last two also
  the destructor. `get` waits for the last child started; `start()` is
  start_async() and get(). `move` hands `id_` and `has_exited_` to another object;
  the threads of the children started before (`moved`) store to the old one.
* `Timer`: one owner thread calls start() and wait_for_stop(); the other
  methods come from any thread at any time.

Messages, tasks and states are stamps or model values. History variables
(marked so where they are declared) record what was sent, received, cleared, executed
or reported; no guard of a modelled step reads them except for the bounds, and
`PosixMessageQueue`'s `accept` for its number of messages.

Definitions whose comment starts with "Slip" are variants of the definition
they precede with a plausible mistake in it. They are part of no specification;
substituted for the right one, each makes TLC report the property it belongs to.

## 3. The runs

| Run | Instance | Properties |
|---|---|---|
| `deque` | 3 receivers, 3 messages | `NoMissedMessage`; refinement of `FifoQueue` (order and conservation included) with its liveness |
| `posix` | 2 objects of one name, 2 senders, 1 receiver, 3 clearers (2 on one object), capacity 2, 3 messages, timeouts of 1400 and -500 ms | `TypeOK`, `Conserved`, `AttributesPutBack`, `WaitsAsLong`, `ClearReturns`; refinement of `FifoQueue` |
| `queue_name` | 3 objects, 2 of them in one process, 2 sizes | `NameHasOwner`, `OwnerHasNewQueue` |
| `task` | 2 clients, commands 0 (no handler) and 1, 3 calls and one kStop per client | `InOrder`, `StopIsLast`, `JoinedOnce`, `AnswersMatch`, `BehindStopNeverAnswered`, `CallsBeforeStopReturn`, `StopJoins` |
| `manager` | 2 clients, 2 tasks whose handlers call, 2 names, 3 calls | `UsedTasksLive`, `DisciplinedNeverStuck`, `CallsReturn` |
| `pool` | 3 workers, 3 tasks, 1 empty function | `OnePlace`, `NoSleeperBesideTask`, `StopDrainsFunctions`, `OwedTasksRun` |
| `flag` | 2 bits, 2 waiters, 2 setters | `NoLostWakeup`, `MatchedWaiterReturns` |
| `worker` | the whole state space | `WorkerTypeOK`, `OneRunPerRequest`, `CancelReachesHandledTask`, `RequestRunsOrEnds` |
| `timer` | 2 listeners, any number of starts | `TimerTypeOK`, `NoThreadReplaced`, `OneLateRound`, `TimerGoesOn` |
| `machine` | 2 setters, 4 states (one not in the table), 2 commands, 4 calls | `TransitionsAreTheTables`, `Followed` |
| `process` | 2 children, pipes of one piece, 2 pieces of output each | `TypeOK`, `ResultComplete`, `ExitedIsReaped`, `CallsReturn` |
| `pool_stop_returns` | 1 worker, 1 task | `StopReturns`, violated: see section 6 |

A type invariant is listed where it says more than the types: at most
`mq_maxmsg` messages in the kernel, the listeners a round calls, why the worker's
thread ends, no result before a call returns. Section 5 lists the proofs of the
others.

### Bounds, and why they are enough

* *Threads.* The races here are between one thread that has evaluated a
  predicate, one that was woken for the same event and one that gets in first:
  three receivers and three workers have all three at once. The theorems of
  section 5 lift the limit for every safety property; `BackGroundWorker`,
  `Timer` and `Process` have only one owner anyway.
* *Messages* (`MaxSent`, `MaxTasks`, `MaxCalls`). Three messages have a first,
  a middle and a last; a message can be received, cleared and waiting at the
  same time. In the task, three calls and the kStops of both clients put calls
  before, between and behind two kStops. Four calls of set_state() and
  publish() let both setters act during a publication whose handler sets the
  state, too, or a callback call set_state() within a transition that others
  meet.
* *The manager.* A deadlock needs a wait for a handler, a wait for the lock and
  perhaps a second writer: two clients and two tasks, whose handlers each call,
  in three calls. The lock prefers readers or writers, as the implementation likes.
* *The name.* Two owners and an Attach object, or an owner of either process
  and one that crashes, are three objects. As many queues as objects can have
  open at once are enough, because one that nobody has open and that has no name
  is gone and its identity may be used again; which queue is which, and which of
  the two objects of one process, makes no difference (SYMMETRY; the run checks
  no liveness).
* *Timeouts* 1400 and -500, found at 0 or 600 thousandths of a second: with and
  without whole seconds, with and without the carry, and less than nothing.
* *Capacity* 2 with two senders: full and empty are both reached with others
  waiting.
* *Process*: a pipe of one piece and a child with two fill a pipe and still have
  something to write; two children are what shares `id_` and `has_exited_`.
* *MaxEmpty* 1: one empty function is enough for the wrong end of a worker.
* *MaxListeners* 2: one before and one after start().

### Deadlock

Deadlock is checked in `deque`, `flag`, `timer` and `queue_name`, where somebody
can always call again. The deadlocks of the manager's callers are no deadlock of
the model, which lets others go on: `Stuck` defines them. It is off where the system may really stop: a destroyed worker or process, a
stopped pool or task, and where a bound on calls ends the calling.

### Fairness

All liveness is under weak fairness of single threads: a thread that can go
on does. That is the operating system's scheduling; it needs no strong
fairness since nobody competes for a mutex across steps for ever. Added to it
are the assumptions that clocks advance (`Expire`, `timeout`, `wake`) and that
handlers, tasks and callbacks return. Nobody is obliged to call a method, and a spurious
wake-up is never obliged to happen. In `TaskPool` the thread that called stop()
goes on. In `Process` a child is a program that ends of itself, and its
thread and a call of the owner's go on. In `EventTaskManager` the lock is granted
to those who wait for it; since calls are bounded, weak fairness says no more
than that there is an end to waiting when no new callers come, and nothing about
a writer that new readers overtake for ever. In the deque no single receiver is promised a message, only that one of the
waiting ones gets it, as the notification of all promises no more.

## 4. The abstract queue and its implementations

`FifoQueue` hands each message to one waiting receiver in the order of the
sends. `SynchronizedDeque` implements it under `waiting <- {c : pc[c] # "out"}`:
blocking, waking, expiring and spurious wake-ups are stuttering steps; `send`
and `get_front` are `Send` and `Deliver`. TLC checks `ImplementsFifoQueue`, which includes
`WF(SomeDelivery)`, and the theorem `Implementation` proves the safety part for
any number of receivers and messages. `PosixMessageQueue` implements the same
abstract queue under the same mapping, but for the calls whose deadline is no
valid time, which are none of the abstract queue's: a message is sent when the kernel takes
it, and a failed call is one that gives up. The abstract `Clear` drops the
oldest messages, any number of them: the deque's `clear()` drops all at once,
the POSIX one a message at a time. The abstract `GiveUp` needs an empty queue and
does not say which receivers have a deadline. A theorem `Implementation` proves the safety
part for it, too: for any objects, threads, capacities and timeouts.

## 5. What is proved

The proofs assume what the modules' `ASSUME`s say of the constants: bounds
and capacities are naturals, timeouts are integers, a clock is somewhere in its second,
each thread uses one object and each object is in one process; workers, setters
and clients of an event task are finite sets (workers not empty); the table maps
its states to next states or marks; threads, names and queues are not
the value that stands for none of them. TLC evaluates these in every run. Every
invariant that a run checks is a theorem, and so are some that no run does.

| Theorem | States | By |
|---|---|---|
| `SynchronizedDeque_proofs`: `TypeCorrect`, `MessagesAreNoticed`, `OrderIsKept`, `MessagesAreConserved` | `TypeOK`, `NoMissedMessage`, `InOrder`, `Conserved` | each inductive with `TypeOK`; clearing is kept apart from order |
| `Implementation` | every behaviour of the deque is one of `Abstract!Safety` | initial states, then each action to its abstract action or a stutter |
| `EventTask_proofs`: `TypeCorrect`, `ProcessedInOrder`, `StopEndsTheLoop` | `TypeOK`, `InOrder`, `StopIsLast` | `LoopInv` |
| `OneJoin`, `OwnAnswers`, `NoAnswerBehindStop` | `JoinedOnce`, `AnswersMatch`, `BehindStopNeverAnswered` | `LoopInv`, `ClientInv` |
| `NoAnswerIsMissed` | `StillToCome`: who waits, waits for a message that is still to be processed, or is behind a kStop | `Answered`, `ClientInv` |
| `TaskPool_proofs`: `TypeCorrect`, `TasksAreNoticed`, `TasksHaveOnePlace` | `TypeOK`, `NoSleeperBesideTask`, `OnePlace` | `HandInv` |
| `StopDrainsThePool` | `StopDrainsFunctions` | `StopInv`, `HandInv`, `OnePlace` |
| `FlagTimerWorker_proofs`: `TypeCorrect`, `NoWakeupIsLost` | `TypeOK`, `NoLostWakeup` of `EventFlag` | inductive with `TypeOK` |
| `TimerTypesCorrect`, `ThreadsAreJoined`, `StopEndsTheRounds` | `TimerTypeOK`, `NoThreadReplaced`, `OneLateRound` | the three together are inductive |
| `WorkerTypesCorrect`, `OneRequestOneRun`, `CancellationsArrive` | `WorkerTypeOK`, `OneRunPerRequest`, `CancelReachesHandledTask` | `ResetInv` |
| `StateMachine_proofs`: `TypeCorrect`, `TransitionsFollowTheTable`, `ListenersCanFollow` | `TypeOK` and the two invariants of run `machine` | `CallInv`, `TransitionInv`, `FollowInv` |
| `EventTaskManager_proofs`: `TypeCorrect`, `RulesPreventDeadlock` | `TypeOK`, `DisciplinedNeverStuck` | `CallInv`, `WaitInv`, `LiveInv`, `RuleInv` |
| `OneAnswerPerWait` | `PromiseInv` and `OwedInv`: every rpc_event() that waits is owed one answer, and by the task it called | inductive with `WaitInv` |
| `TasksInUseLive` | `UsedTasksLive` | `UseInv`, `LiveInv`, `LastInv` |
| `PosixMessageQueue_proofs`: `TypeCorrect`, `DeadlinesAreRight` | `TypeOK`, `WaitsAsLong` | lemmas on `to_abs_timespec` |
| `MessagesAreConserved` | `Conserved`: waiting, received or dropped, once and in order | inductive with `TypeOK` |
| `AttributesArePutBack` | `AttributesPutBack` | `RestoreInv` |
| `Implementation` | every behaviour of the POSIX queue is one of `Abstract!Safety` | action by action |
| `NameTypesCorrect`, `NamesAreRemoved`, `OwnersCreate` | `NameTypeOK`, `NameHasOwner`, `OwnerHasNewQueue` | `OwnersInv` |
| `Process_proofs`: `TypeCorrect`, `ResultsAreComplete`, `NobodyIsLeft` | `TypeOK`, `ResultComplete`, `ExitedIsReaped` | `OwnerInv`, `OutputInv`, `EndInv` |

The strengthenings, and why they are needed:

* `LoopInv` (event task): while the main thread is inside receive(), it is
  running, not stopped, and holds nothing. Without it a delivery could
  overwrite a message in hand, or follow the stop.
* `ClientInv` (event task): each client inside a call has a message of its own,
  a kStop when the call is stop(); a settled promise belongs to a processed
  message; a client that joins had its kStop answered with `true`; after the
  join nobody is left with the message that ended the loop. Since only the
  first kStop is processed, `StopIsLast` gives that two joining clients are the
  same one.
* `Answered` (event task): processing settles the promise, if there is one, also
  when a handler throws. So a pending one is behind what was processed, and by
  `InOrder` in hand or in the queue; if the loop has ended, a kStop was processed
  before it. `CallsBeforeStopReturn` says that the loop then comes to it.
* `HandInv` (pool): a worker holds a task between taking it and finishing it
  and at no other time; otherwise finishing could lose one.
* `StopInv` (pool): a worker ends only when stop_ is set; with no empty
  function about, one that holds "no task" was told so by an empty deque; and
  while a task that is owed waits, some worker is *live*: ready, running, or
  holding another task, so it comes back to the deque. When all have ended, none is
  live, so nothing owed waits; nothing is in hand; by `OnePlace` the rest was
  executed or cleared. This is the argument that fails when an empty function
  is enqueued, and it needs no notification: that a worker asleep is woken at
  all is the other half, which `stop()` does not guarantee (section 6).
* `CallInv` (state machine): inside publish() the state that was current at
  its start is in the table and has an event for the command; what is about to
  be reported is in the table; who is in the callback is `listening`.
* `TransitionInv` (state machine): while nobody but publish() has stored a state
  since it looked (`disturbed`), the current state is the one it looked at up to
  its own store, also when its handler asked for a state the table lacks. So the
  state that set_state() loads is the one whose handler ran.
* `FollowInv` (state machine): as long as every store found nobody else in
  set_state() (`crossed`), the state loaded is the state replaced, at most one
  report is due at a time, and what the listener believes differs from the current
  state only while one is.
* The manager's four: `CallInv` says what is on record of a call, and that who
  registers a task has a pointer to it. `WaitInv`: who shares the lock is in
  rpc_event(), who waits for an answer shares it and waits for the task that is
  registered, and nobody waits in a manager that is being destroyed. `LiveInv`:
  unless somebody stopped a task directly, one that has or will come to a kStop
  has no reference left; so nobody waits for the answer of a task that has ended.
  `RuleInv`: while the rules are kept, nobody has the lock alone across a wait,
  and a task's handler neither owns nor waits behind an owner, and waits only for
  tasks below its own. The argument: take a set of threads that all wait for one
  of the set. If a task is in it, the *least* one can only wait for a lower one,
  which is not in the set. So only clients are; one that waits for an answer or
  joins waits for a task; so all wait for the lock, which readers in the set
  would hold, but those wait for an answer.
* `PromiseInv` and `OwedInv` (manager): an event that carries a promise, in a
  queue or in a task's hands, carries it to a thread that waits for that task,
  and no other event there carries one to the same thread; and every thread that waits has one.
  A timeout gives the promise up (`Disown`), which is why what the task does later can reach
  no other call; and a task ends at a kStop with nothing behind it that
  somebody waits for, because by `WaitInv` who waits keeps the task registered.
* `LastInv` (manager): unless somebody stops a task directly, a kStop is the last
  thing in its queue, and a task that has ended has an empty one: the kStop is
  sent with the last pointer gone, and who has no pointer sends nothing more.
  With `LiveInv` and `UseInv` (who shares the lock is exactly who is in
  rpc_event(), and the name it called is still the task's) this is `UsedTasksLive`.
* `OwnersInv` (queue name): where owners have met no other there is at most one,
  and only owners are on record for having found messages, or are between the two
  system calls of the destructor. So the unlink of one cannot take the name from another.
* `Conserved` (POSIX queue) is inductive because it speaks of order: what is
  in the queue is in the order of the sends and later than all that was received,
  so what is taken next is not taken again.
* `RestoreInv` (POSIX queue): on an object where no two clear() have met there is
  one at most, and it has saved a flag that says "wait". Without the first a
  clear() could end while another needs the flag, without the second it could put
  back the flag of another.
* The deadline (POSIX queue): the lemma `Division` relates C++'s division and
  remainder, which go towards zero, to those of TLA+, and `Deadline` adds the carry.
  A negative timeout leaves a negative tv_nsec or a valid time in the past.
* `TimerInv`: late rounds stay at one because the thread is joined before
  `active_` is set again, and it is joined because no step replaces it.
* `ResetInv` (background worker): what `running_` says between the two stores by
  which the thread takes the request back. With a handler `running_` goes last, so
  no new request comes between them; without one it goes first, and a new one may
  come, whose cancellation the second store then wipes out (section 6).
* `OwnerInv`, `OutputInv`, `EndInv` (process): a call that goes for a child has
  recorded that (`asked`); a collector that is past a stream has found it empty
  when nobody could write to it any more, and a child writes only to streams that are
  redirected; a child that is reaped was reaped by its collector, or by somebody
  who is on record. So what is ready is complete, and only `asked` excuses another status.

## 6. Where the code and its promises part

One run ends with a counterexample.

* `pool_stop_returns`: `TaskPool::stop()` stores `stop_` and notifies without
  the mutex (`lib/Task/TaskPool.cpp:29-30`). A worker that has found the
  predicate false and has not yet joined the wait set misses both; it blocks and
  the join never returns. `tests/TaskTest/TaskPoolTest.cpp:39-41` expects
  stop() to return with the tasks run.
Other places show in the condition of a property that a run checks. The property
fails without its condition:

* without a task_completed handler `running_` is reset before
  `cancellation_pending_` (`lib/Task/BackGroundWorker.cpp:80-81`), with one it is
  the other way round. Without one, a request and its cancellation that fall
  between lose the cancellation, which no test covers.
  `CancelReachesHandledTask` is about workers with a handler;
* set_state() loads, stores and reports in three steps
  (`include/Task/StateMachine.hpp:62-68`), and so does the transition of publish(),
  after a comparison (84-88). Where a store falls inside another thread's
  set_state(), two reports may come in the other order than their stores, the last
  one for a state that is not current any more. `Followed` is about histories without
  that; `TransitionsAreTheTables` about publications during which nobody else stored a state;
* a call queued behind the first kStop is never answered
  (`include/Task/EventTaskBase.hpp:168-175`), and that includes the stop() of a
  client that found the task still running. `BehindStopNeverAnswered` says so;
  `CallsBeforeStopReturn` is about the calls before, and by `StopJoins` the thread
  is joined all the same, by the client whose kStop came first;
* stdout is read to its end before stderr (`lib/SubProcess/Process.cpp:204-205`).
  A child with both redirected that fills the pipe of stderr first waits for the
  thread, the thread for the child, and start() for the thread, where
  `include/SubProcess/Process.hpp:40` says that it waits for the end and returns
  the result. Only kill() or the destructor, from another thread, ends this;
  `CallsReturn` is about every other redirection;
* `EventTaskManager` is thread-safe, as its comment says
  (`include/Task/EventTaskManager.hpp:24`), in what it does to its map
  (`UsedTasksLive`). Its callers still deadlock where a handler registers or
  unregisters, calls at all while a writer waits on a lock that prefers writers,
  or waits for its own task or one that waits for it; where the last reference of
  a task is left to register_task() or unregister_task(), which join its thread
  with the lock held while its handler may wait for that lock; and where a task is
  stopped directly while somebody calls it. `DisciplinedNeverStuck` states these
  rules, and `CallsReturn` that everybody else returns;
* an Owner is said to create its queue (`include/Message/PosixMessageQueue.hpp:30`);
  `O_CREAT` without `O_EXCL` opens the queue that a crashed or another owner has
  there, with its messages and its size, and the first of two owners to be
  destroyed takes the name from the other. `OwnerHasNewQueue` and `NameHasOwner`
  are about owners alone with their name and names without a crash;
* timed_receive() with a negative timeout may get a time that mq_timedreceive()
  refuses (EINVAL), and throw even where there is a message
  (`include/Message/PosixMessageQueue.hpp:51-56`): `WaitsAsLong` promises a valid
  time for the others, and the abstract queue does not count such a call;
* an empty `std::function` may be enqueued, and the worker that takes it with
  `stop_` set ends (`lib/Task/TaskPool.cpp:67`): stop() may then return over tasks
  that were enqueued in time. `StopDrainsFunctions` and `OwedTasksRun` are about
  the executions without one;
* two overlapping clear() calls on one `PosixMessageQueue`: the second saves
  `O_NONBLOCK` as the flag to restore, so the descriptor may stay non-blocking
  (`include/Message/PosixMessageQueue.hpp:151` says that the original attributes
  are always put back), or lose the flag while the other still drains, which then
  waits for a message. `AttributesPutBack` and `ClearReturns` are about the objects
  on which that has not happened (`overlapped`);
* `has_exited_` is never reset (`lib/SubProcess/Process.cpp:131`): a second child
  of the same object is neither killed nor reaped by kill() and the destructor
  once the first has exited. `ExitedIsReaped` is about objects that have started one.

## 7. What is only model-checked

Liveness under fairness, in every module, which is beyond the proof system:
`ClearReturns`, `CallsBeforeStopReturn`, `StopJoins`, `CallsReturn` of the manager
and of the process, `OwedTasksRun`, `MatchedWaiterReturns`, `RequestRunsOrEnds`,
`TimerGoesOn`, and the fairness in `ImplementsFifoQueue`, for both queues.

The runs assume of the manager's callers that handlers keep no shared pointers,
so they neither register nor get a task; that one client at a time stops a task
directly; and that nobody enters the manager once its destructor has begun.

## 8. What is not modelled, and the plan

What could come next: that `EventTask` and the manager's tasks, which the manager
models by what `EventTask` shows of them, are related by a refinement, and that
callers who keep to the manager's rules always have somebody who can go on.

Left out for good: the launchers (they build an argument vector and call
exec), exceptions and their stack traces, the property and enum templates
(wrappers of one value, without callbacks of their own), `EventRequest` (a value that one thread
builds and moves into a message; that copy assignment from a request without
payload keeps the old one, `include/Task/EventRequest.hpp:59`, is one
assignment, and no second step depends on it), `MessageQueueFactory` (constructs a deque). Within the models: the texts of exceptions, `count()` and the other
readers that change nothing, `running_tasks_` (the number of workers inside a
task), the progress and argument objects of the background worker's events,
durations (a deadline may pass at any time), timeouts whose nanoseconds do not fit 64 bits (`include/Message/PosixMessageQueue.hpp:52`,
beyond some 292 years), on_start_ and on_finish_ callbacks of a task that call its
manager (one that does while somebody joins the task's thread with the lock held would be one
more deadlock), system calls that a signal interrupts (`lib/SubProcess/Process.cpp:25,58,168,217`:
a read() that fails with EINTR would end the output early, a wait leave the child unreaped; the
library installs no signal handler, a program that does without SA_RESTART meets them),
in `Process` the move assignment over an object whose child still runs (it is neither killed nor reaped), the reuse of a pid, a pipe kept open by
a grandchild, and a store of the collecting thread into an object that is gone (the
thread's step is there, what it does to the memory is not), and calls whose first step is
already outside the program's own use: a task that stops or calls itself from its handler,
two threads that call `TaskPool::stop()` or `Timer::start()` on one object at once.
