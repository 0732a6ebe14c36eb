------------------------------- MODULE TaskPool -------------------------------
(***************************************************************************)
(* Framework::Task::TaskPool: worker threads that share a deque of tasks,  *)
(* a mutex, a condition variable and the atomic stop_.                     *)
(*                                                                         *)
(* enqueue() and clear_waiting_tasks() hold the mutex throughout, so each  *)
(* is one step.  stop() takes no mutex: it stores stop_ and notifies in    *)
(* two steps that fall anywhere, also between a worker's evaluation of the *)
(* predicate and its joining the wait set.  Those two are therefore steps  *)
(* of their own, and a worker between them ("deciding") holds the mutex.   *)
(*                                                                         *)
(* A task is its stamp, the n-th call of enqueue(); the empty              *)
(* std::function, which enqueue() accepts and wait_for_new_task() returns  *)
(* for "no task", is 0.                                                    *)
(***************************************************************************)
EXTENDS Naturals, Sequences, FiniteSets, Functions

CONSTANTS Workers,     \* the threads of workers_, `concurrency' of them
          MaxTasks,    \* bound on the number of tasks enqueued
          MaxEmpty     \* bound on the number of empty functions enqueued

ASSUME WorkersAssumption == Workers # {} /\ IsFiniteSet(Workers)
ASSUME MaxTasksAssumption == MaxTasks \in Nat
ASSUME MaxEmptyAssumption == MaxEmpty \in Nat

NoTask == 0

VARIABLES tasks,       \* tasks_
          stop_,
          pc,          \* where each worker is, see WorkerStates
          task,        \* the local `task' of each worker
          stopper,     \* where the thread that calls stop() is
          sent,        \* tasks enqueued (history)
          empties,     \* empty functions enqueued (history)
          executed,    \* the tasks that have run to their end (history)
          cleared,     \* the tasks dropped by clear_waiting_tasks() (history)
          owed         \* the tasks enqueued before stop(), or by a task (history)

workerVars == <<pc, task>>
history == <<sent, empties, executed, cleared, owed>>
vars == <<tasks, stop_, workerVars, stopper, history>>

(* "ready":    about to lock the mutex in wait_for_new_task();             *)
(* "deciding": the predicate was false, not yet in the wait set;           *)
(* "blocked":  in the wait set;                                            *)
(* "holding":  back from wait_for_new_task(), about to look at the task;   *)
(* "running":  inside task();                                              *)
(* "exited":   the thread's function has returned.                         *)
WorkerStates == {"ready", "deciding", "blocked", "holding", "running", "exited"}

Init ==
  /\ tasks = <<>>
  /\ stop_ = FALSE
  /\ pc = [w \in Workers |-> "ready"]
  /\ task = [w \in Workers |-> NoTask]
  /\ stopper = "out"
  /\ sent = 0
  /\ empties = 0
  /\ executed = {}
  /\ cleared = {}
  /\ owed = {}

Unlocked == \A w \in Workers : pc[w] # "deciding"

(* Slip: no notification. *)
NotifyNobody(p) == p

(* condition_.notify_all() *)
NotifyAll(p) == [w \in Workers |-> IF p[w] = "blocked" THEN "ready" ELSE p[w]]

-----------------------------------------------------------------------------
(* The methods. *)

(* enqueue(), called by a client or, `inside', by a task that is running. *)
enqueue(inside) ==
  /\ Unlocked
  /\ sent < MaxTasks
  /\ inside => \E w \in Workers : pc[w] = "running"
  /\ sent' = sent + 1
  /\ tasks' = Append(tasks, sent + 1)
  /\ pc' = NotifyAll(pc)
  /\ owed' = IF inside \/ ~stop_ THEN owed \cup {sent + 1} ELSE owed
  /\ UNCHANGED <<stop_, task, stopper, empties, executed, cleared>>

(* enqueue() of an empty std::function *)
enqueue_empty ==
  /\ Unlocked
  /\ empties < MaxEmpty
  /\ empties' = empties + 1
  /\ tasks' = Append(tasks, NoTask)
  /\ pc' = NotifyAll(pc)
  /\ UNCHANGED <<stop_, task, stopper, sent, executed, cleared, owed>>

clear_waiting_tasks ==
  /\ Unlocked
  /\ tasks # <<>>
  /\ tasks' = <<>>
  /\ cleared' = cleared \cup (Range(tasks) \ {NoTask})
  /\ UNCHANGED <<stop_, workerVars, stopper, sent, empties, executed, owed>>

stop_store ==
  /\ stopper = "out"
  /\ stop_' = TRUE
  /\ stopper' = "stored"
  /\ UNCHANGED <<tasks, workerVars, history>>

stop_notify ==
  /\ stopper = "stored"
  /\ pc' = NotifyAll(pc)
  /\ stopper' = "joining"
  /\ UNCHANGED <<tasks, stop_, task, history>>

(* Every worker has been joined and workers_ is empty: stop() returns, and *)
(* a later stop(), the destructor's for one, changes nothing.              *)
stop_join ==
  /\ stopper = "joining"
  /\ \A w \in Workers : pc[w] = "exited"
  /\ stopper' = "returned"
  /\ UNCHANGED <<tasks, stop_, workerVars, history>>

-----------------------------------------------------------------------------
(* A worker. *)

(* The predicate of the wait. *)
Wanted == tasks # <<>> \/ stop_

(* The predicate is false: the mutex is kept until the thread blocks. *)
Decide(w) ==
  /\ pc[w] = "ready"
  /\ Unlocked
  /\ ~Wanted
  /\ pc' = [pc EXCEPT ![w] = "deciding"]
  /\ UNCHANGED <<tasks, stop_, task, stopper, history>>

Block(w) ==
  /\ pc[w] = "deciding"
  /\ pc' = [pc EXCEPT ![w] = "blocked"]
  /\ UNCHANGED <<tasks, stop_, task, stopper, history>>

Spurious(w) ==
  /\ pc[w] = "blocked"
  /\ pc' = [pc EXCEPT ![w] = "ready"]
  /\ UNCHANGED <<tasks, stop_, task, stopper, history>>

(* Slip: no pop_front. *)
wait_for_new_task_NoPop(w) ==
  /\ pc[w] = "ready"
  /\ Unlocked
  /\ Wanted
  /\ task' = [task EXCEPT ![w] = IF tasks = <<>> THEN NoTask ELSE Head(tasks)]
  /\ pc' = [pc EXCEPT ![w] = "holding"]
  /\ UNCHANGED <<tasks, stop_, stopper, history>>

(* The predicate is true: the front of tasks_, or the empty function. *)
wait_for_new_task(w) ==
  /\ pc[w] = "ready"
  /\ Unlocked
  /\ Wanted
  /\ task' = [task EXCEPT ![w] = IF tasks = <<>> THEN NoTask ELSE Head(tasks)]
  /\ tasks' = IF tasks = <<>> THEN tasks ELSE Tail(tasks)
  /\ pc' = [pc EXCEPT ![w] = "holding"]
  /\ UNCHANGED <<stop_, stopper, history>>

(* Slip: stop_ ends the worker whatever it holds. *)
Dispatch_StopFirst(w) ==
  IF stop_ THEN "exited"
  ELSE IF task[w] = NoTask THEN "ready"
  ELSE "running"

(* What the loop makes of the task it holds. *)
Dispatch(w) ==
  IF stop_ /\ task[w] = NoTask THEN "exited"
  ELSE IF task[w] = NoTask THEN "ready"
  ELSE "running"

dispatch(w) ==
  /\ pc[w] = "holding"
  /\ pc' = [pc EXCEPT ![w] = Dispatch(w)]
  /\ UNCHANGED <<tasks, stop_, task, stopper, history>>

(* task() returns. *)
finish(w) ==
  /\ pc[w] = "running"
  /\ executed' = executed \cup {task[w]}
  /\ task' = [task EXCEPT ![w] = NoTask]
  /\ pc' = [pc EXCEPT ![w] = "ready"]
  /\ UNCHANGED <<tasks, stop_, stopper, sent, empties, cleared, owed>>

Work(w) ==
  \/ Decide(w) \/ Block(w)
  \/ wait_for_new_task(w) \/ dispatch(w) \/ finish(w)

-----------------------------------------------------------------------------

Next ==
  \/ \E inside \in BOOLEAN : enqueue(inside)
  \/ enqueue_empty
  \/ clear_waiting_tasks
  \/ stop_store \/ stop_notify \/ stop_join
  \/ \E w \in Workers : Work(w) \/ Spurious(w)

(* Every thread that can run does, the tasks return, and stop() once       *)
(* called goes on.  Nobody is obliged to call, and no wake-up is obliged   *)
(* to be spurious.                                                         *)
Fairness ==
  /\ \A w \in Workers : WF_vars(Work(w))
  /\ WF_vars(stop_notify) /\ WF_vars(stop_join)

Safety == Init /\ [][Next]_vars

Spec == Safety /\ Fairness

-----------------------------------------------------------------------------

InHand == {task[w] : w \in Workers} \ {NoTask}

(* Types of the state. *)
TypeOK ==
  /\ tasks \in Seq(0..sent)
  /\ stop_ \in BOOLEAN
  /\ pc \in [Workers -> WorkerStates]
  /\ task \in [Workers -> 0..sent]
  /\ stopper \in {"out", "stored", "joining", "returned"}
  /\ sent \in 0..MaxTasks
  /\ empties \in 0..MaxEmpty
  /\ executed \subseteq 1..sent
  /\ cleared \subseteq 1..sent
  /\ owed \subseteq 1..sent

(* Every task is in exactly one place: waiting once, in the hands of one   *)
(* worker, executed, or cleared.  None runs twice, none runs after it was  *)
(* cleared, none disappears between the deque and task().                  *)
OnePlace ==
  /\ 1..sent = (Range(tasks) \ {NoTask}) \cup InHand \cup executed \cup cleared
  /\ InHand \cap (Range(tasks) \cup executed \cup cleared) = {}
  /\ Range(tasks) \cap (executed \cup cleared) = {}
  /\ executed \cap cleared = {}
  /\ \A i, j \in DOMAIN tasks : i < j => tasks[i] # tasks[j] \/ tasks[i] = NoTask
  /\ \A v, w \in Workers : task[v] = task[w] => v = w \/ task[v] = NoTask

(* No worker sleeps, or is about to, beside a waiting task. *)
NoSleeperBesideTask ==
  tasks # <<>> => \A w \in Workers : pc[w] \notin {"deciding", "blocked"}

(* When stop() returns, every task that was enqueued before it was called  *)
(* has been executed or cleared, and so has every task that a task         *)
(* enqueued meanwhile: stop() drains the pool before the workers end.      *)
(* It does not when somebody has enqueued an empty function, which a       *)
(* worker that sees stop_ takes for the end.                               *)
StopDrainsFunctions ==
  stopper = "returned" /\ empties = 0 => owed \subseteq executed \cup cleared

(* A task that was enqueued in time is executed or cleared, whether stop() *)
(* is called or not and whatever the workers were about to do, as long as  *)
(* nobody enqueues an empty function.                                      *)
OwedTasksRun ==
  \A n \in 1..MaxTasks : n \in owed ~> (n \in executed \cup cleared \/ empties > 0)

(* stop(), once called, returns. *)
StopReturns == stopper = "stored" ~> stopper = "returned"
==============================================================================
