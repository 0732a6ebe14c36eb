--------------------------- MODULE BackGroundWorker ---------------------------
(***************************************************************************)
(* Framework::Task::BackGroundWorker: one thread that runs one task each   *)
(* time it is asked to, and can be asked to cancel it.                     *)
(*                                                                         *)
(* run_task_async() and the destructor change running_ and stop_ under     *)
(* mutex_, where the thread also evaluates its predicate and joins the     *)
(* wait set: each is one step.  Outside the mutex are the thread's reading *)
(* of stop_ after sleep(), a plain bool, and the stores with which         *)
(* on_task_completed() takes the request back, one step each.              *)
(***************************************************************************)
VARIABLES has_handler, \* whether task_completed_ is set, before the first request
          running_, stop_, cancellation_pending_,
          worker,      \* where the worker's thread is, see WorkerStates
          saw_stop,    \* whether stop_ was set when sleep() returned
          destructor,  \* where the destructor is
          request,     \* the accepted request, see Requests (history)
          cancelled    \* cancel_async() was called for that request (history)

worker_vars == <<has_handler, running_, stop_, cancellation_pending_, worker, saw_stop,
                 destructor, request, cancelled>>

(* "sleep":   in sleep(), about to evaluate the predicate under mutex_;    *)
(* "blocked": in the wait set;                                             *)
(* "woken":   sleep() has returned, about to read stop_;                   *)
(* "task":    in task_;                                                    *)
(* "handler": in task_completed_, if there is one;                         *)
(* "reset1", "reset2": before the first and the second store that follow;  *)
(* "exited":  the thread's function has returned.                          *)
WorkerStates == {"sleep", "blocked", "woken", "task", "handler", "reset1", "reset2", "exited"}

(* A request is accepted when run_task_async() finds is_busy() false: it   *)
(* is "asked" until the task starts and "started" until the task returns.  *)
Requests == {"none", "asked", "started"}

WorkerInit ==
  /\ has_handler \in BOOLEAN
  /\ running_ = FALSE
  /\ stop_ = FALSE
  /\ cancellation_pending_ = FALSE
  /\ worker = "sleep"
  /\ saw_stop = FALSE
  /\ destructor = "out"
  /\ request = "none"
  /\ cancelled = FALSE

Notified == IF worker = "blocked" THEN "sleep" ELSE worker

(* Clients call until the object is destroyed; the task and its handler,   *)
(* which are given the worker, also while the destructor waits for them.   *)
MayCall == destructor = "out" \/ worker \in {"task", "handler"}

run_task_async ==
  /\ MayCall
  /\ running_' = TRUE
  /\ worker' = Notified
  /\ request' = IF running_ THEN request ELSE "asked"
  /\ cancelled' = (cancelled /\ running_)
  /\ UNCHANGED <<has_handler, stop_, cancellation_pending_, saw_stop, destructor>>

cancel_async ==
  /\ MayCall
  /\ cancellation_pending_' = TRUE
  /\ cancelled' = (request # "none")
  /\ UNCHANGED <<has_handler, running_, stop_, worker, saw_stop, destructor, request>>

(* ~BackGroundWorker(): stop_ and the notification, then the join. *)
destroy ==
  /\ destructor = "out"
  /\ stop_' = TRUE
  /\ worker' = Notified
  /\ destructor' = "joining"
  /\ UNCHANGED <<has_handler, running_, cancellation_pending_, saw_stop, request, cancelled>>

join_worker ==
  /\ destructor = "joining"
  /\ worker = "exited"
  /\ destructor' = "done"
  /\ UNCHANGED <<has_handler, running_, stop_, cancellation_pending_, worker, saw_stop,
                 request, cancelled>>

-----------------------------------------------------------------------------
(* The worker's thread. *)

(* The thread goes on at s; only its position changes. *)
Goto(s) ==
  /\ worker' = s
  /\ UNCHANGED <<has_handler, running_, stop_, cancellation_pending_, saw_stop,
                 destructor, request, cancelled>>

WorkerBlocks == worker = "sleep" /\ ~(running_ \/ stop_) /\ Goto("blocked")

WorkerWakes == worker = "blocked" /\ Goto("sleep")

(* Slip: the predicate does not look at stop_. *)
sleep_DeafToStop ==
  /\ worker = "sleep"
  /\ running_
  /\ worker' = "woken"
  /\ saw_stop' = stop_
  /\ UNCHANGED <<has_handler, running_, stop_, cancellation_pending_,
                 destructor, request, cancelled>>

(* sleep() returns: the predicate holds. *)
sleep ==
  /\ worker = "sleep"
  /\ running_ \/ stop_
  /\ worker' = "woken"
  /\ saw_stop' = stop_
  /\ UNCHANGED <<has_handler, running_, stop_, cancellation_pending_,
                 destructor, request, cancelled>>

(* if (stop_): a store that sleep() did not see races with this read. *)
Readable == IF saw_stop THEN {TRUE} ELSE {FALSE, stop_}

(* Slip: the thread ends whenever it wakes up. *)
break_Always == worker = "woken" /\ Goto("exited")

break == worker = "woken" /\ TRUE \in Readable /\ Goto("exited")

(* on_do_task(): task_ is called ... *)
on_do_task ==
  /\ worker = "woken"
  /\ FALSE \in Readable
  /\ worker' = "task"
  /\ request' = "started"
  /\ UNCHANGED <<has_handler, running_, stop_, cancellation_pending_,
                 saw_stop, destructor, cancelled>>

(* ... and returns, or throws a Framework::Exception. *)
task_returns ==
  /\ worker = "task"
  /\ worker' = IF has_handler THEN "handler" ELSE "reset1"
  /\ request' = "none"
  /\ cancelled' = FALSE
  /\ UNCHANGED <<has_handler, running_, stop_, cancellation_pending_, saw_stop, destructor>>

handler_returns == worker = "handler" /\ Goto("reset1")

(* Slip: the handler's branch resets in the order of the other one. *)
reset_Swapped(n) ==
  /\ worker = n
  /\ worker' = IF n = "reset1" THEN "reset2" ELSE "sleep"
  /\ IF n = "reset1"
     THEN running_' = FALSE /\ UNCHANGED cancellation_pending_
     ELSE cancellation_pending_' = FALSE /\ UNCHANGED running_
  /\ UNCHANGED <<has_handler, stop_, saw_stop, destructor, request, cancelled>>

(* Slip: the request is not taken back. *)
reset_KeepsRunning(n) ==
  /\ worker = n
  /\ worker' = IF n = "reset1" THEN "reset2" ELSE "sleep"
  /\ cancellation_pending_' = FALSE
  /\ UNCHANGED <<has_handler, running_, stop_, saw_stop, destructor, request, cancelled>>

(* on_task_completed(): cancellation_pending_ and then running_ are reset  *)
(* after a handler, and in the other order when there is none.             *)
reset(n) ==
  /\ worker = n
  /\ worker' = IF n = "reset1" THEN "reset2" ELSE "sleep"
  /\ IF has_handler <=> n = "reset1"
     THEN cancellation_pending_' = FALSE /\ UNCHANGED running_
     ELSE running_' = FALSE /\ UNCHANGED cancellation_pending_
  /\ UNCHANGED <<has_handler, stop_, saw_stop, destructor, request, cancelled>>

Worker ==
  \/ WorkerBlocks \/ sleep \/ break \/ on_do_task \/ task_returns \/ handler_returns
  \/ reset("reset1") \/ reset("reset2")

WorkerNext == run_task_async \/ cancel_async \/ destroy \/ join_worker \/ Worker \/ WorkerWakes

(* The thread runs when it can, tasks and handlers return, and a           *)
(* destructor goes on; nobody is obliged to call.                          *)
WorkerFairness == WF_worker_vars(Worker) /\ WF_worker_vars(join_worker)

WorkerSafety == WorkerInit /\ [][WorkerNext]_worker_vars

WorkerSpec == WorkerSafety /\ WorkerFairness

-----------------------------------------------------------------------------

(* Types of the state; the thread ends for the destructor only. *)
WorkerTypeOK ==
  /\ has_handler \in BOOLEAN
  /\ running_ \in BOOLEAN /\ stop_ \in BOOLEAN /\ cancellation_pending_ \in BOOLEAN
  /\ worker \in WorkerStates
  /\ saw_stop \in BOOLEAN
  /\ destructor \in {"out", "joining", "done"}
  /\ request \in Requests
  /\ cancelled \in BOOLEAN
  /\ cancelled => request # "none"
  /\ worker = "exited" => stop_

(* One request is one run: the task runs only for a request that was       *)
(* accepted, and while none is (is_busy() false) it does not run at all.   *)
OneRunPerRequest ==
  /\ worker \in {"sleep", "blocked", "woken"} => (running_ <=> request = "asked")
  /\ worker = "task" <=> request = "started"
  /\ worker \in {"task", "handler"} => running_
  /\ worker = "woken" => saw_stop \/ running_

(* A request to cancel reaches the task it was made for: it stays pending  *)
(* until that task has returned.  This takes a task_completed handler:     *)
(* without one running_ is taken back before cancellation_pending_, and    *)
(* the cancellation of the next request may be wiped out in between.       *)
CancelReachesHandledTask == has_handler /\ cancelled => cancellation_pending_

(* An accepted request is run, unless the object is destroyed first, and   *)
(* the destructor returns, once the task under way has.                    *)
RequestRunsOrEnds ==
  /\ request = "asked" ~> (request = "started" \/ destructor # "out")
  /\ destructor = "joining" ~> destructor = "done"
==============================================================================
