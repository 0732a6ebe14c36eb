------------------------ MODULE FlagTimerWorker_proofs ------------------------
(***************************************************************************)
(* Proofs about EventFlag, for any flags, waiters and setters, Timer, for  *)
(* any number of listeners, and BackGroundWorker.                          *)
(***************************************************************************)
EXTENDS EventFlag, Timer, BackGroundWorker, TLAPS

(* The types hold in every reachable state, and a call that has not        *)
(* returned has no result: no timeout is reported by a call that goes on.  *)
THEOREM TypeCorrect == Safety => []TypeOK
<1>1. Init => TypeOK
  BY DEF Init, TypeOK, States, Inside
<1>2. TypeOK /\ [Next]_vars => TypeOK'
  <2> SUFFICES ASSUME TypeOK, [Next]_vars PROVE TypeOK'
    OBVIOUS
  <2>1. ASSUME NEW w \in Waiters, NEW flags \in SUBSET Bits, NEW m \in {"AND", "OR"},
               NEW t \in BOOLEAN, wait(w, flags, m, t)
        PROVE  TypeOK'
    <3>1. /\ pattern_' = pattern_ /\ notifying' = notifying
          /\ pc' = [pc EXCEPT ![w] = "check"] /\ want' = [want EXCEPT ![w] = flags]
          /\ mode' = [mode EXCEPT ![w] = m] /\ result' = [result EXCEPT ![w] = "none"]
      BY <2>1 DEF wait
    <3>2. timed' = [timed EXCEPT ![w] = t]
      BY <2>1 DEF wait
    <3>3. timed' \in [Waiters -> BOOLEAN]
      BY <3>2, Zenon DEF TypeOK
    <3> QED
      BY <3>1, <3>3 DEF TypeOK, States, Inside
  <2>2. ASSUME NEW w \in Waiters, Pass(w) \/ GiveUp(w) PROVE TypeOK'
    BY <2>2 DEF Pass, GiveUp, call, TypeOK, States, Inside
  <2>3. ASSUME NEW w \in Waiters, Block(w) \/ Spurious(w) PROVE TypeOK'
    BY <2>3 DEF Block, Spurious, call, TypeOK, States, Inside
  <2>4. ASSUME NEW w \in Waiters, Expire(w) PROVE TypeOK'
    BY <2>4 DEF Expire, call, TypeOK, States, Inside
  <2>5. ASSUME NEW s \in Setters, NEW flags \in SUBSET Bits, set(s, flags) PROVE TypeOK'
    BY <2>5 DEF set, call, TypeOK, States, Inside
  <2>6. ASSUME NEW s \in Setters, notify(s) PROVE TypeOK'
    BY <2>6 DEF notify, call, TypeOK, States, Inside
  <2>7. CASE UNCHANGED vars
    BY <2>7 DEF vars, call, TypeOK, States, Inside
  <2> QED
    BY <2>1, <2>2, <2>3, <2>4, <2>5, <2>6, <2>7 DEF Next, Evaluate
<1> QED
  BY <1>1, <1>2, PTL DEF Safety

(* A waiter joins the wait set only while its pattern does not match, and  *)
(* a setter that makes it match is on its way to notify it: releasing the  *)
(* mutex before the notification loses no wake-up.                         *)
THEOREM NoWakeupIsLost == Safety => []NoLostWakeup
<1>1. Init => NoLostWakeup
  BY DEF Init, NoLostWakeup, match
<1>2. TypeOK /\ NoLostWakeup /\ [Next]_vars => NoLostWakeup'
  <2> SUFFICES ASSUME TypeOK, NoLostWakeup, [Next]_vars PROVE NoLostWakeup'
    OBVIOUS
  <2>1. ASSUME NEW w \in Waiters, NEW flags, NEW m, NEW t, wait(w, flags, m, t)
        PROVE  NoLostWakeup'
    BY <2>1 DEF wait, TypeOK, NoLostWakeup, match
  <2>2. ASSUME NEW w \in Waiters, Pass(w) \/ GiveUp(w) \/ Spurious(w) \/ Expire(w)
        PROVE  NoLostWakeup'
    <3>1. UNCHANGED <<pattern_, want, mode, notifying>>
          /\ \E p \in {"out", "check", "expired"} : pc' = [pc EXCEPT ![w] = p]
      BY <2>2 DEF Pass, GiveUp, Spurious, Expire, call
    <3> QED
      BY <3>1 DEF TypeOK, NoLostWakeup, match
  <2>3. ASSUME NEW w \in Waiters, Block(w) PROVE NoLostWakeup'
    BY <2>3 DEF Block, TypeOK, call, NoLostWakeup, match
  <2>4. ASSUME NEW s \in Setters, NEW flags, set(s, flags) PROVE NoLostWakeup'
    BY <2>4 DEF set, NoLostWakeup, match
  <2>5. ASSUME NEW s \in Setters, notify(s) PROVE NoLostWakeup'
    BY <2>5 DEF notify, TypeOK, NoLostWakeup, match
  <2>6. CASE UNCHANGED vars
    BY <2>6 DEF vars, call, NoLostWakeup, match
  <2> QED
    BY <2>1, <2>2, <2>3, <2>4, <2>5, <2>6 DEF Next, Evaluate
<1> QED
  BY <1>1, <1>2, TypeCorrect, PTL DEF Safety

-----------------------------------------------------------------------------
(* Timer. *)

TimerInv == TimerTypeOK /\ NoThreadReplaced /\ OneLateRound

(* What the three say together holds in every reachable state: a thread    *)
(* that fires or is replaced late would break the count of the rounds, or  *)
(* the order of its copy and start().                                      *)
LEMMA TimerInvariance == TimerSafety => []TimerInv
<1> USE MaxListenersAssumption DEF TimerInv, TimerTypeOK, NoThreadReplaced, OneLateRound,
                                   Threads, Owners, MaxLate
<1>1. TimerInit => TimerInv
  <2> SUFFICES ASSUME TimerInit PROVE TimerInv
    OBVIOUS
  <2>1. active_ \in BOOLEAN /\ restart_ \in BOOLEAN
    BY DEF TimerInit
  <2>2. /\ event_handlers_ \in 0..MaxListeners /\ handlers \in 0..event_handlers_
        /\ before \in 0..event_handlers_ /\ late \in 0..2 /\ late <= 1 /\ late # 1
    BY DEF TimerInit
  <2>3. thread = "none" /\ owner = "out"
    BY DEF TimerInit
  <2> QED
    BY <2>1, <2>2, <2>3
<1>2. TimerInv /\ [TimerNext]_timer_vars => TimerInv'
  <2> SUFFICES ASSUME TimerInv, [TimerNext]_timer_vars PROVE TimerInv'
    OBVIOUS
  <2>1. CASE add_listener
    <3>1. /\ event_handlers_' \in 0..MaxListeners
          /\ handlers \in 0..event_handlers_' /\ before \in 0..event_handlers_'
      BY <2>1 DEF add_listener
    <3> QED
      BY <2>1, <3>1 DEF add_listener, history
  <2>2. CASE stop
    BY <2>2 DEF stop, history
  <2>3. ASSUME NEW val \in BOOLEAN, auto_restart(val) PROVE TimerInv'
    <3>1. /\ active_' = active_
          /\ UNCHANGED <<event_handlers_, handlers, thread, owner, before, late>>
      BY <2>3 DEF auto_restart, history
    <3>2. restart_' \in BOOLEAN
      BY <2>3, Zenon DEF auto_restart
    <3> QED
      BY <3>1, <3>2
  <2>4. CASE start
    BY <2>4 DEF start, history
  <2>5. CASE wait_for_stop
    BY <2>5 DEF wait_for_stop, history
  <2>6. CASE join
    BY <2>6 DEF join, history
  <2>7. CASE start_set
    BY <2>7 DEF start_set
  <2>8. CASE start_spawn
    BY <2>8 DEF start_spawn, history
  <2>9. CASE copy
    BY <2>9 DEF copy, history
  <2>10. CASE wake
    BY <2>10 DEF wake, history
  <2>11. CASE check_active
    BY <2>11 DEF check_active, history
  <2>12. CASE fire
    BY <2>12 DEF fire, Late
  <2>13. CASE UNCHANGED timer_vars
    BY <2>13 DEF timer_vars, history
  <2> QED
    BY <2>1, <2>2, <2>3, <2>4, <2>5, <2>6, <2>7, <2>8, <2>9, <2>10, <2>11, <2>12, <2>13
       DEF TimerNext, Owner, Thread
<1> QED
  BY <1>1, <1>2, PTL DEF TimerSafety

(* The thread calls every listener that was added before start(), for any  *)
(* number of listeners.                                                    *)
THEOREM TimerTypesCorrect == TimerSpec => []TimerTypeOK
  BY TimerInvariance, PTL DEF TimerSpec, TimerInv

(* start() never replaces a joinable thread, nor sets active_ while an old *)
(* thread could go on with it.                                             *)
THEOREM ThreadsAreJoined == TimerSpec => []NoThreadReplaced
  BY TimerInvariance, PTL DEF TimerSpec, TimerInv

(* At most one round follows a reset of active_, however often and by whom *)
(* the timer is stopped and reconfigured meanwhile.                        *)
THEOREM StopEndsTheRounds == TimerSpec => []OneLateRound
  BY TimerInvariance, PTL DEF TimerSpec, TimerInv

-----------------------------------------------------------------------------
(* BackGroundWorker. *)

(* The request from the task's return on: while the thread takes it back, a new *)
(* one is accepted only between the two stores, and only when running_ is  *)
(* the first to be reset.                                                  *)
ResetInv ==
  /\ saw_stop => stop_
  /\ worker = "handler" => request = "none"
  /\ worker = "reset1" => running_ /\ request = "none"
  /\ worker = "reset2" => (running_ <=> has_handler \/ request = "asked")
  /\ worker = "reset2" /\ has_handler => request = "none"

WorkerInv == WorkerTypeOK /\ OneRunPerRequest /\ CancelReachesHandledTask /\ ResetInv

(* Requests, their cancellation and the thread's position agree in every   *)
(* reachable state.                                                        *)
LEMMA WorkerInvariance == WorkerSafety => []WorkerInv
<1> USE DEF WorkerInv, WorkerTypeOK, OneRunPerRequest, CancelReachesHandledTask, ResetInv,
            WorkerStates, Requests
<1>1. WorkerInit => WorkerInv
  BY DEF WorkerInit
<1>2. WorkerInv /\ [WorkerNext]_worker_vars => WorkerInv'
  <2> SUFFICES ASSUME WorkerInv, [WorkerNext]_worker_vars PROVE WorkerInv'
    OBVIOUS
  <2>1. CASE run_task_async
    BY <2>1 DEF run_task_async, Notified
  <2>2. CASE cancel_async
    BY <2>2 DEF cancel_async
  <2>3. CASE destroy
    BY <2>3 DEF destroy, Notified
  <2>4. CASE join_worker
    BY <2>4 DEF join_worker
  <2>5. CASE WorkerBlocks \/ WorkerWakes
    BY <2>5 DEF WorkerBlocks, WorkerWakes, Goto
  <2>6. CASE sleep
    BY <2>6 DEF sleep
  <2>7. CASE break
    BY <2>7 DEF break, Readable, Goto
  <2>8. CASE on_do_task
    BY <2>8 DEF on_do_task, Readable
  <2>9. CASE task_returns
    BY <2>9 DEF task_returns
  <2>10. CASE handler_returns
    BY <2>10 DEF handler_returns, Goto
  <2>11. CASE reset("reset1")
    BY <2>11 DEF reset
  <2>12. CASE reset("reset2")
    BY <2>12 DEF reset
  <2>13. CASE UNCHANGED worker_vars
    BY <2>13 DEF worker_vars
  <2> QED
    BY <2>1, <2>2, <2>3, <2>4, <2>5, <2>6, <2>7, <2>8, <2>9, <2>10, <2>11, <2>12, <2>13
       DEF WorkerNext, Worker
<1> HIDE DEF WorkerInv, WorkerTypeOK, OneRunPerRequest, CancelReachesHandledTask, ResetInv
<1> QED
  BY <1>1, <1>2, PTL DEF WorkerSafety

(* The thread ends for the destructor only, and only a request that is not *)
(* done can be cancelled.                                                  *)
THEOREM WorkerTypesCorrect == WorkerSpec => []WorkerTypeOK
  BY WorkerInvariance, PTL DEF WorkerSpec, WorkerInv

(* One accepted request is one run of the task, in spite of the racy read  *)
(* of stop_ and of the requests that come while running_ is taken back.    *)
THEOREM OneRequestOneRun == WorkerSpec => []OneRunPerRequest
  BY WorkerInvariance, PTL DEF WorkerSpec, WorkerInv

(* With a task_completed handler no cancellation is wiped out before the   *)
(* task it was meant for has returned.                                     *)
THEOREM CancellationsArrive == WorkerSpec => []CancelReachesHandledTask
  BY WorkerInvariance, PTL DEF WorkerSpec, WorkerInv
==============================================================================
