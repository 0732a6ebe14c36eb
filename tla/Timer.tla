-------------------------------- MODULE Timer --------------------------------
(***************************************************************************)
(* Timer: a thread that sleeps for a period and calls the listeners, once  *)
(* or, with auto_restart, until it is stopped.                             *)
(*                                                                         *)
(* One owner calls start() and wait_for_stop(), which join and replace the *)
(* thread; stop(), auto_restart() and add_listener() may come from any     *)
(* thread, the listeners' included, and touch one atomic or hold the       *)
(* mutex.  stop() reads active_ and stores false: the store is the step,   *)
(* since storing false over false changes nothing.                         *)
(***************************************************************************)
EXTENDS Naturals

CONSTANT MaxListeners  \* bound on the number of listeners

ASSUME MaxListenersAssumption == MaxListeners \in Nat

VARIABLES active_, restart_,
          event_handlers_, \* how many listeners there are
          handlers,    \* how many the thread took a copy of
          thread,      \* thread_ and where it is, see Threads
          owner,       \* where the owner is, see Owners
          before,      \* the listeners there were at start() (history)
          late         \* rounds begun since active_ was reset (history)

history == <<before, late>>
timer_vars == <<active_, restart_, event_handlers_, handlers, thread, owner, history>>

(* "none": not joinable; "begun": before the copy of the listeners;        *)
(* "asleep": in sleep_for; "awake": about to read active_;                 *)
(* "firing": calling the handlers; "ended": joinable, its function over.   *)
Threads == {"none", "begun", "asleep", "awake", "firing", "ended"}

(* "start_join", "start_set", "start_spawn": in start(), before the join,  *)
(* the store of active_ and the new thread; "stop_join": in                *)
(* wait_for_stop(), before the join.                                       *)
Owners == {"out", "start_join", "start_set", "start_spawn", "stop_join"}

TimerInit ==
  /\ active_ = FALSE
  /\ restart_ = FALSE
  /\ event_handlers_ = 0
  /\ handlers = 0
  /\ thread = "none"
  /\ owner = "out"
  /\ before = 0
  /\ late = 0

-----------------------------------------------------------------------------
(* The methods. *)

add_listener ==
  /\ event_handlers_ < MaxListeners
  /\ event_handlers_' = event_handlers_ + 1
  /\ UNCHANGED <<active_, restart_, handlers, thread, owner, history>>

auto_restart(val) ==
  /\ restart_' = val
  /\ UNCHANGED <<active_, event_handlers_, handlers, thread, owner, history>>

stop ==
  /\ active_
  /\ active_' = FALSE
  /\ UNCHANGED <<restart_, event_handlers_, handlers, thread, owner, history>>

(* Slip: a thread that has ended is not joined. *)
start_NoJoin ==
  /\ owner = "out"
  /\ ~active_
  /\ owner' = IF thread \in {"none", "ended"} THEN "start_set" ELSE "start_join"
  /\ UNCHANGED <<active_, restart_, event_handlers_, handlers, thread, history>>

(* start(), when active_ is false; otherwise it returns at once. *)
start ==
  /\ owner = "out"
  /\ ~active_
  /\ owner' = IF thread = "none" THEN "start_set" ELSE "start_join"
  /\ UNCHANGED <<active_, restart_, event_handlers_, handlers, thread, history>>

(* thread_.join() in start() and in wait_for_stop(). *)
join ==
  /\ owner \in {"start_join", "stop_join"}
  /\ thread = "ended"
  /\ thread' = "none"
  /\ owner' = IF owner = "start_join" THEN "start_set" ELSE "out"
  /\ UNCHANGED <<active_, restart_, event_handlers_, handlers, history>>

start_set ==
  /\ owner = "start_set"
  /\ active_' = TRUE
  /\ owner' = "start_spawn"
  /\ before' = event_handlers_
  /\ late' = 0
  /\ UNCHANGED <<restart_, event_handlers_, handlers, thread>>

(* thread_ = std::thread{...}, fatal if thread_ is still joinable *)
start_spawn ==
  /\ owner = "start_spawn"
  /\ thread' = "begun"
  /\ owner' = "out"
  /\ UNCHANGED <<active_, restart_, event_handlers_, handlers, history>>

(* wait_for_stop(), and the destructor: stop(), then the join if any. *)
wait_for_stop ==
  /\ owner = "out"
  /\ active_' = FALSE
  /\ owner' = IF thread = "none" THEN "out" ELSE "stop_join"
  /\ UNCHANGED <<restart_, event_handlers_, handlers, thread, history>>

-----------------------------------------------------------------------------
(* The thread. *)

(* Slip: the copy is taken of what it was the last time. *)
copy_Stale ==
  /\ thread = "begun"
  /\ thread' = "asleep"
  /\ UNCHANGED <<active_, restart_, event_handlers_, handlers, owner, history>>

copy ==
  /\ thread = "begun"
  /\ handlers' = event_handlers_
  /\ thread' = "asleep"
  /\ UNCHANGED <<active_, restart_, event_handlers_, owner, history>>

wake ==
  /\ thread = "asleep"
  /\ thread' = "awake"
  /\ UNCHANGED <<active_, restart_, event_handlers_, handlers, owner, history>>

(* Slip: active_ is not looked at. *)
check_active_Never ==
  /\ thread = "awake"
  /\ thread' = "firing"
  /\ UNCHANGED <<active_, restart_, event_handlers_, handlers, owner, history>>

check_active ==
  /\ thread = "awake"
  /\ thread' = IF active_ THEN "firing" ELSE "ended"
  /\ UNCHANGED <<active_, restart_, event_handlers_, handlers, owner, history>>

(* The history of late rounds is kept up to MaxLate. *)
MaxLate == 2

Late == IF active_ \/ late = MaxLate THEN late ELSE late + 1

(* Slip: restart_ is not looked at. *)
fire_Once ==
  /\ thread = "firing"
  /\ thread' = "ended"
  /\ late' = Late
  /\ UNCHANGED <<active_, restart_, event_handlers_, handlers, owner, before>>

(* The handlers have been called; active_ may have been reset meanwhile. *)
fire ==
  /\ thread = "firing"
  /\ thread' = IF restart_ THEN "asleep" ELSE "ended"
  /\ late' = Late
  /\ UNCHANGED <<active_, restart_, event_handlers_, handlers, owner, before>>

Thread == copy \/ wake \/ check_active \/ fire

Owner == join \/ start_set \/ start_spawn

TimerNext ==
  \/ add_listener \/ stop
  \/ \E val \in BOOLEAN : auto_restart(val)
  \/ start \/ wait_for_stop \/ Owner
  \/ Thread

(* The sleep ends, handlers return, a call of the owner's goes on. *)
TimerFairness == WF_timer_vars(Thread) /\ WF_timer_vars(Owner)

TimerSafety == TimerInit /\ [][TimerNext]_timer_vars

TimerSpec == TimerSafety /\ TimerFairness

-----------------------------------------------------------------------------

(* Types of the state; the thread calls the listeners there were before    *)
(* start(), and those that were added before it took its copy.             *)
TimerTypeOK ==
  /\ active_ \in BOOLEAN /\ restart_ \in BOOLEAN
  /\ event_handlers_ \in 0..MaxListeners /\ handlers \in 0..event_handlers_
  /\ thread \in Threads
  /\ owner \in Owners
  /\ before \in 0..event_handlers_ /\ late \in 0..MaxLate
  /\ thread \in {"asleep", "awake", "firing"} => handlers >= before

(* start() never replaces a thread that is still joinable, which would end *)
(* the program, and never sets active_ while an old thread could take it   *)
(* for its own.                                                            *)
NoThreadReplaced ==
  owner \in {"start_set", "start_spawn"} => thread = "none"

(* Once active_ is reset, by whoever, at most the round under way is       *)
(* finished, until start() sets it again.                                  *)
OneLateRound ==
  /\ late <= 1
  /\ late = 1 => ~active_ /\ thread # "firing"

(* A timer that is started, and from then on stays active and periodic,    *)
(* calls its listeners again and again; start() and wait_for_stop()        *)
(* return, once the listeners have.                                        *)
TimerGoesOn ==
  /\ []((owner = "start_spawn" /\ [](active_ /\ restart_)) => []<>(thread = "firing"))
  /\ owner # "out" ~> owner = "out"
==============================================================================
