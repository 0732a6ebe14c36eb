--------------------------- MODULE EventTaskManager ---------------------------
(***************************************************************************)
(* Framework::Task::EventTaskManager: a map from names to shared pointers  *)
(* of tasks under a std::shared_mutex, together with the threads that call *)
(* it and the threads of the tasks, whose handlers may call it, too.       *)
(*                                                                         *)
(* What a method does with the lock held is one step, unless it waits      *)
(* there: rpc_event() waits for the handler with the shared lock, and      *)
(* register_task() and unregister_task() join the thread of a task whose   *)
(* last reference they drop with the exclusive one.                        *)
(*                                                                         *)
(* A task is the number of its thread.  It processes its queue in the      *)
(* order of the sends up to kStop, as EventTask shows.                     *)
(***************************************************************************)
EXTENDS Integers, Sequences

CONSTANTS Clients,     \* the threads that are no task's
          Owner,       \* the one that made the tasks and the manager
          NTasks,      \* the number of tasks
          Names,       \* the names they are registered under
          None,        \* no thread, no task, no name
          SetUps,      \* what may be registered when other threads come in
          MaxCalls     \* bound on the number of calls of the manager

Tasks == 1..NTasks
Threads == Clients \cup Tasks

ASSUME NTasksAssumption == NTasks \in Nat
ASSUME ClientsAssumption == Clients \cap Tasks = {} /\ Owner \in Clients
ASSUME NoneAssumption == None \notin Threads \cup Names
ASSUME SetUpsAssumption == SetUps \subseteq [Names -> Tasks \cup {None}]
ASSUME MaxCallsAssumption == MaxCalls \in Nat

VARIABLES tasks_,      \* the task of each name, None if there is none
          writer,      \* mutex_: who has it for itself, across a wait
          readers,     \* mutex_: who shares it, across a wait
          prefers_writers, \* mutex_: a waiting writer keeps new readers out
          manager,     \* "alive", or its destructor has begun: "gone"
          pc,          \* where each thread is, see Positions
          call,        \* the call it is in
          held,        \* the shared pointers that each client has
          inbox,       \* each task's queue
          handling,    \* the message whose handler runs in each task
          life,        \* each task's thread, as joinable() and join() see it
          calls,       \* the number of calls
          breaches     \* what was done that may end in a deadlock (history)

lock == <<writer, readers, prefers_writers>>
loops == <<inbox, handling, life>>
vars == <<tasks_, lock, manager, pc, call, held, loops, calls, breaches>>

(* "locking" waits for mutex_, "waiting" for the answer of an rpc, which   *)
(* "answered" has; "stopping" is in the stop() of a task; "clearing" is in *)
(* the destructor of the manager.                                          *)
Positions == {"out", "locking", "waiting", "answered", "stopping", "clearing"}
Exclusive == {"register_task", "unregister_task"}
Shared == {"get_task", "send_event", "rpc_event"}
Calls == [op : Exclusive \cup Shared \cup {"none", "stop", "clear"}, name : Names \cup {None},
          task : Tasks \cup {None}, timed : BOOLEAN]
Messages == [from : Threads \cup {None}, stop : BOOLEAN]
NoCall == [op |-> "none", name |-> None, task |-> None, timed |-> FALSE]
Idle == [from |-> None, stop |-> TRUE]

(* The owner has made the tasks and set the manager up. *)
Init ==
  /\ tasks_ \in SetUps
  /\ writer = None
  /\ readers = {}
  /\ prefers_writers \in BOOLEAN
  /\ manager = "alive"
  /\ pc = [th \in Threads |-> "out"]
  /\ call = [th \in Threads |-> NoCall]
  /\ held = [c \in Clients |-> IF c = Owner THEN Tasks ELSE {}]
  /\ inbox = [t \in Tasks |-> <<>>]
  /\ handling = [t \in Tasks |-> Idle]
  /\ life = [t \in Tasks |-> "running"]
  /\ calls = 0
  /\ breaches = {}

Become(th, position, record) ==
  /\ pc' = [pc EXCEPT ![th] = position]
  /\ call' = [call EXCEPT ![th] = record]

Leave(th) == Become(th, "out", NoCall)

Breach(kind, condition) == breaches' = IF condition THEN breaches \cup {kind} ELSE breaches

(* A client is free, or a task's thread is in a handler, which is. *)
Free(th) == pc[th] = "out" /\ (th \in Tasks => handling[th] # Idle)

(* A handler keeps no shared pointers: it neither registers nor gets one.  *)
Begin(th, op, name, task, timed) ==
  /\ manager = "alive"
  /\ calls < MaxCalls
  /\ calls' = calls + 1
  /\ Free(th)
  /\ Become(th, "locking", [op |-> op, name |-> name, task |-> task, timed |-> timed])
  /\ Breach("handler", th \in Tasks /\ (op \in Exclusive \/ prefers_writers))
  /\ UNCHANGED <<tasks_, lock, manager, held, loops>>

Locking(th, op) == pc[th] = "locking" /\ call[th].op = op

Owning(th) == pc[th] = "locking" /\ call[th].op \in Exclusive

CanOwn == writer = None /\ readers = {}

(* What std::shared_mutex does with readers while a writer waits is left   *)
(* to the implementation.                                                  *)
CanShare == writer = None /\ (prefers_writers => \A th \in Threads : ~Owning(th))

-----------------------------------------------------------------------------
(* The end of a task. *)

Referenced(t, map, pointers) ==
  (\E n \in Names : map[n] = t) \/ (\E c \in Clients : t \in pointers[c])

Post(t, message) == inbox' = [inbox EXCEPT ![t] = Append(@, message)]

(* EventTaskBase::stop(), called by its destructor or directly. *)
stop(th, t, op) ==
  IF life[t] = "joined"
  THEN Leave(th) /\ UNCHANGED inbox
  ELSE /\ Become(th, "stopping", [NoCall EXCEPT !.op = op, !.task = t])
       /\ Post(t, [from |-> th, stop |-> TRUE])

(* A reference to t is gone: was it the last? *)
Drop(th, t, op) ==
  IF t = None \/ Referenced(t, tasks_', held')
  THEN Leave(th) /\ UNCHANGED inbox
  ELSE stop(th, t, op)

(* thread_.join(): the stop is over, and what it was called in goes on. *)
join(th) ==
  /\ pc[th] = "stopping"
  /\ life[call[th].task] = "ended"
  /\ life' = [life EXCEPT ![call[th].task] = "joined"]
  /\ IF call[th].op = "clear" THEN Become(th, "clearing", NoCall) ELSE Leave(th)
  /\ writer' = IF writer = th THEN None ELSE writer
  /\ UNCHANGED <<tasks_, readers, prefers_writers, manager, held, inbox, handling, calls, breaches>>

(* A client lets go of a pointer it has. *)
release(c, t) ==
  /\ Free(c)
  /\ t \in held[c]
  /\ held' = [held EXCEPT ![c] = @ \ {t}]
  /\ UNCHANGED tasks_
  /\ Drop(c, t, "stop")
  /\ UNCHANGED <<lock, manager, handling, life, calls, breaches>>

(* A client that has the pointer stops the task; one at a time does so,    *)
(* what happens to two is in EventTask.                                    *)
stop_task(c, t) ==
  /\ Free(c)
  /\ t \in held[c]
  /\ \A th \in Threads : pc[th] = "stopping" => call[th].task # t
  /\ life[t] # "joined"
  /\ stop(c, t, "stop")
  /\ Breach("stopped", TRUE)
  /\ UNCHANGED <<tasks_, lock, manager, held, handling, life, calls>>

-----------------------------------------------------------------------------
(* The methods, with the lock. *)

(* The exclusive lock is kept while a task is stopped, released otherwise. *)
DropLocked(th, t) ==
  /\ Drop(th, t, "stop")
  /\ writer' = IF pc'[th] = "stopping" THEN th ELSE None
  /\ Breach("destroyed", pc'[th] = "stopping")
  /\ UNCHANGED <<readers, prefers_writers, manager, handling, life, calls>>

(* insert_or_assign: the pointer passed in, of which the client may keep a *)
(* copy, replaces the one there was.                                       *)
register_task(c, keep) ==
  /\ Locking(c, "register_task")
  /\ CanOwn
  /\ tasks_' = [tasks_ EXCEPT ![call[c].name] = call[c].task]
  /\ held' = IF keep THEN held ELSE [held EXCEPT ![c] = @ \ {call[c].task}]
  /\ DropLocked(c, tasks_[call[c].name])

(* erase *)
unregister_task(th) ==
  /\ Locking(th, "unregister_task")
  /\ CanOwn
  /\ tasks_' = [tasks_ EXCEPT ![call[th].name] = None]
  /\ UNCHANGED held
  /\ DropLocked(th, tasks_[call[th].name])

Target(th) == tasks_[call[th].name]

(* find_or_throw: the name is not found, and the call throws. *)
throw(th) ==
  /\ pc[th] = "locking" /\ call[th].op \in Shared
  /\ CanShare
  /\ Target(th) = None
  /\ Leave(th)
  /\ UNCHANGED <<tasks_, lock, manager, held, loops, calls, breaches>>

get_task(c) ==
  /\ Locking(c, "get_task")
  /\ CanShare
  /\ Target(c) # None
  /\ held' = [held EXCEPT ![c] = @ \cup {Target(c)}]
  /\ Leave(c)
  /\ UNCHANGED <<tasks_, lock, manager, loops, calls, breaches>>

send_event(th) ==
  /\ Locking(th, "send_event")
  /\ CanShare
  /\ Target(th) # None
  /\ Post(Target(th), [from |-> None, stop |-> FALSE])
  /\ Leave(th)
  /\ UNCHANGED <<tasks_, lock, manager, held, handling, life, calls, breaches>>

(* Slip: the lock is released before the answer is waited for. *)
Share_Briefly(th) == CanShare /\ UNCHANGED <<readers, writer>>

(* Slip: the lock is taken like a writer's. *)
Share_Exclusive(th) == CanOwn /\ readers' = readers \cup {th} /\ writer' = th

(* The shared lock is taken for a wait ... *)
Share(th) == CanShare /\ readers' = readers \cup {th} /\ UNCHANGED writer

(* Slip: it stays taken. *)
Unshare_Not(th) == UNCHANGED <<readers, writer>>

(* ... and released after it. *)
Unshare(th) == readers' = readers \ {th} /\ UNCHANGED writer

(* The message is sent, and the lock kept for the wait. *)
rpc_event(th) ==
  /\ Locking(th, "rpc_event")
  /\ Share(th)
  /\ Target(th) # None
  /\ Post(Target(th), [from |-> th, stop |-> FALSE])
  /\ Become(th, "waiting", [call[th] EXCEPT !.task = Target(th)])
  /\ Breach("upward", th \in Tasks /\ ~call[th].timed /\ Target(th) >= th)
  /\ UNCHANGED <<tasks_, prefers_writers, manager, held, handling, life, calls>>

(* The promise is set: rpc_event() returns. *)
return(th) ==
  /\ pc[th] = "answered"
  /\ Leave(th)
  /\ Unshare(th)
  /\ UNCHANGED <<tasks_, prefers_writers, manager, held, loops, calls, breaches>>

Disown(message, th) == IF message.from = th THEN [message EXCEPT !.from = None] ELSE message

(* The timeout, which counts from the message and not from the lock: the   *)
(* message stays, and its promise is nobody's.                             *)
timeout(th) ==
  /\ pc[th] = "waiting"
  /\ call[th].timed
  /\ LET t == call[th].task IN
       /\ inbox' = [inbox EXCEPT ![t] = [i \in DOMAIN @ |-> Disown(@[i], th)]]
       /\ handling' = [handling EXCEPT ![t] = Disown(@, th)]
  /\ Leave(th)
  /\ Unshare(th)
  /\ UNCHANGED <<tasks_, prefers_writers, manager, held, life, calls, breaches>>

(* ~EventTaskManager(): tasks_.clear(), without the lock, by the thread    *)
(* that owns the manager when nobody else is in it or will be.             *)
destroy(c) ==
  /\ manager = "alive"
  /\ \A th \in Threads : pc[th] = "out" \/ (pc[th] = "stopping" /\ writer # th)
  /\ pc[c] = "out"
  /\ manager' = "gone"
  /\ Become(c, "clearing", NoCall)
  /\ UNCHANGED <<tasks_, lock, held, loops, calls, breaches>>

clear(c) ==
  /\ pc[c] = "clearing"
  /\ \E n \in Names :
       /\ tasks_[n] # None
       /\ tasks_' = [tasks_ EXCEPT ![n] = None]
       /\ UNCHANGED held
       /\ IF Referenced(tasks_[n], tasks_', held') \/ life[tasks_[n]] = "joined"
          THEN UNCHANGED <<pc, call, inbox>>
          ELSE stop(c, tasks_[n], "clear")
  /\ UNCHANGED <<lock, manager, handling, life, calls, breaches>>

cleared(c) ==
  /\ pc[c] = "clearing"
  /\ \A n \in Names : tasks_[n] = None
  /\ Leave(c)
  /\ UNCHANGED <<tasks_, lock, manager, held, loops, calls, breaches>>

-----------------------------------------------------------------------------
(* The task's thread. *)

(* The next message is an event: its handler runs, and may call. *)
take(t) ==
  /\ life[t] = "running" /\ handling[t] = Idle
  /\ inbox[t] # <<>> /\ ~Head(inbox[t]).stop
  /\ handling' = [handling EXCEPT ![t] = Head(inbox[t])]
  /\ inbox' = [inbox EXCEPT ![t] = Tail(@)]
  /\ UNCHANGED <<tasks_, lock, manager, pc, call, held, life, calls, breaches>>

(* The handler returns or throws, and the promise is set. *)
answer(t) ==
  /\ handling[t] # Idle /\ pc[t] = "out"
  /\ LET from == handling[t].from IN
       pc' = IF from = None THEN pc ELSE [pc EXCEPT ![from] = "answered"]
  /\ handling' = [handling EXCEPT ![t] = Idle]
  /\ UNCHANGED <<tasks_, lock, manager, call, held, inbox, life, calls, breaches>>

(* It is kStop: the loop ends, and stop() gets its answer. *)
finish(t) ==
  /\ life[t] = "running" /\ handling[t] = Idle
  /\ inbox[t] # <<>> /\ Head(inbox[t]).stop
  /\ inbox' = [inbox EXCEPT ![t] = Tail(@)]
  /\ life' = [life EXCEPT ![t] = "ended"]
  /\ UNCHANGED <<tasks_, lock, manager, pc, call, held, handling, calls, breaches>>

-----------------------------------------------------------------------------

Call(th) ==
  \E n \in Names :
    \/ th \in Clients /\ \E t \in held[th] : Begin(th, "register_task", n, t, FALSE)
    \/ th \in Clients /\ Begin(th, "get_task", n, None, FALSE)
    \/ \E op \in {"unregister_task", "send_event"} : Begin(th, op, n, None, FALSE)
    \/ \E timed \in BOOLEAN : Begin(th, "rpc_event", n, None, timed)

(* The lock is there: a call takes it and does its work. *)
Locked(th) ==
  \/ th \in Clients /\ \E keep \in BOOLEAN : register_task(th, keep)
  \/ unregister_task(th)
  \/ th \in Clients /\ get_task(th)
  \/ send_event(th)
  \/ rpc_event(th)
  \/ throw(th)

Continue(th) == Locked(th) \/ return(th) \/ timeout(th) \/ join(th)

Loop(t) == take(t) \/ answer(t) \/ finish(t)

Next ==
  \/ \E th \in Threads : Call(th) \/ Continue(th)
  \/ \E c \in Clients :
       \/ \E t \in Tasks : release(c, t) \/ stop_task(c, t)
       \/ destroy(c) \/ clear(c) \/ cleared(c)
  \/ \E t \in Tasks : Loop(t)

(* Threads that can run do, the lock is granted to those that wait for it, *)
(* handlers return and clocks advance; nobody is obliged to call.          *)
Fairness ==
  /\ \A th \in Threads : WF_vars(Continue(th))
  /\ \A c \in Clients : WF_vars(clear(c) \/ cleared(c))
  /\ \A t \in Tasks : WF_vars(Loop(t))

Safety == Init /\ [][Next]_vars

Spec == Safety /\ Fairness

-----------------------------------------------------------------------------

(* Types of the state. *)
TypeOK ==
  /\ tasks_ \in [Names -> Tasks \cup {None}]
  /\ writer \in Threads \cup {None}
  /\ readers \subseteq Threads
  /\ prefers_writers \in BOOLEAN
  /\ manager \in {"alive", "gone"}
  /\ pc \in [Threads -> Positions]
  /\ call \in [Threads -> Calls]
  /\ held \in [Clients -> SUBSET Tasks]
  /\ inbox \in [Tasks -> Seq(Messages)]
  /\ handling \in [Tasks -> Messages]
  /\ life \in [Tasks -> {"running", "ended", "joined"}]
  /\ calls \in 0..MaxCalls
  /\ breaches \subseteq {"handler", "upward", "destroyed", "stopped"}

InRpc(th) == pc[th] \in {"waiting", "answered"}

(* The lock and the pointers keep a task alive while it is in use: exactly *)
(* those in rpc_event() share the lock, and nobody has it alone meanwhile; *)
(* the task that an rpc waits for stays registered under its name; and     *)
(* unless a client stops it, a task's thread ends only when nobody has a   *)
(* pointer to it, with everything that was sent to it processed.           *)
UsedTasksLive ==
  /\ readers = {th \in Threads : InRpc(th)}
  /\ writer # None => readers = {} /\ pc[writer] = "stopping"
  /\ \A th \in Threads : InRpc(th) => Target(th) = call[th].task
  /\ "stopped" \notin breaches =>
       \A t \in Tasks : life[t] # "running" => ~Referenced(t, tasks_, held) /\ inbox[t] = <<>>

(* Who a thread waits for, in a wait that no deadline ends. *)
WaitsFor(th) ==
  CASE pc[th] = "waiting" /\ ~call[th].timed -> {call[th].task}
    [] pc[th] = "stopping" -> {call[th].task}
    [] pc[th] = "locking" ->
         {writer} \cup IF Owning(th) THEN readers
                       ELSE {u \in Threads : prefers_writers /\ Owning(u)}
    [] OTHER -> {}

(* The thread waits for an answer of a task that has ended. *)
Abandoned(th) ==
  pc[th] = "waiting" /\ ~call[th].timed /\ life[call[th].task] # "running"

(* Everybody in W waits for somebody in W, or for nothing at all. *)
Deadlock(W) ==
  W # {} /\ \A th \in W : Abandoned(th) \/ WaitsFor(th) \cap W # {}

Stuck == \E W \in SUBSET Threads : Deadlock(W)

(* The class is thread-safe, as its comment has it, for callers that keep  *)
(* to these rules: handlers do not register or unregister, and do not call *)
(* at all if a waiting writer keeps readers out; a handler waits only for  *)
(* tasks below its own; the last reference of a task is not left to        *)
(* register_task() or unregister_task(); nobody stops a task directly.     *)
DisciplinedNeverStuck == breaches = {} => ~Stuck

(* Whatever the callers do, when no more calls come every call and every   *)
(* destructor has returned, but where somebody waits for himself or for a  *)
(* task that was stopped.                                                  *)
CallsReturn == []<>(Stuck \/ \A th \in Threads : pc[th] = "out")
==============================================================================
