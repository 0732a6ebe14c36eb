----------------------------- MODULE StateMachine -----------------------------
(***************************************************************************)
(* Framework::Task::StateMachine, the aggregator of a StatementTask: a     *)
(* table of states, each with its events, and the current state, an atomic *)
(* that the task's thread changes in publish(), and everybody else by      *)
(* StatementTask::set_state(): other threads, a handler in the middle of   *)
(* publish(), the task's on_start_, and the state_changed callback.        *)
(*                                                                         *)
(* Every access to current_ is a step of its own; a handler and a          *)
(* state_changed callback run between two such steps for as long as they   *)
(* like, and other threads' steps fall in between.                         *)
(***************************************************************************)
EXTENDS Naturals, FiniteSets

CONSTANTS States,      \* the values of State that are used
          Commands,
          Table,       \* table_: state -> command -> next state, or a mark
          Main,        \* the task's thread, which publishes
          Setters,     \* the threads that call set_state() or start()
          MaxCalls     \* bound on the number of calls of all threads

(* Marks: kKeepState, no handler for the command, no state set yet. *)
Keep == "keep"
NoEvent == "none"
Undefined == "undefined"

ASSUME TableAssumption ==
  /\ Keep \notin States /\ NoEvent \notin States /\ Undefined \notin States
  /\ DOMAIN Table \subseteq States
  /\ \A s \in DOMAIN Table : Table[s] \in [Commands -> States \cup {Keep, NoEvent}]
ASSUME SettersAssumption == IsFiniteSet(Setters) /\ Main \notin Setters
ASSUME MaxCallsAssumption == MaxCalls \in Nat

Threads == Setters \cup {Main}

VARIABLES current_,    \* the state of current_
          pc,          \* where each thread is, see Positions
          snapshot,    \* the `current' of publish()
          command,     \* the command being published
          resume,      \* whose set_state() the task's thread is in: see Callers
          old, new,    \* current_state and new_state of each set_state()
          listening,   \* the threads inside state_changed
          calls,       \* how many calls there were (history)
          believed,    \* the state a listener thinks current (history)
          crossed,     \* a state was stored inside another's set_state() (history)
          disturbed    \* one was stored since publish() looked, not by it (history)

publishing == <<snapshot, command, resume>>
setting == <<old, new, listening>>
history == <<calls, believed, crossed, disturbed>>
vars == <<current_, pc, publishing, setting, history>>

(* "out"; in publish(): "handler" (in the event's handler), "next" (the    *)
(* handler returned true); in set_state(): "load", "store", "report"       *)
(* (about to call state_changed), "callback" (inside it).                  *)
Positions == {"out", "handler", "next", "load", "store", "report", "callback"}

Setting == {"load", "store", "report"}

(* set_state() by the task's thread: outside publish() ("out"), by the     *)
(* event's handler, or by publish() itself, for the transition.            *)
Callers == {"out", "handler", "transition"}

(* The constructor that takes a table sets the state before anybody can    *)
(* listen; the builder leaves it undefined until start().                  *)
Init ==
  /\ current_ \in DOMAIN Table \cup {Undefined}
  /\ pc = [t \in Threads |-> "out"]
  /\ snapshot = Undefined
  /\ command \in Commands
  /\ resume = "out"
  /\ old = [t \in Threads |-> Undefined]
  /\ new = [t \in Threads |-> Undefined]
  /\ listening = {}
  /\ calls = 0
  /\ believed = current_
  /\ crossed = FALSE
  /\ disturbed = FALSE

Goto(t, p) == pc' = [pc EXCEPT ![t] = p]

-----------------------------------------------------------------------------
(* set_state() *)

(* StatementTask::set_state(s), or start(), which sets the initial state:  *)
(* from another thread; from on_start_ or a handler, in the task's thread; *)
(* from state_changed, in the thread that reports.                         *)
set_state(t, s) ==
  /\ pc[t] \in {"out", "handler", "callback"}
  /\ calls < MaxCalls
  /\ calls' = calls + 1
  /\ new' = [new EXCEPT ![t] = s]
  /\ resume' = IF t = Main /\ pc[t] # "callback" THEN pc[t] ELSE resume
  /\ Goto(t, "load")
  /\ UNCHANGED <<current_, snapshot, command, old, listening, believed, crossed, disturbed>>

load(t) ==
  /\ pc[t] = "load"
  /\ old' = [old EXCEPT ![t] = current_]
  /\ Goto(t, "store")
  /\ UNCHANGED <<current_, publishing, new, listening, history>>

(* What the thread did before its (outermost) set_state(). *)
Caller(t) == IF t = Main /\ resume = "handler" THEN "handler" ELSE "out"

(* To the callback, from a set_state() that the callback called. *)
Return(t) == Goto(t, IF t \in listening THEN "callback" ELSE Caller(t))

(* The task's thread stores for the transition of publish(). *)
InTransition == resume = "transition" /\ Main \notin listening

(* Slip: the state is stored before it is looked up. *)
store_First(t) ==
  /\ pc[t] = "store"
  /\ current_' = new[t]
  /\ IF new[t] \in DOMAIN Table THEN Goto(t, "report") ELSE Return(t)
  /\ crossed' = (crossed \/ \E u \in Threads \ {t} : pc[u] \in Setting)
  /\ disturbed' = (disturbed \/ t # Main \/ ~InTransition)
  /\ UNCHANGED <<publishing, setting, calls, believed>>

(* table_.at() throws for a state that is not in the table, before the     *)
(* store: the caller gets the exception and nothing has changed.           *)
store(t) ==
  /\ pc[t] = "store"
  /\ IF new[t] \in DOMAIN Table
     THEN /\ current_' = new[t]
          /\ Goto(t, "report")
          /\ crossed' = (crossed \/ \E u \in Threads \ {t} : pc[u] \in Setting)
          /\ disturbed' = (disturbed \/ t # Main \/ ~InTransition)
     ELSE Return(t) /\ UNCHANGED <<current_, crossed, disturbed>>
  /\ UNCHANGED <<publishing, setting, calls, believed>>

(* state_changed(old, new) is called ... *)
report(t) ==
  /\ pc[t] = "report"
  /\ believed' = new[t]
  /\ listening' = listening \cup {t}
  /\ Goto(t, "callback")
  /\ UNCHANGED <<current_, publishing, old, new, calls, crossed, disturbed>>

(* ... and returns or throws, past the calls it made itself: nothing is    *)
(* left to do, and the store stays.                                        *)
reported(t) ==
  /\ pc[t] = "callback"
  /\ listening' = listening \ {t}
  /\ Goto(t, Caller(t))
  /\ UNCHANGED <<current_, publishing, old, new, history>>

-----------------------------------------------------------------------------
(* publish(), by the task's thread. *)

(* Slip: the aggregator found for the first event is used for all. *)
publish_Cached(c) ==
  /\ pc[Main] = "out"
  /\ calls < MaxCalls
  /\ current_ # Undefined
  /\ Table[current_][c] # NoEvent
  /\ calls' = calls + 1
  /\ snapshot' = IF snapshot = Undefined THEN current_ ELSE snapshot
  /\ command' = c
  /\ resume' = "out"
  /\ disturbed' = FALSE
  /\ Goto(Main, "handler")
  /\ UNCHANGED <<current_, setting, believed, crossed>>

(* current_.load(): without a state publish() throws, and so does the      *)
(* aggregator for a command it has no handler for; nothing has changed.    *)
publish(c) ==
  /\ pc[Main] = "out"
  /\ calls < MaxCalls
  /\ current_ # Undefined
  /\ Table[current_][c] # NoEvent
  /\ calls' = calls + 1
  /\ snapshot' = current_
  /\ command' = c
  /\ resume' = "out"
  /\ disturbed' = FALSE
  /\ Goto(Main, "handler")
  /\ UNCHANGED <<current_, setting, believed, crossed>>

(* The handler returns true, or ends publish() by false or an exception. *)
handle(ok) ==
  /\ pc[Main] = "handler"
  /\ resume' = "out"
  /\ Goto(Main, IF ok THEN "next" ELSE "out")
  /\ UNCHANGED <<current_, snapshot, command, setting, history>>

(* get_next_state(), of the aggregator that published. *)
next_state == Table[snapshot][command]

Moves == next_state # Keep /\ current_ # next_state

transition ==
  /\ pc[Main] = "next"
  /\ IF Moves
     THEN /\ new' = [new EXCEPT ![Main] = next_state]
          /\ resume' = "transition"
          /\ Goto(Main, "load")
     ELSE Goto(Main, "out") /\ UNCHANGED <<new, resume>>
  /\ UNCHANGED <<current_, snapshot, command, old, listening, history>>

-----------------------------------------------------------------------------

Set(t) == load(t) \/ store(t) \/ report(t) \/ reported(t)

Next ==
  \/ \E c \in Commands : publish(c)
  \/ \E ok \in BOOLEAN : handle(ok)
  \/ transition
  \/ \E t \in Threads, s \in States : set_state(t, s)
  \/ \E t \in Threads : Set(t)

Safety == Init /\ [][Next]_vars

-----------------------------------------------------------------------------

(* Types of the state; whatever is asked for, the current state is one the *)
(* table has, and kKeepState is never taken for a state to go to.          *)
TypeOK ==
  /\ current_ \in DOMAIN Table \cup {Undefined}
  /\ pc \in [Threads -> Positions]
  /\ snapshot \in DOMAIN Table \cup {Undefined}
  /\ command \in Commands
  /\ resume \in Callers
  /\ old \in [Threads -> DOMAIN Table \cup {Undefined}]
  /\ new \in [Threads -> States \cup {Undefined}]
  /\ listening \subseteq Threads
  /\ calls \in 0..MaxCalls
  /\ believed \in DOMAIN Table \cup {Undefined}
  /\ crossed \in BOOLEAN /\ disturbed \in BOOLEAN

(* publish() reads the current state three times: for the handler, for the *)
(* comparison and in set_state().  The transition it reports, from the     *)
(* third to the next state of the first, is one that the table has for     *)
(* the command, unless the handler or another thread has set the state     *)
(* since; then only the state it goes to is the table's.                   *)
TransitionsAreTheTables ==
  pc[Main] = "report" /\ InTransition /\ ~disturbed =>
    Table[old[Main]][command] = new[Main]

(* A listener can follow the state, whoever sets it: as long as no store   *)
(* falls inside another thread's set_state(), each change is reported as   *)
(* one from the state reported last to the one that is current, also when  *)
(* it overwrites what was set during the handler; a transition never       *)
(* reports a state changed for itself; and with no report due the state    *)
(* reported last is the current one.  Where a store does, the reports may  *)
(* come in another order than the stores, for good.                        *)
Followed == ~crossed =>
  /\ (\A t \in Threads : pc[t] # "report") => believed = current_
  /\ \A t \in Threads : pc[t] = "report" => old[t] = believed /\ new[t] = current_
  /\ pc[Main] = "report" /\ InTransition => old[Main] # new[Main]

==============================================================================
